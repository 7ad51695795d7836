------------------------ MODULE CaseLifecycleProofs -------------------------
(***************************************************************************)
(* The life of a case for every workflow configuration, any number of      *)
(* concurrent handlers and roles, and any number of attempts and failures. *)
(***************************************************************************)
EXTENDS CaseLifecycle, DefaultWorkflows, FiniteSetTheorems, TLAPS

\* The small facts about the constants that the steps need.
LEMMA Constants ==
  /\ Kind \subseteq DOMAIN Config
  /\ \A k \in Kind : StatusesOf(k) \subseteq Status /\ Config[k].initial \in Status
  /\ "assigned" \in Status /\ "expired" \in Status /\ "none" \notin Status
  /\ MaxCalls \in Nat /\ MaxAttempts \in Nat /\ MaxFaults \in Nat
  /\ Deadline \in Timer
<1>1. \A k \in Kind : StatusesOf(k) \cup {Config[k].initial} \subseteq Status
  BY DEF Status
<1>2. "assigned" \in Status /\ "expired" \in Status
  BY DEF Status
<1>3. Deadline \in Timer
  BY CaseAssumption DEF Timer, Deadline
<1>4. Kind \subseteq DOMAIN Config /\ MaxCalls \in Nat /\ MaxAttempts \in Nat /\ MaxFaults \in Nat
  BY CaseAssumption
<1> QED
  BY <1>1, <1>2, <1>3, <1>4, StatusAssumption

\* A request gets the number of a timer.
LEMMA CallNumber ==
  ASSUME calls \in Nat, calls < MaxCalls
  PROVE  calls + 1 \in Timer /\ calls + 1 # Deadline
BY Constants DEF Timer, Deadline

-----------------------------------------------------------------------------
(* Type correctness.                                                         *)

LEMMA TypeInit == Init => TypeOK
<1> SUFFICES ASSUME Init PROVE TypeOK
  OBVIOUS
<1>1. NoCall \in Call /\ NoTimer \in TimerRecord
  BY Constants DEF NoCall, Deadline, Call, NoTimer, TimerRecord, TimerState
<1>2. <<>> \in Seq(Change)
  OBVIOUS
<1>3. call \in [Handler -> Call]
  BY <1>1 DEF Init
<1>4. /\ timer \in [Timer -> TimerRecord]
      /\ tries \in [Timer -> Nat]
  BY <1>1 DEF Init
<1> QED
  BY <1>2, <1>3, <1>4 DEF Init, TypeOK

LEMMA TypeCreation == TypeOK /\ Creation => TypeOK'
<1> SUFFICES ASSUME TypeOK, Creation PROVE TypeOK'
  OBVIOUS
<1> USE DEF TypeOK, row, timers, config
<1>1. ASSUME Create PROVE TypeOK'
  <2>1. Event("create", "none", InitialStatus, "none", 0) \in Change
    BY Constants DEF Event, Change, Deadline, InitialStatus
  <2>2. announced' \in Seq(Change) /\ status' \in Status
    BY <1>1, <2>1, Constants DEF Create, InitialStatus
  <2> QED
    BY <1>1, <2>2 DEF Create
<1>2. ASSUME StartWorkflow PROVE TypeOK'
  <2>1. [state |-> "sleeping", from |-> "none"] \in TimerRecord
    BY DEF TimerRecord, TimerState
  <2> QED
    BY <1>2, <2>1 DEF StartWorkflow
<1>3. ASSUME StartWorkflowFails PROVE TypeOK'
  <2>1. /\ UNCHANGED <<kind, status, stamped, announced, execution, listening, withdrawn>>
        /\ UNCHANGED <<notices, timer, tries, call, calls, contended>>
        /\ starting' = FALSE /\ faults' = faults + 1
    BY <1>3 DEF StartWorkflowFails, Fail
  <2>2. starting' \in BOOLEAN
    BY <1>3, Zenon DEF StartWorkflowFails
  <2>4. faults' \in Nat
    BY <1>3 DEF StartWorkflowFails, Fail
  <2>3. announced' \in Seq(Change) /\ call' \in [Handler -> Call] /\ timer' \in [Timer -> TimerRecord]
    BY <2>1
  <2> QED
    BY <2>1, <2>2, <2>3, <2>4 DEF TypeOK
<1> QED
  BY <1>1, <1>2, <1>3 DEF Creation

\* Reading the row fills in the handler's variables.
LEMMA TypeBegins ==
  ASSUME TypeOK, NEW h \in Handler, NEW to \in Status, NEW role \in Role,
         NEW op \in {"update", "assign"}, Begins(h, to, role, op)
  PROVE  TypeOK'
<1> DEFINE C == [pc |-> "read", op |-> op, no |-> calls + 1, seen |-> status, to |-> to, role |-> role]
<1>1. C \in Call
  BY CallNumber, Constants DEF Begins, TypeOK, Call
<1>2. call' \in [Handler -> Call]
  BY <1>1 DEF Begins, TypeOK
<1> QED
  BY <1>2 DEF Begins, TypeOK, row, workflow, timers, Busy

LEMMA TypeAccepts ==
  ASSUME TypeOK, NEW h \in Handler, WorkflowAccepts(h)
  PROVE  /\ execution' \in {"none", "running", "closed", "purged"}
         /\ timer' \in [Timer -> TimerRecord]
<1>1. call[h] \in Call /\ call[h].no \in Timer /\ call[h].to \in Status \cup {"none"}
  BY DEF TypeOK, Call
<1>2. [state |-> "sleeping", from |-> call[h].to] \in TimerRecord
  BY <1>1 DEF TimerRecord, TimerState
<1> QED
  BY <1>1, <1>2 DEF WorkflowAccepts, TypeOK

LEMMA TypeCall ==
  ASSUME TypeOK, NEW h \in Handler, Accepted(h) \/ Answered(h)
  PROVE  call' \in [Handler -> Call]
<1>1. NoCall \in Call
  BY Constants DEF NoCall, Call, Deadline
<1>2. [call[h] EXCEPT !.pc = "accepted"] \in Call
  BY DEF TypeOK, Call
<1> QED
  BY <1>1, <1>2 DEF TypeOK, Accepted, Answered

LEMMA TypeHandler ==
  ASSUME TypeOK, WorkInv, NEW h \in Handler, HandlerStep(h)
  PROVE  TypeOK'
<1> USE DEF row, workflow, timers
<1>1. ASSUME NEW to \in StatusesOf(kind) \cap Requested, NEW role \in Role, ReadForUpdate(h, to, role)
      PROVE  TypeOK'
  <2>1. to \in Status
    BY <1>1, Constants DEF TypeOK
  <2> QED
    BY <1>1, <2>1, TypeBegins DEF ReadForUpdate
<1>2. ASSUME NEW role \in Role, ReadForAssign(h, role) PROVE TypeOK'
  BY <1>2, TypeBegins, Constants DEF ReadForAssign
<1>3. ASSUME UpdateAccepted(h) PROVE TypeOK'
  BY <1>3, TypeAccepts, TypeCall DEF UpdateAccepted, TypeOK
<1>4. ASSUME UpdateReplyLost(h) PROVE TypeOK'
  BY <1>4, TypeAccepts, TypeCall, Constants DEF UpdateReplyLost, Fail, TypeOK
<1>5. ASSUME UpdateRefused(h) PROVE TypeOK'
  BY <1>5, TypeCall DEF UpdateRefused, TypeOK
<1>6. ASSUME TemporalUnavailable(h) \/ validateHTTPFails(h) PROVE TypeOK'
  BY <1>6, TypeCall, Constants DEF TemporalUnavailable, validateHTTPFails, Fail, TypeOK
<1>7. ASSUME ValidateHTTP(h) PROVE TypeOK'
  <2>1. call' \in [Handler -> Call]
    BY <1>7, TypeCall DEF ValidateHTTP
  <2> QED
    BY <1>7, <2>1 DEF ValidateHTTP, TypeOK
<1>8. ASSUME WriteRow(h) PROVE TypeOK'
  <2>1. call[h].op \in {"update", "assign"} /\ call[h].to \in Status /\ call[h].seen \in Status
        /\ call[h].role \in Role \cup {"none"} /\ call[h].no \in Timer
    BY <1>8 DEF WorkInv, TypeOK, Call, WriteRow, UpdateRow
  <2>2. Event(call[h].op, call[h].seen, call[h].to, call[h].role, call[h].no) \in Change
    BY <2>1 DEF Event, Change
  <2>3. stamped' \in BOOLEAN
    BY <1>8 DEF WriteRow, UpdateRow, TypeOK
  <2> QED
    BY <1>8, <2>1, <2>2, <2>3, TypeCall DEF WriteRow, UpdateRow, TypeOK
<1>9. ASSUME WriteFails(h) PROVE TypeOK'
  BY <1>9, TypeCall, Constants DEF WriteFails, Fail, TypeOK
<1> QED
  BY <1>1, <1>2, <1>3, <1>4, <1>5, <1>6, <1>7, <1>8, <1>9 DEF HandlerStep, WriteStatus, WriteAssign

LEMMA TypeTimer ==
  ASSUME TypeOK, NEW t \in Timer, TimerStep(t)
  PROVE  TypeOK'
<1> USE DEF row, workflow, timers
<1>1. timer[t] \in TimerRecord /\ tries[t] \in Nat
  BY DEF TypeOK
<1>2. \A s \in TimerState : [timer EXCEPT ![t].state = s] \in [Timer -> TimerRecord]
  BY <1>1 DEF TypeOK, TimerRecord
<1>3. {"scheduled", "committed", "exhausted", "done", "dropped"} \subseteq TimerState
  BY DEF TimerState
<1>4. ASSUME TimerFires(t) PROVE TypeOK'
  BY <1>4, <1>2, <1>3 DEF TimerFires, TypeOK, Busy
<1>5. ASSUME ExpiryCommits(t) PROVE TypeOK'
  <2>1. Event("expire", timer[t].from, "expired", "system", t) \in Change
    BY <1>1, Constants DEF Event, Change, TimerRecord
  <2>2. announced' \in Seq(Change) /\ status' \in Status
    BY <1>5, <2>1, Constants DEF ExpiryCommits, TypeOK
  <2> QED
    BY <1>5, <1>2, <1>3, <2>2 DEF ExpiryCommits, TypeOK
<1>6. ASSUME AttemptFails(t) PROVE TypeOK'
  <2>1. timer' \in [Timer -> TimerRecord]
    BY <1>6, <1>2, <1>3 DEF AttemptFails
  <2>2. tries' \in [Timer -> Nat] /\ faults' \in Nat
    BY <1>6, <1>1 DEF AttemptFails, Fail, TypeOK
  <2> QED
    BY <1>6, <2>1, <2>2 DEF AttemptFails, TypeOK
<1>7. ASSUME AttemptDropped(t) PROVE TypeOK'
  BY <1>7, <1>2, <1>3 DEF AttemptDropped, TypeOK
<1>8. ASSUME ActivityReturns(t) PROVE TypeOK'
  BY <1>8, <1>2, <1>3 DEF ActivityReturns, TypeOK
<1> QED
  BY <1>4, <1>5, <1>6, <1>7, <1>8 DEF TimerStep

LEMMA TypeNotice == TypeOK /\ NoticeCommits => TypeOK'
<1> SUFFICES ASSUME TypeOK, NoticeCommits PROVE TypeOK'
  OBVIOUS
<1>1. timer[Deadline] \in TimerRecord
  BY Constants DEF TypeOK
<1>2. timer' \in [Timer -> TimerRecord]
  BY <1>1 DEF NoticeCommits, TypeOK, TimerRecord, TimerState
<1> QED
  BY <1>2 DEF NoticeCommits, TypeOK, row, workflow

LEMMA TypeExecution == TypeOK /\ ExecutionStep => TypeOK'
<1> SUFFICES ASSUME TypeOK, ExecutionStep PROVE TypeOK'
  OBVIOUS
<1> USE DEF row, timers
<1>1. ASSUME WithdrawSignal PROVE TypeOK'
  BY <1>1 DEF WithdrawSignal, TypeOK
<1>2. ASSUME ExecutionTimeout PROVE TypeOK'
  BY <1>2 DEF ExecutionTimeout, Fail, TypeOK
<1>3. ASSUME Purge PROVE TypeOK'
  BY <1>3 DEF Purge, TypeOK
<1> QED
  BY <1>1, <1>2, <1>3 DEF ExecutionStep

LEMMA TypeNext == TypeOK /\ WorkInv /\ [Next]_vars => TypeOK'
<1> SUFFICES ASSUME TypeOK, WorkInv, [Next]_vars PROVE TypeOK'
  OBVIOUS
<1>1. CASE UNCHANGED vars
  BY <1>1 DEF vars, row, workflow, timers, TypeOK
<1> QED
  BY <1>1, TypeCreation, TypeHandler, TypeTimer, TypeNotice, TypeExecution DEF Next

-----------------------------------------------------------------------------
(* What handlers and timers know of their own work: WorkInv is inductive     *)
(* together with the types.                                                  *)

\* WorkInv, one handler and one timer at a time.
HandlerWork(h) ==
  /\ call[h].pc # "idle" => /\ call[h].op # "none" /\ call[h].seen # "none"
                            /\ call[h].to # "none" /\ status # "none"
  /\ call[h].pc = "accepted" => Valid(h)

TimerWork(t) ==
  (t # Deadline /\ timer[t].state # "none") =>
    kind = "permit" /\ AutoExpires(config, timer[t].from) /\ timer[t].from # "none"

LEMMA WorkParts == WorkInv <=> (\A h \in Handler : HandlerWork(h)) /\ (\A t \in Timer : TimerWork(t))
BY DEF WorkInv, HandlerWork, TimerWork

\* A handler's part survives as long as its own variables do; no row disappears.
LEMMA HandlerKept ==
  ASSUME NEW h \in Handler, HandlerWork(h), UNCHANGED kind, call'[h] = call[h],
         status # "none" => status' # "none"
  PROVE  HandlerWork(h)'
BY DEF HandlerWork, Valid, config

LEMMA TimerKept ==
  ASSUME NEW t \in Timer, TimerWork(t), UNCHANGED kind, timer'[t].from = timer[t].from,
         timer[t].state = "none" => timer'[t].state = "none"
  PROVE  TimerWork(t)'
BY DEF TimerWork, config

LEMMA WorkInit == Init => WorkInv
BY DEF Init, WorkInv, NoCall, NoTimer

LEMMA WorkKept ==
  ASSUME WorkInv, UNCHANGED <<kind, status, call, timer>>
  PROVE  WorkInv'
BY DEF WorkInv, Valid, config

LEMMA WorkCreation == TypeOK /\ WorkInv /\ Creation => WorkInv'
<1> SUFFICES ASSUME TypeOK, WorkInv, Creation PROVE WorkInv'
  OBVIOUS
<1> USE DEF row, timers
<1>1. ASSUME Create PROVE WorkInv'
  <2>1. status' # "none" /\ UNCHANGED <<kind, call, timer>>
    BY <1>1, Constants DEF Create, InitialStatus, TypeOK, config
  <2>2. \A h \in Handler : HandlerWork(h)'
    BY <2>1, WorkParts, HandlerKept
  <2>3. \A t \in Timer : TimerWork(t)'
    BY <2>1, WorkParts, TimerKept
  <2> QED
    BY <2>2, <2>3, WorkParts DEF WorkInv, HandlerWork, TimerWork
<1>2. ASSUME StartWorkflow PROVE WorkInv'
  <2>1. UNCHANGED <<kind, status, call>>
    BY <1>2 DEF StartWorkflow
  <2>2. \A t \in Timer : t # Deadline => timer'[t] = timer[t]
    BY <1>2 DEF StartWorkflow, TypeOK
  <2>3. \A h \in Handler : HandlerWork(h)'
    BY <2>1, WorkParts, HandlerKept
  <2>4. \A t \in Timer : t # Deadline => TimerWork(t)'
    BY <2>1, <2>2, WorkParts, TimerKept
  <2>5. \A t \in Timer : TimerWork(t)'
    BY <2>4 DEF TimerWork
  <2> QED
    BY <2>3, <2>5 DEF WorkInv, HandlerWork, TimerWork
<1>3. ASSUME StartWorkflowFails PROVE WorkInv'
  BY <1>3, WorkKept DEF StartWorkflowFails
<1> QED
  BY <1>1, <1>2, <1>3 DEF Creation

\* A handler that starts, is accepted or answers leaves the others alone.
LEMMA WorkBegins ==
  ASSUME TypeOK, WorkInv, NEW h \in Handler, NEW to \in Status, NEW role \in Role,
         NEW op \in {"update", "assign"}, Begins(h, to, role, op)
  PROVE  WorkInv'
<1>1. UNCHANGED <<kind, status, timer>>
  BY DEF Begins, row, timers
<1>2. \A g \in Handler : g # h => call'[g] = call[g]
  BY DEF Begins, TypeOK
<1>3. call'[h] = [pc |-> "read", op |-> op, no |-> calls + 1, seen |-> status, to |-> to, role |-> role]
  BY DEF Begins, TypeOK
<1>4. HandlerWork(h)'
  BY <1>1, <1>3, Constants DEF Begins, HandlerWork
<1>5. \A g \in Handler : HandlerWork(g)'
  BY <1>1, <1>2, <1>4, WorkParts, HandlerKept
<1>6. \A t \in Timer : TimerWork(t)'
  BY <1>1, WorkParts, TimerKept
<1> QED
  BY <1>5, <1>6 DEF WorkInv, HandlerWork, TimerWork

LEMMA CallWork ==
  ASSUME TypeOK, WorkInv, NEW h \in Handler, call[h].pc # "idle", UNCHANGED kind,
         status # "none" => status' # "none",
         \/ Accepted(h) /\ Valid(h)
         \/ Answered(h)
  PROVE  \A g \in Handler : HandlerWork(g)'
<1>1. \A g \in Handler : g # h => call'[g] = call[g]
  BY DEF Accepted, Answered, TypeOK
<1>2. CASE Accepted(h) /\ Valid(h)
  <2>1. call'[h] = [call[h] EXCEPT !.pc = "accepted"]
    BY <1>2 DEF Accepted, TypeOK
  <2>2. /\ call'[h].op = call[h].op /\ call'[h].seen = call[h].seen
        /\ call'[h].to = call[h].to /\ call'[h].role = call[h].role
    BY <2>1 DEF TypeOK, Call
  <2>3. HandlerWork(h)'
    BY <1>2, <2>2 DEF HandlerWork, WorkInv, Valid, config
  <2> QED
    BY <1>1, <2>3, WorkParts, HandlerKept
<1>3. CASE Answered(h)
  <2>1. call'[h] = NoCall
    BY <1>3 DEF Answered, TypeOK
  <2>2. HandlerWork(h)'
    BY <2>1 DEF HandlerWork, NoCall
  <2> QED
    BY <1>1, <2>2, WorkParts, HandlerKept
<1> QED
  BY <1>2, <1>3

\* The workflow arms an expiry for a permit only, and for a status that expires.
LEMMA AcceptsWork ==
  ASSUME TypeOK, WorkInv, NEW h \in Handler, WorkflowAccepts(h), UNCHANGED kind
  PROVE  \A t \in Timer : TimerWork(t)'
<1> SUFFICES ASSUME NEW t \in Timer PROVE TimerWork(t)'
  OBVIOUS
<1>1. CASE timer' = timer
  BY <1>1, WorkParts, TimerKept
<1>2. CASE kind = "permit" /\ AutoExpires(config, call[h].to)
           /\ timer' = [timer EXCEPT ![call[h].no] = [state |-> "sleeping", from |-> call[h].to]]
  <2>1. CASE t = call[h].no
    <3>1. timer'[t].from = call[h].to
      BY <1>2, <2>1 DEF TypeOK
    <3>2. call[h].to # "none"
      BY DEF WorkInv, WorkflowAccepts
    <3> QED
      BY <1>2, <3>1, <3>2 DEF TimerWork, config
  <2>2. CASE t # call[h].no
    <3>1. timer'[t] = timer[t]
      BY <1>2, <2>2 DEF TypeOK
    <3> QED
      BY <3>1, WorkParts, TimerKept
  <2> QED
    BY <2>1, <2>2
<1> QED
  BY <1>1, <1>2 DEF WorkflowAccepts

LEMMA WorkHandler ==
  ASSUME TypeOK, WorkInv, NEW h \in Handler, HandlerStep(h)
  PROVE  WorkInv'
<1> USE DEF row, workflow, timers
<1>1. ASSUME NEW to \in StatusesOf(kind) \cap Requested, NEW role \in Role, ReadForUpdate(h, to, role)
      PROVE  WorkInv'
  <2>1. to \in Status
    BY <1>1, Constants DEF TypeOK
  <2> QED
    BY <1>1, <2>1, WorkBegins DEF ReadForUpdate
<1>2. ASSUME NEW role \in Role, ReadForAssign(h, role) PROVE WorkInv'
  BY <1>2, WorkBegins, Constants DEF ReadForAssign
<1>3. ASSUME UpdateAccepted(h) PROVE WorkInv'
  <2>1. UNCHANGED <<kind, status>> /\ call[h].pc # "idle" /\ Valid(h) /\ Accepted(h)
    BY <1>3 DEF UpdateAccepted, WorkflowAccepts
  <2>2. \A g \in Handler : HandlerWork(g)'
    BY <2>1, CallWork
  <2>3. \A t \in Timer : TimerWork(t)'
    BY <1>3, <2>1, AcceptsWork DEF UpdateAccepted
  <2> QED
    BY <2>2, <2>3 DEF WorkInv, HandlerWork, TimerWork
<1>4. ASSUME UpdateReplyLost(h) PROVE WorkInv'
  <2>1. UNCHANGED <<kind, status>> /\ call[h].pc # "idle" /\ Answered(h)
    BY <1>4 DEF UpdateReplyLost, WorkflowAccepts
  <2>2. \A g \in Handler : HandlerWork(g)'
    BY <2>1, CallWork
  <2>3. \A t \in Timer : TimerWork(t)'
    BY <1>4, <2>1, AcceptsWork DEF UpdateReplyLost
  <2> QED
    BY <2>2, <2>3 DEF WorkInv, HandlerWork, TimerWork
<1>5. ASSUME \/ UpdateRefused(h) \/ TemporalUnavailable(h) \/ validateHTTPFails(h)
             \/ ValidateHTTP(h) \/ WriteFails(h)
      PROVE  WorkInv'
  <2>1. UNCHANGED <<kind, status, timer>> /\ call[h].pc # "idle"
    BY <1>5 DEF UpdateRefused, TemporalUnavailable, validateHTTPFails, ValidateHTTP, WriteFails
  <2>2. (Accepted(h) /\ Valid(h)) \/ Answered(h)
    BY <1>5 DEF UpdateRefused, TemporalUnavailable, validateHTTPFails, ValidateHTTP, WriteFails
  <2>3. \A g \in Handler : HandlerWork(g)'
    BY <2>1, <2>2, CallWork
  <2>4. \A t \in Timer : TimerWork(t)'
    BY <2>1, WorkParts, TimerKept
  <2> QED
    BY <2>3, <2>4 DEF WorkInv, HandlerWork, TimerWork
<1>6. ASSUME WriteRow(h) PROVE WorkInv'
  <2>1. UNCHANGED <<kind, timer>> /\ call[h].pc # "idle" /\ Answered(h)
    BY <1>6 DEF WriteRow, UpdateRow
  <2>2. status' # "none"
    BY <1>6, <2>1 DEF WriteRow, UpdateRow, WorkInv
  <2>3. \A g \in Handler : HandlerWork(g)'
    BY <2>1, <2>2, CallWork
  <2>4. \A t \in Timer : TimerWork(t)'
    BY <2>1, WorkParts, TimerKept
  <2> QED
    BY <2>3, <2>4 DEF WorkInv, HandlerWork, TimerWork
<1> QED
  BY <1>1, <1>2, <1>3, <1>4, <1>5, <1>6 DEF HandlerStep, WriteStatus, WriteAssign

\* A timer moves on, but stays the timer of the status that started it.
LEMMA WorkTimer ==
  ASSUME TypeOK, WorkInv, UNCHANGED <<kind, call>>, status' \in {status, "expired"},
         NEW t \in Timer, timer[t].state # "none", NEW s, timer' = [timer EXCEPT ![t].state = s]
  PROVE  WorkInv'
<1>1. status # "none" => status' # "none"
  OBVIOUS
<1>2. \A h \in Handler : HandlerWork(h)'
  BY <1>1, WorkParts, HandlerKept
<1>3. \A u \in Timer : timer'[u].from = timer[u].from /\ (timer[u].state = "none" => timer'[u].state = "none")
  BY DEF TypeOK, TimerRecord
<1>4. \A u \in Timer : TimerWork(u)'
  BY <1>3, WorkParts, TimerKept
<1> QED
  BY <1>2, <1>4 DEF WorkInv, HandlerWork, TimerWork

LEMMA WorkTimers ==
  ASSUME TypeOK, WorkInv, NEW t \in Timer, TimerStep(t)
  PROVE  WorkInv'
<1> USE DEF row, workflow, timers
<1>1. ASSUME TimerFires(t) PROVE WorkInv'
  BY <1>1, WorkTimer DEF TimerFires
<1>2. ASSUME ExpiryCommits(t) PROVE WorkInv'
  BY <1>2, WorkTimer DEF ExpiryCommits
<1>3. ASSUME AttemptFails(t) PROVE WorkInv'
  <2>1. timer[t].state # "none" /\ UNCHANGED <<kind, call, status>>
    BY <1>3 DEF AttemptFails
  <2> QED
    BY <1>3, <2>1, WorkTimer DEF AttemptFails
<1>4. ASSUME AttemptDropped(t) PROVE WorkInv'
  BY <1>4, WorkTimer DEF AttemptDropped
<1>5. ASSUME ActivityReturns(t) PROVE WorkInv'
  <2>1. timer[t].state # "none" /\ UNCHANGED <<kind, call, status>>
    BY <1>5 DEF ActivityReturns
  <2> QED
    BY <1>5, <2>1, WorkTimer DEF ActivityReturns
<1> QED
  BY <1>1, <1>2, <1>3, <1>4, <1>5 DEF TimerStep

LEMMA WorkNext == TypeOK /\ WorkInv /\ [Next]_vars => WorkInv'
<1> SUFFICES ASSUME TypeOK, WorkInv, [Next]_vars PROVE WorkInv'
  OBVIOUS
<1> USE DEF row, workflow, timers
<1>1. CASE UNCHANGED vars
  BY <1>1, WorkKept DEF vars
<1>2. ASSUME NoticeCommits PROVE WorkInv'
  BY <1>2, WorkTimer, Constants DEF NoticeCommits
<1>3. ASSUME ExecutionStep PROVE WorkInv'
  BY <1>3, WorkKept DEF ExecutionStep, WithdrawSignal, ExecutionTimeout, Purge
<1> QED
  BY <1>1, <1>2, <1>3, WorkCreation, WorkHandler, WorkTimers DEF Next

\* Types and work together, for every reachable state.
LEMMA Groundwork == Spec => [](TypeOK /\ WorkInv)
<1>1. Init => TypeOK /\ WorkInv
  BY TypeInit, WorkInit
<1>2. TypeOK /\ WorkInv /\ [Next]_vars => (TypeOK /\ WorkInv)'
  BY TypeNext, WorkNext
<1> QED
  BY <1>1, <1>2, PTL DEF Spec

\* Types hold in every run, whatever the configuration.
THEOREM CaseTypeCorrect == Spec => []TypeOK
BY Groundwork, PTL

\* An accepted change stays a transition the configuration allows from what the
\* handler read until it is written, and an expiry belongs to a permit's expiring status.
THEOREM WorkPreserved == Spec => []WorkInv
BY Groundwork, PTL

-----------------------------------------------------------------------------
(* The row and its events.                                                   *)

\* A step writes the row exactly when it appends an event.
Wrote(e) ==
  /\ e \in Change
  /\ status' = e.to
  /\ announced' = Append(announced, e)

\* What appending to the history does to the history.
LEMMA Appended ==
  ASSUME TypeOK, NEW e \in Change, announced' = Append(announced, e)
  PROVE  /\ Len(announced') = Len(announced) + 1 /\ announced' # <<>>
         /\ DOMAIN announced' = DOMAIN announced \cup {Len(announced) + 1}
         /\ announced'[Len(announced) + 1] = e
         /\ \A i \in DOMAIN announced : announced'[i] = announced[i]
<1>1. announced \in Seq(Change) /\ Len(announced) \in Nat
  BY DEF TypeOK
<1>2. DOMAIN announced = 1..Len(announced)
  BY <1>1
<1>3. /\ Len(announced') = Len(announced) + 1
      /\ announced'[Len(announced) + 1] = e
      /\ \A i \in 1..Len(announced) : announced'[i] = announced[i]
  BY <1>1
<1>4. DOMAIN announced' = 1..(Len(announced) + 1)
  BY <1>1
<1>5. announced' # <<>>
  BY <1>1, <1>3
<1> QED
  BY <1>1, <1>2, <1>3, <1>4, <1>5

\* Every change of row and history: the creation, a handler's write, an expiry, nothing.
LEMMA Writes ==
  ASSUME TypeOK, WorkInv, [Next]_vars
  PROVE  UNCHANGED kind /\
         ( \/ UNCHANGED <<status, stamped, announced>>
           \/ Create /\ status = "none"
           \/ \E h \in Handler : /\ WriteRow(h)
                                 /\ Wrote(Event(call[h].op, call[h].seen, call[h].to,
                                                call[h].role, call[h].no))
                                 /\ call[h].op \in {"update", "assign"} /\ Valid(h)
           \/ \E t \in Timer : /\ ExpiryCommits(t) /\ UNCHANGED stamped
                               /\ Wrote(Event("expire", timer[t].from, "expired", "system", t))
                               /\ kind = "permit" /\ timer[t].from \in Status
                               /\ AutoExpires(config, timer[t].from) )
<1> USE DEF row
<1>1. CASE UNCHANGED vars
  BY <1>1 DEF vars
<1>2. ASSUME Creation
      PROVE  \/ Create /\ status = "none" /\ UNCHANGED kind
             \/ UNCHANGED <<kind, status, stamped, announced>>
  BY <1>2 DEF Creation, Create, StartWorkflow, StartWorkflowFails
<1>3. ASSUME NoticeCommits \/ ExecutionStep PROVE UNCHANGED <<kind, status, stamped, announced>>
  BY <1>3 DEF NoticeCommits, ExecutionStep, WithdrawSignal, ExecutionTimeout, Purge
<1>4. ASSUME NEW h \in Handler, HandlerStep(h), ~WriteRow(h)
      PROVE  UNCHANGED <<kind, status, stamped, announced>>
  BY <1>4 DEF HandlerStep, WriteStatus, WriteAssign, ReadForUpdate, ReadForAssign, Begins, UpdateAccepted, UpdateReplyLost,
              UpdateRefused, TemporalUnavailable, validateHTTPFails, ValidateHTTP, WriteFails
<1>5. ASSUME NEW h \in Handler, WriteRow(h)
      PROVE  /\ UNCHANGED kind
             /\ Wrote(Event(call[h].op, call[h].seen, call[h].to, call[h].role, call[h].no))
             /\ call[h].op \in {"update", "assign"} /\ Valid(h)
  <2>1. call[h].op \in {"update", "assign"} /\ call[h].to \in Status /\ call[h].seen \in Status
        /\ call[h].role \in Role \cup {"none"} /\ call[h].no \in Timer /\ Valid(h)
    BY <1>5 DEF WorkInv, TypeOK, Call, WriteRow, UpdateRow
  <2>2. Event(call[h].op, call[h].seen, call[h].to, call[h].role, call[h].no) \in Change
    BY <2>1 DEF Event, Change
  <2>3. Event(call[h].op, call[h].seen, call[h].to, call[h].role, call[h].no).to = call[h].to
    BY DEF Event
  <2> QED
    BY <1>5, <2>1, <2>2, <2>3 DEF WriteRow, UpdateRow, Wrote
<1>6. ASSUME NEW t \in Timer, TimerStep(t), ~ExpiryCommits(t)
      PROVE  UNCHANGED <<kind, status, stamped, announced>>
  BY <1>6 DEF TimerStep, TimerFires, AttemptFails, AttemptDropped, ActivityReturns
<1>7. ASSUME NEW t \in Timer, ExpiryCommits(t)
      PROVE  /\ ExpiryCommits(t) /\ UNCHANGED <<kind, stamped>>
             /\ Wrote(Event("expire", timer[t].from, "expired", "system", t))
             /\ kind = "permit" /\ timer[t].from \in Status
             /\ AutoExpires(config, timer[t].from)
  <2>1. timer[t].from \in Status /\ kind = "permit" /\ AutoExpires(config, timer[t].from)
    BY <1>7 DEF ExpiryCommits, WorkInv, TypeOK, TimerRecord
  <2>2. Event("expire", timer[t].from, "expired", "system", t) \in Change
    BY <2>1, Constants DEF Event, Change
  <2>3. Event("expire", timer[t].from, "expired", "system", t).to = "expired"
    BY DEF Event
  <2> QED
    BY <1>7, <2>1, <2>2, <2>3 DEF ExpiryCommits, Wrote
<1> QED
  BY <1>1, <1>2, <1>3, <1>4, <1>5, <1>6, <1>7 DEF Next

\* RowMatchesEvents, in its two halves.
LastStatus == status = IF announced = <<>> THEN "none" ELSE announced[Len(announced)].to
SetsStamp(e) == e.op # "create" /\ e.op # "expire" /\ Stamps(e.to)
StampHistory == stamped <=> \E i \in DOMAIN announced : SetsStamp(announced[i])

LEMMA RowParts == RowMatchesEvents <=> LastStatus /\ StampHistory
BY DEF RowMatchesEvents, LastStatus, StampHistory, SetsStamp, Changes

LEMMA RowInit == Init => LastStatus /\ StampHistory
BY DEF Init, LastStatus, StampHistory

\* A written event becomes the last one.
LEMMA WroteLast ==
  ASSUME TypeOK, NEW e, Wrote(e)
  PROVE  LastStatus'
BY Appended DEF Wrote, LastStatus

LEMMA WroteStamp ==
  ASSUME TypeOK, StampHistory, UNCHANGED kind, NEW e, Wrote(e),
         stamped' <=> (stamped \/ SetsStamp(e))
  PROVE  StampHistory'
<1> DEFINE n == Len(announced) + 1
<1>1. /\ DOMAIN announced' = DOMAIN announced \cup {n} /\ announced'[n] = e
      /\ \A i \in DOMAIN announced : announced'[i] = announced[i]
  BY Appended DEF Wrote
<1>2. (\E i \in DOMAIN announced' : SetsStamp(announced'[i]))
        <=> ((\E i \in DOMAIN announced : SetsStamp(announced[i])) \/ SetsStamp(e))
  <2> HIDE DEF n
  <2> QED
    BY <1>1, Zenon
<1>3. StampHistory' <=> (stamped' <=> \E i \in DOMAIN announced' : SetsStamp(announced'[i]))
  BY DEF StampHistory, SetsStamp, Stamps
<1> QED
  BY <1>2, <1>3 DEF StampHistory

LEMMA NoRowNoEvents ==
  ASSUME TypeOK, LastStatus, status = "none"
  PROVE  announced = <<>>
<1> SUFFICES ASSUME announced # <<>> PROVE FALSE
  OBVIOUS
<1>1. announced[Len(announced)] \in Change
  BY DEF TypeOK
<1> QED
  BY <1>1, Constants DEF LastStatus, Change

LEMMA RowNext ==
  ASSUME TypeOK, WorkInv, LastStatus, StampHistory, [Next]_vars
  PROVE  LastStatus' /\ StampHistory'
<1>1. UNCHANGED kind
  BY Writes
<1>2. CASE UNCHANGED <<status, stamped, announced>>
  BY <1>1, <1>2 DEF LastStatus, StampHistory, SetsStamp, Stamps
<1>3. CASE Create /\ status = "none"
  <2>1. announced = <<>>
    BY <1>3, NoRowNoEvents
  <2>2. ~stamped
    BY <2>1 DEF StampHistory
  <2>3. stamped' = stamped /\ announced' = <<Event("create", "none", InitialStatus, "none", 0)>>
        /\ status' = InitialStatus
    BY <1>3 DEF Create
  <2>4. DOMAIN announced' = {1} /\ Len(announced') = 1 /\ announced' # <<>>
        /\ announced'[1].op = "create" /\ announced'[1].to = InitialStatus
    BY <2>3 DEF Event
  <2> QED
    BY <2>2, <2>3, <2>4 DEF LastStatus, StampHistory, SetsStamp
<1>4. ASSUME NEW h \in Handler, WriteRow(h), call[h].op \in {"update", "assign"},
             Wrote(Event(call[h].op, call[h].seen, call[h].to, call[h].role, call[h].no))
      PROVE  LastStatus' /\ StampHistory'
  <2> DEFINE e == Event(call[h].op, call[h].seen, call[h].to, call[h].role, call[h].no)
  <2>1. SetsStamp(e) <=> Stamps(call[h].to)
    BY <1>4 DEF SetsStamp, Event
  <2>2. stamped' <=> (stamped \/ Stamps(call[h].to))
    BY <1>4 DEF WriteRow, UpdateRow
  <2> QED
    BY <1>1, <1>4, <2>1, <2>2, WroteStamp, WroteLast
<1>5. ASSUME NEW t \in Timer, UNCHANGED stamped,
             Wrote(Event("expire", timer[t].from, "expired", "system", t))
      PROVE  LastStatus' /\ StampHistory'
  <2>1. ~SetsStamp(Event("expire", timer[t].from, "expired", "system", t))
    BY DEF SetsStamp, Event
  <2> QED
    BY <1>1, <1>5, <2>1, WroteStamp, WroteLast
<1> QED
  BY <1>2, <1>3, <1>4, <1>5, Writes

\* The last event carries the row's status, and the stamp column is set exactly when a
\* handler's event announced a status that sets it - under any interleaving and failure.
THEOREM RowReproduced == Spec => []RowMatchesEvents
<1>1. Init => LastStatus /\ StampHistory
  BY RowInit
<1>2. (TypeOK /\ WorkInv) /\ (LastStatus /\ StampHistory) /\ [Next]_vars => (LastStatus /\ StampHistory)'
  BY RowNext
<1>3. LastStatus /\ StampHistory => RowMatchesEvents
  BY RowParts
<1> QED
  BY <1>1, <1>2, <1>3, Groundwork, PTL DEF Spec

\* One more event, and a legal one, leaves the history legal.
LEMMA LegalAppended ==
  ASSUME TypeOK, AnnouncedLegal, UNCHANGED kind, NEW e, Wrote(e),
         ValidateTransition(config, e.from, e.to, e.role)
  PROVE  AnnouncedLegal'
<1> DEFINE n == Len(announced) + 1
<1>1. /\ DOMAIN announced' = DOMAIN announced \cup {n} /\ announced'[n] = e
      /\ \A i \in DOMAIN announced : announced'[i] = announced[i]
  BY Appended DEF Wrote
<1>2. Changes' \subseteq Changes \cup {n}
  BY <1>1 DEF Changes
<1>3. config' = config
  BY DEF config
<1> SUFFICES ASSUME NEW i \in Changes'
             PROVE  ValidateTransition(config, announced'[i].from, announced'[i].to, announced'[i].role)
  BY <1>3 DEF AnnouncedLegal
<1>4. CASE i = n
  BY <1>1, <1>4
<1>5. CASE i \in Changes
  BY <1>1, <1>5 DEF AnnouncedLegal, Changes
<1> QED
  BY <1>2, <1>4, <1>5

LEMMA LegalNext ==
  ASSUME ExpiryAllowed, TypeOK, WorkInv, LastStatus, AnnouncedLegal, [Next]_vars
  PROVE  AnnouncedLegal'
<1>1. UNCHANGED kind
  BY Writes
<1>2. CASE UNCHANGED <<status, stamped, announced>>
  BY <1>1, <1>2 DEF AnnouncedLegal, Changes, config
<1>3. CASE Create /\ status = "none"
  <2>1. announced' = <<Event("create", "none", InitialStatus, "none", 0)>>
    BY <1>3 DEF Create
  <2>2. Changes' = {}
    BY <2>1 DEF Changes, Event
  <2> QED
    BY <2>2 DEF AnnouncedLegal
<1>4. ASSUME NEW h \in Handler, Valid(h),
             Wrote(Event(call[h].op, call[h].seen, call[h].to, call[h].role, call[h].no))
      PROVE  AnnouncedLegal'
  <2> DEFINE e == Event(call[h].op, call[h].seen, call[h].to, call[h].role, call[h].no)
  <2>1. e.from = call[h].seen /\ e.to = call[h].to /\ e.role = call[h].role
    BY DEF Event
  <2>2. ValidateTransition(config, e.from, e.to, e.role)
    BY <1>4, <2>1 DEF Valid
  <2> QED
    BY <1>1, <1>4, <2>2, LegalAppended
<1>5. ASSUME NEW t \in Timer, kind = "permit", timer[t].from \in Status,
             AutoExpires(config, timer[t].from),
             Wrote(Event("expire", timer[t].from, "expired", "system", t))
      PROVE  AnnouncedLegal'
  <2> DEFINE e == Event("expire", timer[t].from, "expired", "system", t)
  <2>1. e.from = timer[t].from /\ e.to = "expired" /\ e.role = "system"
    BY DEF Event
  <2>2. ValidateTransition(config, e.from, e.to, e.role)
    BY <1>5, <2>1 DEF ExpiryAllowed, config, TypeOK
  <2> QED
    BY <1>1, <1>5, <2>2, LegalAppended
<1> QED
  BY <1>2, <1>3, <1>4, <1>5, Writes

\* Every change ever written is a transition the configuration gives to its role - as
\* long as the permits' configuration lets the system expire what it lets expire.
THEOREM LegalHistory == ExpiryAllowed => (Spec => []AnnouncedLegal)
<1> SUFFICES ASSUME ExpiryAllowed PROVE Spec => []AnnouncedLegal
  OBVIOUS
<1>1. Init => AnnouncedLegal
  BY DEF Init, AnnouncedLegal, Changes
<1>2. (TypeOK /\ WorkInv) /\ LastStatus /\ AnnouncedLegal /\ [Next]_vars => AnnouncedLegal'
  BY LegalNext
<1>3. RowMatchesEvents => LastStatus
  BY RowParts
<1> QED
  BY <1>1, <1>2, <1>3, RowReproduced, Groundwork, PTL DEF Spec

-----------------------------------------------------------------------------
(* What is done once, and what is repeated.                                  *)

\* Before its workflow starts a case has no timers.
Blank ==
  /\ status = "none" => ~starting
  /\ status = "none" \/ starting =>
       execution = "none" /\ ~withdrawn /\ \A t \in Timer : timer[t].state = "none"

LEMMA BlankInit == Init => Blank
BY DEF Init, Blank, NoTimer

\* What is under way moves only timers that are set, or sets some in a running workflow.
LEMMA BlankKept ==
  ASSUME TypeOK, Blank, UNCHANGED <<starting, withdrawn>>, status' = "none" => status = "none",
         execution = "none" => execution' = "none",
         execution = "running" \/ \A t \in Timer : timer[t].state = "none" => timer'[t].state = "none"
  PROVE  Blank'
BY DEF Blank

LEMMA BlankNext ==
  ASSUME TypeOK, WorkInv, Blank, [Next]_vars
  PROVE  Blank'
<1> USE DEF row, workflow, timers
<1>1. CASE UNCHANGED vars
  BY <1>1, BlankKept DEF vars
<1>2. ASSUME Create PROVE Blank'
  BY <1>2, Constants DEF Create, Blank, TypeOK, InitialStatus, config
<1>3. ASSUME StartWorkflow \/ StartWorkflowFails PROVE Blank'
  BY <1>3 DEF StartWorkflow, StartWorkflowFails, Blank
<1>4. ASSUME NEW h \in Handler, HandlerStep(h) PROVE Blank'
  <2>1. CASE WriteRow(h)
    <3>1. call[h].to # "none"
      BY <2>1 DEF WriteRow, WorkInv
    <3> QED
      BY <2>1, <3>1, BlankKept DEF WriteRow, UpdateRow
  <2>2. ASSUME UpdateAccepted(h) \/ UpdateReplyLost(h) PROVE Blank'
    BY <2>2, BlankKept DEF UpdateAccepted, UpdateReplyLost, WorkflowAccepts
  <2>3. ASSUME HandlerStep(h), ~WriteRow(h), ~UpdateAccepted(h), ~UpdateReplyLost(h) PROVE Blank'
    BY <2>3, BlankKept
       DEF HandlerStep, WriteStatus, WriteAssign, ReadForUpdate, ReadForAssign, Begins, UpdateRefused,
           TemporalUnavailable, validateHTTPFails, ValidateHTTP, WriteFails
  <2> QED
    BY <1>4, <2>1, <2>2, <2>3
<1>5. ASSUME NEW t \in Timer, timer[t].state # "none", NEW s, timer' = [timer EXCEPT ![t].state = s],
             UNCHANGED <<starting, withdrawn>>, status' = "none" => status = "none",
             execution = "none" => execution' = "none"
      PROVE  Blank'
  <2>1. \A u \in Timer : timer[u].state = "none" => timer'[u].state = "none"
    BY <1>5 DEF TypeOK
  <2> QED
    BY <1>5, <2>1, BlankKept
<1>6. ASSUME NEW t \in Timer, TimerStep(t) PROVE Blank'
  <2>1. \/ TimerFires(t) \/ ExpiryCommits(t) \/ AttemptDropped(t)
        \/ AttemptFails(t) \/ ActivityReturns(t)
    BY <1>6 DEF TimerStep
  <2>2. CASE TimerFires(t) \/ ExpiryCommits(t) \/ AttemptDropped(t)
    BY <1>5, <2>2 DEF TimerFires, ExpiryCommits, AttemptDropped
  <2>3. CASE AttemptFails(t)
    <3>1. timer[t].state # "none"
      BY <2>3 DEF AttemptFails
    <3> QED
      BY <1>5, <2>3, <3>1 DEF AttemptFails
  <2>4. CASE ActivityReturns(t)
    <3>1. timer[t].state # "none"
      BY <2>4 DEF ActivityReturns
    <3> QED
      BY <1>5, <2>4, <3>1 DEF ActivityReturns
  <2> QED
    BY <2>1, <2>2, <2>3, <2>4
<1>7. ASSUME NoticeCommits PROVE Blank'
  BY <1>5, <1>7, Constants DEF NoticeCommits
<1>8. ASSUME ExecutionStep PROVE Blank'
  BY <1>8 DEF ExecutionStep, WithdrawSignal, ExecutionTimeout, Purge, Blank
<1> QED
  BY <1>1, <1>2, <1>3, <1>4, <1>6, <1>7, <1>8 DEF Next, Creation

\* The events behind which timer t, or request t, stands.
ExpiryEvents(t)  == {i \in Changes : announced[i].op = "expire" /\ announced[i].by = t}
RequestEvents(t) == {i \in Changes : announced[i].op # "expire" /\ announced[i].by = t}

LEMMA EventCounts ==
  ASSUME TypeOK, NEW t
  PROVE  /\ IsFiniteSet(ExpiryEvents(t)) /\ Cardinality(ExpiryEvents(t)) \in Nat
         /\ IsFiniteSet(RequestEvents(t)) /\ Cardinality(RequestEvents(t)) \in Nat
<1>1. DOMAIN announced = 1..Len(announced) /\ Len(announced) \in Nat
  BY DEF TypeOK
<1>2. IsFiniteSet(DOMAIN announced)
  BY <1>1, FS_Interval
<1>3. ExpiryEvents(t) \in SUBSET DOMAIN announced /\ RequestEvents(t) \in SUBSET DOMAIN announced
  BY DEF ExpiryEvents, RequestEvents, Changes
<1> QED
  BY <1>2, <1>3, FS_Subset, FS_CardinalityType

\* An event counts once, for the one that stands behind it.
LEMMA EventsAppended ==
  ASSUME TypeOK, NEW e \in Change, e.op # "create", announced' = Append(announced, e), NEW t
  PROVE  LET n == Len(announced) + 1 IN
         /\ n \notin ExpiryEvents(t) \cup RequestEvents(t)
         /\ ExpiryEvents(t)' = IF e.op = "expire" /\ e.by = t THEN ExpiryEvents(t) \cup {n}
                               ELSE ExpiryEvents(t)
         /\ RequestEvents(t)' = IF e.op # "expire" /\ e.by = t THEN RequestEvents(t) \cup {n}
                                ELSE RequestEvents(t)
<1> DEFINE n == Len(announced) + 1
<1>1. /\ DOMAIN announced' = DOMAIN announced \cup {n} /\ announced'[n] = e
      /\ \A i \in DOMAIN announced : announced'[i] = announced[i]
  BY Appended
<1>2. n \notin DOMAIN announced
  BY DEF TypeOK
<1> HIDE DEF n
<1>3. Changes' = Changes \cup {n} /\ Changes \subseteq DOMAIN announced
  BY <1>1, <1>2 DEF Changes
<1> QED
  BY <1>1, <1>2, <1>3 DEF ExpiryEvents, RequestEvents, n

\* A timer's activity has committed once for each failed attempt, and once more if it has
\* now, or is over.
Spent(t) == IF timer[t].state \in {"committed", "exhausted", "done"} THEN 1 ELSE 0

NoticeBudget == notices <= tries[Deadline] + Spent(Deadline)
ExpiryBudget(t) == Cardinality(ExpiryEvents(t)) <= tries[t] + Spent(t)

\* A request's number is its own; nothing has been done under it until it is accepted.
Numbered(h) ==
  call[h].pc # "idle" =>
    /\ call[h].no \in 1..calls
    /\ RequestEvents(call[h].no) = {}
    /\ call[h].pc = "read" => timer[call[h].no].state = "none"
    /\ \A g \in Handler \ {h} : call[g].pc = "idle" \/ call[g].no # call[h].no

\* Nothing has been done under numbers not given out, and each has written once at most.
Unused == /\ calls <= MaxCalls
          /\ \A n \in Timer : n > calls => timer[n].state = "none" /\ RequestEvents(n) = {}
Once(t) == Cardinality(RequestEvents(t)) <= 1

NumberInv == Unused /\ (\A h \in Handler : Numbered(h)) /\ (\A t \in Timer : Once(t))
BudgetInv == NoticeBudget /\ \A t \in Timer : ExpiryBudget(t)
RepeatInv == NumberInv /\ BudgetInv

LEMMA RepeatInit == Init => RepeatInv
<1> SUFFICES ASSUME Init PROVE RepeatInv
  OBVIOUS
<1>1. Changes = {}
  BY DEF Init, Changes
<1>2. \A t : ExpiryEvents(t) = {} /\ RequestEvents(t) = {}
  BY <1>1 DEF ExpiryEvents, RequestEvents
<1>3. \A t : Cardinality(ExpiryEvents(t)) = 0 /\ Cardinality(RequestEvents(t)) = 0
  BY <1>2, FS_EmptySet
<1>4. \A t \in Timer : tries[t] = 0 /\ timer[t].state = "none" /\ Spent(t) = 0
  BY DEF Init, NoTimer, Spent
<1>5. NumberInv
  BY <1>2, <1>3, <1>4, Constants DEF Init, NumberInv, Unused, Numbered, Once, NoCall
<1>6. BudgetInv
  BY <1>3, <1>4, Constants DEF Init, BudgetInv, NoticeBudget, ExpiryBudget
<1> QED
  BY <1>5, <1>6 DEF RepeatInv

\* What every step must do to the accounts.
LEMMA RepeatKept ==
  ASSUME TypeOK, RepeatInv, UNCHANGED <<notices, announced, tries>>,
         \A t \in Timer : Spent(t)' = Spent(t), NumberInv'
  PROVE  RepeatInv'
<1>1. \A t : ExpiryEvents(t)' = ExpiryEvents(t)
  BY DEF ExpiryEvents, Changes
<1>2. \A t \in Timer : ExpiryBudget(t)'
  BY <1>1 DEF RepeatInv, BudgetInv, ExpiryBudget
<1>3. NoticeBudget'
  BY Constants DEF RepeatInv, BudgetInv, NoticeBudget
<1> QED
  BY <1>2, <1>3 DEF RepeatInv, BudgetInv

\* Nothing happens to calls, and no timer is set that was not.
LEMMA NumbersKept ==
  ASSUME TypeOK, NumberInv, UNCHANGED <<call, calls>>,
         \A t \in Timer : RequestEvents(t)' = RequestEvents(t),
         \A t \in Timer : timer[t].state = "none" => timer'[t].state = "none"
  PROVE  NumberInv'
<1>1. \A h \in Handler : call[h].no \in Timer
  BY DEF TypeOK, Call
<1>2. \A h \in Handler : Numbered(h)'
  BY <1>1 DEF NumberInv, Numbered
<1>3. Unused' /\ \A t \in Timer : Once(t)'
  BY DEF NumberInv, Unused, Once
<1> QED
  BY <1>2, <1>3 DEF NumberInv

\* A request gets a number under which nothing has been done.
LEMMA NumbersBegin ==
  ASSUME TypeOK, NumberInv, NEW h \in Handler, NEW to, NEW role, NEW op, Begins(h, to, role, op)
  PROVE  NumberInv'
<1>1. /\ calls' = calls + 1 /\ calls \in Nat /\ UNCHANGED <<timer, announced>>
      /\ calls < MaxCalls /\ call[h].pc = "idle"
  BY DEF Begins, TypeOK, row, timers
<1>2. calls + 1 \in Timer
  BY <1>1, CallNumber
<1>3. /\ call'[h].pc = "read" /\ call'[h].no = calls + 1
      /\ \A g \in Handler \ {h} : call'[g] = call[g]
  BY DEF Begins, TypeOK
<1>4. \A n : RequestEvents(n)' = RequestEvents(n)
  BY <1>1 DEF RequestEvents, Changes
<1>5. Unused' /\ \A t \in Timer : Once(t)'
  <2>1. MaxCalls \in Nat /\ \A n \in Timer : n \in Nat
    BY Constants DEF Timer
  <2>2. calls' <= MaxCalls
    BY <1>1, <2>1
  <2>3. ASSUME NEW n \in Timer, n > calls' PROVE n > calls
    BY <1>1, <2>1, <2>3
  <2> QED
    BY <1>1, <1>4, <2>2, <2>3 DEF NumberInv, Unused, Once
<1>6. ASSUME NEW g \in Handler \ {h} PROVE Numbered(g)'
  <2>1. Numbered(g)
    BY DEF NumberInv
  <2>2. call[g].pc # "idle" => call[g].no # calls + 1 /\ call[g].no \in 1..(calls + 1)
    BY <1>1, <2>1 DEF Numbered
  <2> QED
    BY <1>1, <1>3, <1>4, <2>1, <2>2 DEF Numbered
<1>7. Numbered(h)'
  <2>1. calls + 1 > calls /\ calls + 1 \in 1..(calls + 1)
    BY <1>1
  <2>2. timer[calls + 1].state = "none" /\ RequestEvents(calls + 1) = {}
    BY <1>2, <2>1 DEF NumberInv, Unused
  <2>3. \A g \in Handler \ {h} : call[g].pc = "idle" \/ call[g].no # calls + 1
    <3> SUFFICES ASSUME NEW g \in Handler \ {h}, call[g].pc # "idle" PROVE call[g].no # calls + 1
      OBVIOUS
    <3>1. call[g].no \in 1..calls
      BY DEF NumberInv, Numbered
    <3> QED
      BY <1>1, <3>1
  <2> QED
    BY <1>1, <1>3, <1>4, <2>1, <2>2, <2>3 DEF Numbered
<1> QED
  BY <1>5, <1>6, <1>7 DEF NumberInv

\* A request goes on, and may set the timer of its number; or it is answered.
LEMMA NumbersMove ==
  ASSUME TypeOK, NumberInv, NEW h \in Handler, call[h].pc # "idle",
         Accepted(h) \/ Answered(h), UNCHANGED <<calls, announced>>,
         \A t \in Timer : t # call[h].no => timer'[t] = timer[t]
  PROVE  NumberInv'
<1>1. Numbered(h) /\ call[h].no \in 1..calls /\ call[h].no \in Timer
  BY DEF NumberInv, Numbered, TypeOK, Call
<1>2. /\ call'[h].pc = "idle" \/ (call'[h].pc = "accepted" /\ call'[h].no = call[h].no)
      /\ \A g \in Handler \ {h} : call'[g] = call[g]
  BY DEF Accepted, Answered, TypeOK, Call, NoCall
<1>3. \A n : RequestEvents(n)' = RequestEvents(n)
  BY DEF RequestEvents, Changes
<1>4. Unused' /\ \A t \in Timer : Once(t)'
  <2>1. \A n \in Timer : n > calls => n # call[h].no
    BY <1>1 DEF TypeOK
  <2> QED
    BY <1>3, <2>1 DEF NumberInv, Unused, Once
<1>5. ASSUME NEW g \in Handler \ {h} PROVE Numbered(g)'
  <2>1. Numbered(g) /\ call[g].no \in Timer
    BY DEF NumberInv, TypeOK, Call
  <2>2. call[g].pc # "idle" => call[g].no # call[h].no
    BY <1>1 DEF Numbered
  <2> QED
    BY <1>2, <1>3, <2>1, <2>2 DEF Numbered
<1>6. Numbered(h)'
  BY <1>1, <1>2, <1>3 DEF Numbered
<1> QED
  BY <1>4, <1>5, <1>6 DEF NumberInv

\* A request writes its one event, and its number is not used again.
LEMMA RepeatWrite ==
  ASSUME TypeOK, WorkInv, RepeatInv, NEW h \in Handler, WriteRow(h)
  PROVE  RepeatInv'
<1> DEFINE e == Event(call[h].op, call[h].seen, call[h].to, call[h].role, call[h].no)
           n == Len(announced) + 1
<1>0. PICK k \in Timer : k = call[h].no
  BY DEF TypeOK, Call
<1>1. e \in Change /\ e.op \in {"update", "assign"} /\ e.by = k /\ announced' = Append(announced, e)
  <2>1. call[h].op \in {"update", "assign"} /\ call[h].to \in Status /\ call[h].seen \in Status
        /\ call[h].role \in Role \cup {"none"} /\ call[h].no \in Timer
    BY DEF WorkInv, TypeOK, Call, WriteRow, UpdateRow
  <2> QED
    BY <1>0, <2>1 DEF Event, Change, WriteRow
<1>2. Numbered(h) /\ k \in 1..calls /\ RequestEvents(k) = {}
  BY <1>0 DEF RepeatInv, NumberInv, Numbered, WriteRow
<1>3. UNCHANGED <<notices, timer, tries, calls>> /\ call' = [call EXCEPT ![h] = NoCall]
  BY DEF WriteRow, Answered, timers
<1> HIDE DEF e
<1>4. /\ \A t : ExpiryEvents(t)' = ExpiryEvents(t)
      /\ \A t : t # k => RequestEvents(t)' = RequestEvents(t)
      /\ RequestEvents(k)' = {n}
  <2>1. e.op # "create" /\ e.op # "expire"
    BY <1>1
  <2>2. ASSUME NEW t
        PROVE  /\ ExpiryEvents(t)' = ExpiryEvents(t)
               /\ RequestEvents(t)' = IF e.by = t THEN RequestEvents(t) \cup {n}
                                      ELSE RequestEvents(t)
    BY <1>1, <2>1, EventsAppended
  <2> QED
    BY <1>1, <1>2, <2>2
<1>5. /\ call'[h].pc = "idle" /\ \A g \in Handler \ {h} : call'[g] = call[g]
      /\ \A g \in Handler \ {h} : call[g].pc = "idle" \/ call[g].no # k
  BY <1>0, <1>2, <1>3 DEF TypeOK, NoCall, Numbered, WriteRow
<1>6. \A g \in Handler : Numbered(g)'
  BY <1>3, <1>4, <1>5 DEF RepeatInv, NumberInv, Numbered
<1>7. Unused'
  <2>1. \A m \in Timer : m > calls => m # k
    BY <1>2 DEF TypeOK
  <2> QED
    BY <1>3, <1>4, <2>1 DEF RepeatInv, NumberInv, Unused
<1>8. ASSUME NEW t \in Timer PROVE Once(t)'
  <2>1. CASE t = k
    <3>1. Cardinality(RequestEvents(k)') = 1
      BY <1>4, FS_Singleton
    <3> QED
      BY <2>1, <3>1 DEF Once
  <2>2. CASE t # k
    BY <1>4, <2>2 DEF RepeatInv, NumberInv, Once
  <2> QED
    BY <2>1, <2>2
<1>9. BudgetInv'
  BY <1>3, <1>4 DEF RepeatInv, BudgetInv, NoticeBudget, ExpiryBudget, Spent
<1> QED
  BY <1>6, <1>7, <1>8, <1>9 DEF RepeatInv, NumberInv

\* A timer that is set moves on: the budgets of the others stay.
LEMMA RepeatTimer ==
  ASSUME TypeOK, RepeatInv, NEW t \in Timer, timer[t].state # "none",
         NEW s, s # "none", timer' = [timer EXCEPT ![t].state = s],
         UNCHANGED <<call, calls>>,
         \A n : RequestEvents(n)' = RequestEvents(n),
         \A u \in Timer \ {t} : ExpiryEvents(u)' = ExpiryEvents(u) /\ tries'[u] = tries[u],
         ExpiryBudget(t)', t # Deadline => UNCHANGED notices, t = Deadline => NoticeBudget'
  PROVE  RepeatInv'
<1>1. \A u \in Timer : timer[u].state = "none" => timer'[u].state = "none"
  BY DEF TypeOK
<1>2. NumberInv'
  BY <1>1, NumbersKept DEF RepeatInv
<1>3. \A u \in Timer \ {t} : timer'[u] = timer[u]
  BY DEF TypeOK
<1>4. \A u \in Timer \ {t} : ExpiryBudget(u)'
  BY <1>3 DEF RepeatInv, BudgetInv, ExpiryBudget, Spent
<1>5. t # Deadline => NoticeBudget'
  BY <1>3, Constants DEF RepeatInv, BudgetInv, NoticeBudget, Spent
<1> QED
  BY <1>2, <1>4, <1>5 DEF RepeatInv, BudgetInv

LEMMA RepeatTimers ==
  ASSUME TypeOK, WorkInv, RepeatInv, NEW t \in Timer, TimerStep(t) \/ (t = Deadline /\ NoticeCommits)
  PROVE  RepeatInv'
<1>1. /\ timer \in [Timer -> TimerRecord] /\ tries[t] \in Nat /\ notices \in Nat
      /\ ExpiryBudget(t) /\ NoticeBudget /\ Deadline \in Timer
      /\ Cardinality(ExpiryEvents(t)) \in Nat
  BY EventCounts, Constants DEF TypeOK, RepeatInv, BudgetInv
<1>2. ASSUME UNCHANGED announced
      PROVE  \A n : ExpiryEvents(n)' = ExpiryEvents(n) /\ RequestEvents(n)' = RequestEvents(n)
  BY <1>2 DEF ExpiryEvents, RequestEvents, Changes
<1>3. ASSUME NEW s \in TimerState \ {"none"}, timer' = [timer EXCEPT ![t].state = s]
      PROVE  Spent(t)' = IF s \in {"committed", "exhausted", "done"} THEN 1 ELSE 0
  <2>1. timer'[t].state = s
    BY <1>1, <1>3 DEF TimerRecord
  <2> QED
    BY <2>1 DEF Spent
<1> USE DEF row, workflow
<1>4. ASSUME NEW s \in TimerState \ {"none"}, timer' = [timer EXCEPT ![t].state = s],
             timer[t].state # "none", UNCHANGED <<call, calls, announced, notices, tries>>,
             timer[t].state \in {"sleeping", "scheduled"} \/ s = "done"
      PROVE  RepeatInv'
  <2>1. Spent(t)' >= Spent(t) /\ Spent(t)' \in Nat /\ Spent(t) \in Nat
    BY <1>3, <1>4 DEF Spent
  <2>2. ExpiryBudget(t)'
    BY <1>1, <1>2, <1>4, <2>1 DEF ExpiryBudget
  <2>3. t = Deadline => NoticeBudget'
    BY <1>1, <1>4, <2>1 DEF NoticeBudget
  <2> QED
    BY <1>2, <1>4, <2>2, <2>3, RepeatTimer
<1>5. CASE TimerFires(t) \/ AttemptDropped(t) \/ ActivityReturns(t)
  <2>1. CASE TimerFires(t)
    BY <1>4, <2>1 DEF TimerFires, TimerState
  <2>2. CASE AttemptDropped(t)
    BY <1>4, <2>2 DEF AttemptDropped, TimerState
  <2>3. CASE ActivityReturns(t)
    <3>1. timer[t].state # "none"
      BY <2>3 DEF ActivityReturns
    <3> QED
      BY <1>4, <2>3, <3>1 DEF ActivityReturns, TimerState
  <2> QED
    BY <1>5, <2>1, <2>2, <2>3
<1>6. CASE ExpiryCommits(t)
  <2> DEFINE e == Event("expire", timer[t].from, "expired", "system", t)
             n == Len(announced) + 1
  <2>1. e \in Change /\ e.op = "expire" /\ e.by = t
    BY <1>1, Constants DEF Event, Change, TimerRecord
  <2>2. announced' = Append(announced, e)
    BY <1>6 DEF ExpiryCommits
  <2> HIDE DEF e
  <2>3. e.op # "create"
    BY <2>1
  <2>4. ASSUME NEW u
        PROVE  /\ RequestEvents(u)' = RequestEvents(u)
               /\ u # t => ExpiryEvents(u)' = ExpiryEvents(u)
    BY <2>1, <2>2, <2>3, EventsAppended
  <2>5. ExpiryEvents(t)' = ExpiryEvents(t) \cup {n}
    BY <2>1, <2>2, <2>3, EventsAppended
  <2>6. Cardinality(ExpiryEvents(t)') <= Cardinality(ExpiryEvents(t)) + 1
    <3>1. IsFiniteSet(ExpiryEvents(t))
      BY EventCounts
    <3> HIDE DEF n
    <3>2. Cardinality(ExpiryEvents(t) \cup {n}) \in {Cardinality(ExpiryEvents(t)),
                                                    Cardinality(ExpiryEvents(t)) + 1}
      BY <3>1, FS_AddElement, Zenon
    <3>3. Cardinality(ExpiryEvents(t) \cup {n}) <= Cardinality(ExpiryEvents(t)) + 1
      BY <1>1, <3>2
    <3> QED
      BY <2>5, <3>3
  <2>7. /\ timer[t].state = "scheduled" /\ timer' = [timer EXCEPT ![t].state = "committed"]
        /\ t # Deadline /\ UNCHANGED <<call, calls, notices, tries>>
    BY <1>6 DEF ExpiryCommits
  <2>8. Spent(t) = 0 /\ Spent(t)' = 1
    BY <1>3, <2>7 DEF Spent, TimerState
  <2>9. ExpiryBudget(t)'
    <3>1. Cardinality(ExpiryEvents(t)') \in Nat
      <4>1. Cardinality(ExpiryEvents(t) \cup {n}) \in Nat
        BY EventCounts, FS_AddElement, FS_CardinalityType
      <4> QED
        BY <2>5, <4>1
    <3> QED
      BY <1>1, <2>6, <2>7, <2>8, <3>1 DEF ExpiryBudget
  <2> QED
    BY <2>4, <2>7, <2>9, RepeatTimer
<1>7. CASE t = Deadline /\ NoticeCommits
  <2>1. /\ timer[t].state = "scheduled" /\ timer' = [timer EXCEPT ![t].state = "committed"]
        /\ notices' = notices + 1 /\ UNCHANGED <<call, calls, announced, tries>>
    BY <1>7 DEF NoticeCommits
  <2>2. Spent(t) = 0 /\ Spent(t)' = 1
    BY <1>3, <2>1 DEF Spent, TimerState
  <2>3. ExpiryBudget(t)' /\ NoticeBudget'
    BY <1>1, <1>2, <1>7, <2>1, <2>2 DEF ExpiryBudget, NoticeBudget
  <2> QED
    BY <1>2, <1>7, <2>1, <2>3, RepeatTimer
<1>8. CASE AttemptFails(t)
  <2>1. PICK s \in {"scheduled", "exhausted"} : timer' = [timer EXCEPT ![t].state = s]
    BY <1>8 DEF AttemptFails
  <2>2. /\ timer[t].state # "none" /\ tries'[t] = tries[t] + 1
        /\ \A u \in Timer \ {t} : tries'[u] = tries[u]
        /\ UNCHANGED <<call, calls, announced, notices>>
    BY <1>8 DEF AttemptFails, TypeOK
  <2>3. Spent(t) <= 1 /\ Spent(t)' >= 0 /\ Spent(t) \in Nat /\ Spent(t)' \in Nat
    BY DEF Spent
  <2>4. ExpiryBudget(t)' /\ (t = Deadline => NoticeBudget')
    BY <1>1, <1>2, <2>2, <2>3 DEF ExpiryBudget, NoticeBudget
  <2> QED
    BY <1>2, <2>1, <2>2, <2>4, RepeatTimer
<1> QED
  BY <1>5, <1>6, <1>7, <1>8 DEF TimerStep

\* Each step of a request or of the case keeps the accounts.
LEMMA RepeatNext ==
  ASSUME TypeOK, WorkInv, Blank, LastStatus, RepeatInv, [Next]_vars
  PROVE  RepeatInv'
<1> USE DEF row, workflow, timers
<1>1. ASSUME UNCHANGED <<announced, notices, call, calls, timer, tries>> PROVE RepeatInv'
  <2>1. \A t \in Timer : RequestEvents(t)' = RequestEvents(t)
    BY <1>1 DEF RequestEvents, Changes
  <2>2. NumberInv'
    BY <1>1, <2>1, NumbersKept DEF RepeatInv
  <2> QED
    BY <1>1, <2>2, RepeatKept DEF Spent
<1>2. CASE UNCHANGED vars
  BY <1>1, <1>2 DEF vars
<1>3. CASE Create
  <2>1. announced = <<>> /\ announced' = <<Event("create", "none", InitialStatus, "none", 0)>>
    BY <1>3, NoRowNoEvents DEF Create
  <2>2. Changes = {} /\ Changes' = {}
    BY <2>1 DEF Changes, Event
  <2>3. \A t : /\ RequestEvents(t)' = RequestEvents(t)
               /\ ExpiryEvents(t)' = ExpiryEvents(t)
    BY <2>2 DEF RequestEvents, ExpiryEvents
  <2>4. UNCHANGED <<notices, call, calls, timer, tries>>
    BY <1>3 DEF Create
  <2>5. NumberInv'
    BY <2>3, <2>4, NumbersKept DEF RepeatInv
  <2>6. BudgetInv'
    BY <2>3, <2>4 DEF RepeatInv, BudgetInv, NoticeBudget, ExpiryBudget, Spent
  <2> QED
    BY <2>5, <2>6 DEF RepeatInv
<1>4. CASE StartWorkflow
  <2>1. /\ UNCHANGED <<announced, notices, call, calls, tries>> /\ timer[Deadline].state = "none"
        /\ \A t \in Timer \ {Deadline} : timer'[t] = timer[t]
        /\ timer'[Deadline].state \in {"none", "sleeping"}
    BY <1>4, Constants DEF StartWorkflow, Blank, TypeOK
  <2>2. \A t \in Timer : Spent(t)' = Spent(t)
    BY <2>1 DEF Spent
  <2>3. \A t : RequestEvents(t)' = RequestEvents(t)
    BY <2>1 DEF RequestEvents, Changes
  <2>4. NumberInv'
    <3>1. \A n \in Timer : n > calls => n # Deadline
      BY DEF TypeOK, Deadline
    <3>2. Unused' /\ \A t \in Timer : Once(t)'
      BY <2>1, <2>3, <3>1 DEF RepeatInv, NumberInv, Unused, Once
    <3>3. ASSUME NEW h \in Handler PROVE Numbered(h)'
      <4>1. call[h].pc # "idle" => call[h].no \in Timer \ {Deadline}
        BY DEF RepeatInv, NumberInv, Numbered, TypeOK, Call, Deadline
      <4> QED
        BY <2>1, <2>3, <4>1 DEF RepeatInv, NumberInv, Numbered
    <3> QED
      BY <3>2, <3>3 DEF NumberInv
  <2> QED
    BY <2>1, <2>2, <2>4, RepeatKept
<1>5. CASE StartWorkflowFails
  BY <1>1, <1>5 DEF StartWorkflowFails
<1>6. ASSUME NEW h \in Handler, NEW to, NEW role, NEW op, Begins(h, to, role, op) PROVE RepeatInv'
  BY <1>6, NumbersBegin, RepeatKept DEF Begins, RepeatInv, Spent
<1>7. ASSUME NEW h \in Handler, WorkflowAccepts(h), Accepted(h) \/ Answered(h),
             UNCHANGED <<announced, notices, calls, tries>>
      PROVE  RepeatInv'
  <2>1. /\ \A t \in Timer : t # call[h].no => timer'[t] = timer[t]
        /\ timer[call[h].no].state = "none" /\ timer'[call[h].no].state \in {"none", "sleeping"}
        /\ call[h].pc # "idle"
    <3>1. call[h].no \in Timer /\ timer[call[h].no].state = "none"
      BY <1>7 DEF WorkflowAccepts, RepeatInv, NumberInv, Numbered, TypeOK, Call
    <3> QED
      BY <1>7, <3>1 DEF WorkflowAccepts, TypeOK
  <2>2. \A t \in Timer : Spent(t)' = Spent(t)
    BY <2>1 DEF Spent
  <2>3. NumberInv'
    BY <1>7, <2>1, NumbersMove DEF RepeatInv
  <2> QED
    BY <1>7, <2>2, <2>3, RepeatKept
<1>8. ASSUME NEW h \in Handler, call[h].pc # "idle", Accepted(h) \/ Answered(h),
             UNCHANGED <<announced, notices, calls, timer, tries>>
      PROVE  RepeatInv'
  <2>1. NumberInv'
    BY <1>8, NumbersMove DEF RepeatInv
  <2> QED
    BY <1>8, <2>1, RepeatKept DEF Spent
<1>9. ASSUME NEW h \in Handler, HandlerStep(h) PROVE RepeatInv'
  <2>1. CASE \/ \E to \in StatusesOf(kind) \cap Requested, role \in Role : ReadForUpdate(h, to, role)
             \/ \E role \in Role : ReadForAssign(h, role)
    BY <1>6, <2>1 DEF ReadForUpdate, ReadForAssign
  <2>2. CASE UpdateAccepted(h) \/ UpdateReplyLost(h)
    BY <1>7, <2>2 DEF UpdateAccepted, UpdateReplyLost
  <2>3. CASE \/ UpdateRefused(h) \/ TemporalUnavailable(h) \/ validateHTTPFails(h)
             \/ ValidateHTTP(h) \/ WriteFails(h)
    BY <1>8, <2>3 DEF UpdateRefused, TemporalUnavailable, validateHTTPFails, ValidateHTTP, WriteFails
  <2>4. CASE WriteRow(h)
    BY <2>4, RepeatWrite
  <2> QED
    BY <1>9, <2>1, <2>2, <2>3, <2>4 DEF HandlerStep, WriteStatus, WriteAssign
<1>10. ASSUME ExecutionStep PROVE RepeatInv'
  BY <1>1, <1>10 DEF ExecutionStep, WithdrawSignal, ExecutionTimeout, Purge
<1> QED
  BY <1>2, <1>3, <1>4, <1>5, <1>9, <1>10, RepeatTimers, Constants DEF Next, Creation

\* Whatever fails and is tried again, a request writes once at most, and an activity once
\* more than attempts of it failed.
THEOREM RepeatsCaused == Spec => []RepeatsNeedRetries
<1> DEFINE I == Blank /\ LastStatus /\ StampHistory /\ RepeatInv
<1>1. Init => I
  BY BlankInit, RowInit, RepeatInit
<1>2. (TypeOK /\ WorkInv) /\ I /\ [Next]_vars => I'
  BY BlankNext, RowNext, RepeatNext
<1>3. (TypeOK /\ WorkInv) /\ I => RepeatsNeedRetries
  <2> SUFFICES ASSUME TypeOK, RepeatInv PROVE RepeatsNeedRetries
    OBVIOUS
  <2>1. \A t \in Timer : Spent(t) <= 1 /\ Spent(t) \in Nat /\ tries[t] \in Nat
    BY DEF Spent, TypeOK
  <2>2. notices <= 1 + tries[Deadline]
    BY <2>1, Constants DEF RepeatInv, BudgetInv, NoticeBudget, TypeOK
  <2>3. ASSUME NEW t \in Timer
        PROVE  /\ Cardinality(ExpiryEvents(t)) <= 1 + tries[t]
               /\ Cardinality(RequestEvents(t)) <= 1
    BY <2>1, EventCounts DEF RepeatInv, BudgetInv, NumberInv, ExpiryBudget, Once
  <2> QED
    BY <2>2, <2>3 DEF RepeatsNeedRetries, ExpiryEvents, RequestEvents
<1> HIDE DEF I
<1> QED
  BY <1>1, <1>2, <1>3, Groundwork, PTL DEF Spec

-----------------------------------------------------------------------------
(* One operation at a time.                                                  *)

Undisturbed == ~contended /\ faults = 0

Idle(h)   == call[h].pc = "idle"
Active(t) == timer[t].state \in {"scheduled", "committed", "exhausted"}
Expiry    == Timer \ {Deadline}

\* Busy is one of: the creating handler, one other handler, one activity.
Exclusive ==
  /\ \A h, g \in Handler : Idle(h) \/ Idle(g) \/ h = g
  /\ \A t, u \in Timer : Active(t) /\ Active(u) => t = u
  /\ \A h \in Handler, t \in Timer : Idle(h) \/ ~Active(t)
  /\ starting => (\A h \in Handler : Idle(h)) /\ \A t \in Timer : ~Active(t)
  /\ \A t \in Timer : timer[t].state # "exhausted"

\* Whoever is at work knows the status the row has; the execution exists once started.
Current ==
  /\ \A h \in Handler : ~Idle(h) => call[h].seen = status
  /\ \A t \in Expiry : timer[t].state = "scheduled" => timer[t].from = status
  /\ \A t \in Expiry : timer[t].state = "committed" => status = "expired"
  /\ starting => status = InitialStatus
  /\ status # "none" /\ ~starting => execution # "none"
  /\ withdrawn => execution \in {"closed", "purged"}

\* The status the workflow knows of: the row's, or the one it has accepted.
Heading(s) ==
  \/ \E h \in Handler : call[h].pc = "accepted" /\ s = call[h].to
  \/ (\A h \in Handler : call[h].pc # "accepted") /\ s = status /\ s # "none" /\ ~starting

Expires(s) == kind = "permit" /\ AutoExpires(config, s)
Ending     == \E t \in Expiry : timer[t].state = "committed"

\* Unless it was withdrawn, the workflow runs until that status is terminal, and sleeps if
\* it expires; no timer is left from an earlier one.
Agrees(s) == ~withdrawn /\ ~Ending => (execution = "running" <=> ~IsTerminal(config, s))
Sleeps(s) ==
  ~withdrawn /\ Expires(s) /\ (\A t \in Expiry : ~Active(t)) =>
    \E t \in Expiry : timer[t].state = "sleeping" /\ timer[t].from = s
NoneLeft(s) ==
  execution = "running" /\ ~Ending =>
    \A t \in Expiry : timer[t].state = "sleeping" => timer[t].from = s

InStep == \A s \in Status : Heading(s) => Agrees(s) /\ Sleeps(s) /\ NoneLeft(s)

Serial == Exclusive /\ Current /\ InStep
SerialInv == Undisturbed => Serial

\* What is known of every state.
Known == TypeOK /\ WorkInv /\ Blank /\ RepeatInv

LEMMA KnownTypes ==
  ASSUME Known
  PROVE  /\ call \in [Handler -> Call] /\ timer \in [Timer -> TimerRecord]
         /\ Expiry \subseteq Timer /\ Deadline \in Timer /\ kind \in Kind
         /\ status \in Status \cup {"none"}
         /\ TypeOK /\ WorkInv /\ Blank /\ RepeatInv
BY Constants DEF Known, TypeOK, Expiry

\* What OrderlyEnds says of the case's configuration.
LEMMA Orderly ==
  ASSUME OrderlyEnds, Known
  PROVE  /\ ~IsTerminal(config, InitialStatus) /\ ~Expires(InitialStatus)
         /\ kind = "permit" => IsTerminal(config, "expired")
         /\ \A s \in Status : Expires(s) => ~IsTerminal(config, s)
<1>1. kind \in Kind
  BY KnownTypes
<1> QED
  BY <1>1 DEF OrderlyEnds, config, InitialStatus, Expires

\* What is accepted after the end is an end.
LEMMA EndsStay ==
  ASSUME OrderlyEnds, Known, NEW h \in Handler, Valid(h),
         IsTerminal(config, call[h].seen) \/ Expires(call[h].seen)
  PROVE  IsTerminal(config, call[h].to)
<1>1. kind \in Kind
  BY KnownTypes
<1>2. PICK i \in DOMAIN config.transitions :
        config.transitions[i].from = call[h].seen /\ config.transitions[i].to = call[h].to
  BY DEF Valid, ValidateTransition
<1> QED
  BY <1>1, <1>2 DEF OrderlyEnds, config, Expires

\* At rest, and when it has read only, a handler does not change where the case is heading.
LEMMA RestHeading ==
  ASSUME Known, Serial, \A h \in Handler : call[h].pc # "accepted", ~starting, status # "none"
  PROVE  /\ status \in Status /\ Heading(status)
         /\ Agrees(status) /\ Sleeps(status) /\ NoneLeft(status)
         /\ \A s : Heading(s) => s = status
<1>1. status \in Status
  BY KnownTypes
<1>2. Heading(status)
  BY DEF Heading
<1> QED
  BY <1>1, <1>2 DEF Heading, Serial, InStep

\* Steps that leave workflow and timers alone.
LEMMA InStepKept ==
  ASSUME InStep, UNCHANGED <<kind, withdrawn>>,
         execution' = execution \/ (execution # "running" /\ execution' # "running"),
         \A t \in Expiry : timer'[t] = timer[t],
         \A s \in Status : Heading(s)' => Heading(s)
  PROVE  InStep'
<1> SUFFICES ASSUME NEW s \in Status, Heading(s)'
             PROVE  Agrees(s)' /\ Sleeps(s)' /\ NoneLeft(s)'
  BY DEF InStep
<1>1. Agrees(s) /\ Sleeps(s) /\ NoneLeft(s)
  BY DEF InStep
<1>2. config' = config
  BY DEF config
<1>3. (Ending' <=> Ending) /\ (Expires(s)' <=> Expires(s))
  BY <1>2 DEF Ending, Expires
<1>4. Agrees(s)'
  BY <1>1, <1>2, <1>3 DEF Agrees
<1>5. NoneLeft(s)'
  BY <1>1, <1>3 DEF NoneLeft
<1>6. Sleeps(s)'
  BY <1>1, <1>3 DEF Sleeps, Active
<1> QED
  BY <1>4, <1>5, <1>6

LEMMA SerialInit == Init => SerialInv
BY DEF Init, SerialInv, Serial, Exclusive, Current, InStep, Idle, Active, Heading, NoCall,
       NoTimer, Expiry

LEMMA SerialCreate ==
  ASSUME Known, Serial, Create
  PROVE  Serial'
<1>1. /\ status = "none" /\ ~starting /\ execution = "none" /\ ~withdrawn
      /\ \A t \in Timer : timer[t].state = "none"
  BY DEF Create, Known, Blank
<1>2. \A h \in Handler : Idle(h)
  BY <1>1 DEF Known, WorkInv, Idle
<1>3. /\ UNCHANGED <<kind, execution, withdrawn, timer, call>>
      /\ starting' = TRUE /\ status' = InitialStatus
  BY DEF Create, timers
<1>4. Exclusive'
  BY <1>1, <1>2, <1>3 DEF Exclusive, Idle, Active
<1>5. Current'
  BY <1>1, <1>2, <1>3 DEF Current, Idle, Expiry, InitialStatus, config
<1>6. InStep'
  BY <1>2, <1>3 DEF InStep, Heading, Idle
<1> QED
  BY <1>4, <1>5, <1>6 DEF Serial

LEMMA SerialStart ==
  ASSUME OrderlyEnds, Known, Serial, StartWorkflow
  PROVE  Serial'
<1>1. /\ starting /\ status = InitialStatus /\ ~withdrawn /\ \A h \in Handler : Idle(h)
      /\ \A t \in Timer : timer[t].state = "none"
  BY DEF StartWorkflow, Serial, Exclusive, Current, Known, Blank
<1>2. /\ UNCHANGED <<kind, status, withdrawn, call>>
      /\ ~starting' /\ execution' = "running"
      /\ \A t \in Expiry : timer'[t] = timer[t]
      /\ \A t \in Timer : timer'[t].state \in {"none", "sleeping"}
  <2>1. timer \in [Timer -> TimerRecord]
    BY KnownTypes
  <2> QED
    BY <1>1, <2>1 DEF StartWorkflow, row, Expiry
<1>3. Exclusive'
  BY <1>1, <1>2 DEF Exclusive, Idle, Active
<1>4. Current'
  BY <1>1, <1>2 DEF Current, Idle, Expiry
<1>5. ASSUME NEW s \in Status, Heading(s)' PROVE Agrees(s)' /\ Sleeps(s)' /\ NoneLeft(s)'
  <2>1. s = InitialStatus /\ config' = config
    BY <1>1, <1>2, <1>5 DEF Heading, Idle, config
  <2>2. ~IsTerminal(config, s) /\ ~Expires(s)'
    BY <1>2, <2>1, Orderly DEF Expires
  <2>3. \A t \in Expiry : timer'[t].state = "none"
    BY <1>1, <1>2 DEF Expiry
  <2> QED
    BY <1>2, <2>1, <2>2, <2>3 DEF Agrees, Sleeps, NoneLeft
<1> QED
  BY <1>3, <1>4, <1>5 DEF Serial, InStep

\* A handler that begins undisturbed is the only one at work.
LEMMA SerialBegins ==
  ASSUME Known, Serial, NEW h \in Handler, NEW to, NEW role, NEW op, Begins(h, to, role, op),
         ~contended'
  PROVE  Serial'
<1>1. ~starting /\ (\A g \in Handler : Idle(g)) /\ (\A t \in Timer : ~Active(t))
  BY DEF Begins, Busy, Idle, Active
<1>2. /\ UNCHANGED <<kind, status, starting, execution, withdrawn, timer>>
      /\ \A g \in Handler \ {h} : call'[g] = call[g]
      /\ call'[h].pc = "read" /\ call'[h].seen = status
  BY KnownTypes DEF Begins, row, workflow, timers
<1>3. Exclusive'
  BY <1>1, <1>2 DEF Serial, Exclusive, Idle, Active
<1>4. Current'
  BY <1>1, <1>2 DEF Serial, Current, Idle
<1>5. InStep'
  BY <1>1, <1>2, InStepKept DEF Serial, Heading, Idle
<1> QED
  BY <1>3, <1>4, <1>5 DEF Serial

\* A handler that has read is refused.
LEMMA SerialRefused ==
  ASSUME Known, Serial, NEW h \in Handler, call[h].pc = "read", Answered(h),
         UNCHANGED <<kind, row, workflow, timers>>
  PROVE  Serial'
<1>1. /\ UNCHANGED <<kind, status, starting, execution, withdrawn, timer>>
      /\ \A g \in Handler \ {h} : call'[g] = call[g]
      /\ call'[h].pc = "idle"
  BY KnownTypes DEF Answered, NoCall, row, workflow, timers
<1>2. Exclusive'
  BY <1>1 DEF Serial, Exclusive, Idle, Active
<1>3. Current'
  BY <1>1 DEF Serial, Current, Idle, InitialStatus, config
<1>4. InStep'
  <2>1. \A g \in Handler : /\ call'[g].pc = "accepted" <=> call[g].pc = "accepted"
                          /\ call'[g].pc = "accepted" => call'[g].to = call[g].to
    <3> SUFFICES ASSUME NEW g \in Handler
                 PROVE  /\ call'[g].pc = "accepted" <=> call[g].pc = "accepted"
                        /\ call'[g].pc = "accepted" => call'[g].to = call[g].to
      OBVIOUS
    <3>1. CASE g = h
      BY <1>1, <3>1
    <3>2. CASE g # h
      BY <1>1, <3>2
    <3> QED
      BY <3>1, <3>2
  <2>2. \A s \in Status : Heading(s)' => Heading(s)
    BY <1>1, <2>1 DEF Heading
  <2> QED
    BY <1>1, <2>2, InStepKept DEF Serial
<1> QED
  BY <1>2, <1>3, <1>4 DEF Serial

\* The workflow accepts: the case is heading for what it accepted, and for nothing else.
LEMMA SerialAccepts ==
  ASSUME OrderlyEnds, Known, Serial, NEW h \in Handler, UpdateAccepted(h)
  PROVE  Serial'
<1>0. call[h] \in Call /\ call[h].no \in Timer /\ call[h].no # Deadline
  BY KnownTypes DEF Call, UpdateAccepted, WorkflowAccepts, RepeatInv, NumberInv, Numbered, Deadline
<1>1. PICK to \in Status : to = call[h].to
  BY <1>0, KnownTypes DEF WorkInv, Call, UpdateAccepted, WorkflowAccepts
<1>2. /\ call[h].pc = "read" /\ execution = "running" /\ Valid(h)
      /\ UNCHANGED <<kind, status, starting, withdrawn>>
      /\ execution' = IF IsTerminal(config, to) THEN "closed" ELSE "running"
  BY <1>1 DEF UpdateAccepted, WorkflowAccepts, row
<1>3. /\ \A g \in Handler \ {h} : call'[g] = call[g]
      /\ call'[h].pc = "accepted" /\ call'[h].to = to /\ call'[h].seen = call[h].seen
  BY <1>0, <1>1, KnownTypes DEF UpdateAccepted, Accepted, Call
<1>4. /\ \A t \in Timer \ {call[h].no} : timer'[t] = timer[t]
      /\ \/ timer'[call[h].no] = timer[call[h].no]
         \/ timer'[call[h].no].state = "sleeping" /\ timer'[call[h].no].from = to
      /\ ~IsTerminal(config, to) /\ Expires(to) =>
           timer'[call[h].no].state = "sleeping" /\ timer'[call[h].no].from = to
  BY <1>0, <1>1, KnownTypes DEF UpdateAccepted, WorkflowAccepts, Expires
<1>5. /\ status # "none" /\ ~starting /\ call[h].seen = status
      /\ \A g \in Handler \ {h} : Idle(g)
      /\ \A t \in Timer : ~Active(t)
  BY <1>2, KnownTypes DEF WorkInv, Serial, Exclusive, Current, Idle
<1>6. \A t \in Timer : timer'[t].state \notin {"scheduled", "committed", "exhausted"}
  BY <1>4, <1>5 DEF Active
<1>7. Exclusive'
  BY <1>2, <1>3, <1>5, <1>6 DEF Exclusive, Idle, Active
<1>8. Current'
  BY <1>2, <1>3, <1>5, <1>6 DEF Serial, Current, Idle, Expiry
<1>9. ASSUME NEW s \in Status, Heading(s)' PROVE Agrees(s)' /\ Sleeps(s)' /\ NoneLeft(s)'
  <2>1. s = to
    BY <1>3, <1>5, <1>9 DEF Heading, Idle
  <2>2. config' = config /\ (Expires(s)' <=> Expires(s))
    BY <1>2 DEF config, Expires
  <2>3. Agrees(s)'
    BY <1>2, <2>1, <2>2 DEF Agrees
  <2>4. Sleeps(s)'
    BY <1>0, <1>4, <2>1, <2>2, Orderly DEF Sleeps, Expiry
  <2>5. NoneLeft(s)'
    <3> SUFFICES ASSUME execution' = "running", NEW t \in Expiry, timer'[t].state = "sleeping",
                        timer'[t].from # to
                 PROVE  FALSE
      BY <2>1 DEF NoneLeft
    <3>1. timer'[t] = timer[t] /\ timer[t].state = "sleeping"
      BY <1>4 DEF Expiry
    <3>2. NoneLeft(status) /\ ~Ending
      BY <1>2, <1>5, RestHeading DEF Idle, Ending, Active, Expiry
    <3>3. timer[t].from = status
      BY <1>2, <3>1, <3>2 DEF NoneLeft
    <3>4. Expires(status)
      BY <3>1, <3>3, KnownTypes DEF WorkInv, Expires, Expiry
    <3>5. IsTerminal(config, to)
      BY <1>1, <1>2, <1>5, <3>4, EndsStay
    <3> QED
      BY <1>2, <3>5
  <2> QED
    BY <2>3, <2>4, <2>5
<1> QED
  BY <1>7, <1>8, <1>9 DEF Serial, InStep

\* Without an execution the case is at its end, and what is still accepted is an end too.
LEMMA SerialHTTP ==
  ASSUME OrderlyEnds, Known, Serial, NEW h \in Handler, ValidateHTTP(h), Valid(h)
  PROVE  Serial'
<1>0. call[h] \in Call
  BY KnownTypes
<1>1. PICK to \in Status : to = call[h].to
  BY <1>0, KnownTypes DEF WorkInv, Call, ValidateHTTP
<1>2. /\ call[h].pc = "read" /\ execution \in {"none", "purged"}
      /\ UNCHANGED <<kind, status, starting, execution, withdrawn, timer>>
  BY DEF ValidateHTTP, isWorkflowNotFound, row, workflow, timers
<1>3. /\ \A g \in Handler \ {h} : call'[g] = call[g]
      /\ call'[h].pc = "accepted" /\ call'[h].to = to /\ call'[h].seen = call[h].seen
  BY <1>0, <1>1, KnownTypes DEF ValidateHTTP, Accepted, Call
<1>4. /\ status # "none" /\ ~starting /\ call[h].seen = status
      /\ \A g \in Handler \ {h} : Idle(g)
      /\ \A t \in Timer : ~Active(t)
  BY <1>2, KnownTypes DEF WorkInv, Serial, Exclusive, Current, Idle
<1>5. Exclusive'
  BY <1>2, <1>3, <1>4 DEF Serial, Exclusive, Idle, Active
<1>6. Current'
  BY <1>2, <1>3, <1>4 DEF Serial, Current, Idle
<1>7. ASSUME NEW s \in Status, Heading(s)' PROVE Agrees(s)' /\ Sleeps(s)' /\ NoneLeft(s)'
  <2>1. s = to
    BY <1>3, <1>4, <1>7 DEF Heading, Idle
  <2>2. config' = config /\ (Expires(s)' <=> Expires(s)) /\ ~Ending
    BY <1>2, <1>4 DEF config, Expires, Ending, Active, Expiry
  <2>3. Agrees(status)
    BY <1>2, <1>4, RestHeading DEF Idle
  <2>4. ~withdrawn => IsTerminal(config, to)
    BY <1>1, <1>2, <1>4, <2>2, <2>3, EndsStay DEF Agrees
  <2>5. Agrees(s)' /\ NoneLeft(s)'
    BY <1>2, <2>1, <2>2, <2>4 DEF Agrees, NoneLeft
  <2>6. Sleeps(s)'
    BY <1>2, <2>1, <2>2, <2>4, Orderly DEF Sleeps
  <2> QED
    BY <2>5, <2>6
<1> QED
  BY <1>5, <1>6, <1>7 DEF Serial, InStep

\* The row arrives where it was heading.
LEMMA SerialWrite ==
  ASSUME Known, Serial, NEW h \in Handler, WriteRow(h)
  PROVE  Serial'
<1>0. call[h] \in Call
  BY KnownTypes
<1>1. PICK to \in Status : to = call[h].to
  BY <1>0, KnownTypes DEF WorkInv, Call, WriteRow
<1>2. /\ call[h].pc = "accepted" /\ status' = to
      /\ UNCHANGED <<kind, starting, execution, withdrawn, timer>>
      /\ \A g \in Handler \ {h} : call'[g] = call[g]
      /\ call'[h].pc = "idle"
  BY <1>1, KnownTypes DEF WriteRow, UpdateRow, Answered, NoCall, workflow, timers
<1>3. /\ status # "none" /\ ~starting
      /\ \A g \in Handler \ {h} : Idle(g)
      /\ \A t \in Timer : ~Active(t)
  BY <1>2, KnownTypes DEF WorkInv, Serial, Exclusive, Idle
<1>4. Exclusive'
  BY <1>2, <1>3 DEF Serial, Exclusive, Idle, Active
<1>5. Current'
  <2>1. \A g \in Handler : Idle(g)'
    BY <1>2, <1>3 DEF Idle
  <2>2. \A t \in Expiry : timer'[t].state \notin {"scheduled", "committed"}
    BY <1>2, <1>3 DEF Active, Expiry
  <2> QED
    BY <1>2, <1>3, <2>1, <2>2 DEF Serial, Current
<1>6. InStep'
  <2>1. Heading(to)
    BY <1>1, <1>2 DEF Heading
  <2>2. \A s \in Status : Heading(s)' => s = to
    BY <1>2, <1>3 DEF Heading, Idle
  <2> QED
    BY <1>2, <2>1, <2>2, InStepKept DEF Serial
<1> QED
  BY <1>4, <1>5, <1>6 DEF Serial

\* A timer fires undisturbed only at rest, for the status the row has.
LEMMA SerialFires ==
  ASSUME Known, Serial, NEW t \in Timer, TimerFires(t), ~contended'
  PROVE  Serial'
<1>1. ~starting /\ (\A h \in Handler : Idle(h)) /\ (\A u \in Timer : ~Active(u))
  BY DEF TimerFires, Busy, Idle, Active
<1>2. /\ UNCHANGED <<kind, status, starting, execution, withdrawn, call>>
      /\ \A u \in Timer \ {t} : timer'[u] = timer[u]
      /\ timer'[t].state = "scheduled" /\ timer'[t].from = timer[t].from
      /\ timer[t].state = "sleeping" /\ execution = "running"
  <2>1. timer \in [Timer -> TimerRecord]
    BY KnownTypes
  <2> QED
    BY <2>1 DEF TimerFires, row, workflow, TimerRecord
<1>3. status # "none" /\ NoneLeft(status) /\ ~Ending
  <2>1. status # "none"
    BY <1>2, KnownTypes DEF Blank
  <2>2. ~Ending
    BY <1>1 DEF Ending, Active, Expiry
  <2> QED
    BY <1>1, <2>1, <2>2, RestHeading DEF Idle
<1>4. Exclusive'
  BY <1>1, <1>2 DEF Exclusive, Idle, Active
<1>5. Current'
  <2>1. t \in Expiry => timer'[t].from = status
    BY <1>2, <1>3 DEF NoneLeft
  <2>2. \A u \in Timer \ {t} : timer'[u].state \notin {"scheduled", "committed"}
    BY <1>1, <1>2 DEF Active
  <2> QED
    BY <1>1, <1>2, <2>1, <2>2 DEF Serial, Current, Idle, Expiry
<1>6. ASSUME NEW s \in Status, Heading(s)' PROVE Agrees(s)' /\ Sleeps(s)' /\ NoneLeft(s)'
  <2>1. Heading(s) /\ Agrees(s) /\ Sleeps(s) /\ NoneLeft(s)
    BY <1>2, <1>6 DEF Heading, Serial, InStep
  <2>2. config' = config /\ (Expires(s)' <=> Expires(s)) /\ ~Ending'
    BY <1>1, <1>2 DEF config, Expires, Ending, Active, Expiry
  <2>3. Agrees(s)' /\ NoneLeft(s)'
    BY <1>2, <1>3, <2>1, <2>2 DEF Agrees, NoneLeft, Expiry
  <2>4. Sleeps(s)'
    <3>1. CASE t \in Expiry
      BY <1>2, <3>1 DEF Sleeps, Active
    <3>2. CASE t \notin Expiry
      BY <1>1, <1>2, <2>1, <2>2, <3>2 DEF Sleeps, Active, Expiry
    <3> QED
      BY <3>1, <3>2
  <2> QED
    BY <2>3, <2>4
<1> QED
  BY <1>4, <1>5, <1>6 DEF Serial, InStep

\* Where an activity is at work, nothing else is.
LEMMA AtWork ==
  ASSUME Known, Serial, NEW t \in Timer, Active(t)
  PROVE  /\ ~starting /\ status # "none" /\ (\A h \in Handler : Idle(h))
         /\ \A u \in Timer \ {t} : ~Active(u)
<1>1. ~starting /\ (\A h \in Handler : Idle(h)) /\ (\A u \in Timer \ {t} : ~Active(u))
  BY DEF Serial, Exclusive
<1>2. status # "none"
  BY KnownTypes DEF Blank, Active
<1> QED
  BY <1>1, <1>2

LEMMA SerialExpiry ==
  ASSUME Known, Serial, NEW t \in Timer, ExpiryCommits(t)
  PROVE  Serial'
<1>1. /\ timer[t].state = "scheduled" /\ t \in Expiry
      /\ UNCHANGED <<kind, starting, execution, withdrawn, call>> /\ status' = "expired"
      /\ timer'[t].state = "committed" /\ \A u \in Timer \ {t} : timer'[u] = timer[u]
  <2>1. timer \in [Timer -> TimerRecord]
    BY KnownTypes
  <2> QED
    BY <2>1 DEF ExpiryCommits, workflow, Expiry, TimerRecord
<1>2. ~starting /\ (\A h \in Handler : Idle(h)) /\ (\A u \in Timer \ {t} : ~Active(u))
  BY <1>1, AtWork DEF Active
<1>3. Exclusive'
  BY <1>1, <1>2 DEF Serial, Exclusive, Idle, Active
<1>4. Current'
  <2>1. status # "none"
    BY <1>1, AtWork DEF Active
  <2>2. \A u \in Timer \ {t} : timer'[u].state \notin {"scheduled", "committed"}
    BY <1>1, <1>2 DEF Active
  <2> QED
    BY <1>1, <1>2, <2>1, <2>2 DEF Serial, Current, Idle, Expiry
<1>5. Ending' /\ \E u \in Expiry : Active(u)'
  BY <1>1 DEF Ending, Active
<1>6. \A s : Agrees(s)' /\ Sleeps(s)' /\ NoneLeft(s)'
  BY <1>5 DEF Agrees, Sleeps, NoneLeft
<1> QED
  BY <1>3, <1>4, <1>6 DEF Serial, InStep

LEMMA SerialNotice ==
  ASSUME Known, Serial, NoticeCommits
  PROVE  Serial'
<1>1. /\ timer[Deadline].state = "scheduled" /\ Deadline \in Timer
      /\ UNCHANGED <<kind, status, starting, execution, withdrawn, call>>
      /\ timer'[Deadline].state = "committed"
      /\ \A u \in Timer \ {Deadline} : timer'[u] = timer[u]
  <2>1. timer \in [Timer -> TimerRecord] /\ Deadline \in Timer
    BY KnownTypes
  <2> QED
    BY <2>1 DEF NoticeCommits, row, workflow, TimerRecord
<1>2. Exclusive'
  BY <1>1 DEF Serial, Exclusive, Idle, Active
<1>3. Current'
  BY <1>1 DEF Serial, Current, Idle, Expiry, InitialStatus, config
<1>4. InStep'
  BY <1>1, InStepKept DEF Serial, Heading, Expiry
<1> QED
  BY <1>2, <1>3, <1>4 DEF Serial

\* A case whose workflow has ended has ended, or was withdrawn.
LEMMA SerialDropped ==
  ASSUME OrderlyEnds, Known, Serial, NEW t \in Timer, AttemptDropped(t)
  PROVE  Serial'
<1>1. /\ timer[t].state = "scheduled" /\ execution # "running"
      /\ UNCHANGED <<kind, status, starting, execution, withdrawn, call>>
      /\ timer'[t].state = "dropped" /\ \A u \in Timer \ {t} : timer'[u] = timer[u]
  <2>1. timer \in [Timer -> TimerRecord]
    BY KnownTypes
  <2> QED
    BY <2>1 DEF AttemptDropped, row, workflow, TimerRecord
<1>2. /\ ~starting /\ status # "none" /\ (\A h \in Handler : Idle(h))
      /\ \A u \in Timer \ {t} : ~Active(u)
  BY <1>1, AtWork DEF Active
<1>3. Exclusive'
  BY <1>1, <1>2 DEF Serial, Exclusive, Idle, Active
<1>4. Current'
  <2>1. \A u \in Timer : timer'[u].state \notin {"scheduled", "committed"}
    BY <1>1, <1>2 DEF Active
  <2> QED
    BY <1>1, <1>2, <2>1 DEF Serial, Current, Idle, Expiry
<1>5. ASSUME NEW s \in Status, Heading(s)' PROVE Agrees(s)' /\ Sleeps(s)' /\ NoneLeft(s)'
  <2>1. s = status /\ Agrees(s)
    <3>1. Heading(s)
      BY <1>1, <1>5 DEF Heading
    <3> QED
      BY <1>2, <3>1, RestHeading DEF Idle
  <2>2. ~Ending /\ config' = config /\ (Expires(s)' <=> Expires(s))
    BY <1>1, <1>2 DEF Ending, Active, Expiry, config, Expires
  <2>3. ~withdrawn => IsTerminal(config, s)
    BY <1>1, <2>1, <2>2 DEF Agrees
  <2>4. Agrees(s)' /\ NoneLeft(s)'
    BY <1>1, <2>2, <2>3 DEF Agrees, NoneLeft
  <2>5. Sleeps(s)'
    BY <1>1, <2>2, <2>3, Orderly DEF Sleeps
  <2> QED
    BY <2>4, <2>5
<1> QED
  BY <1>3, <1>4, <1>5 DEF Serial, InStep

\* The workflow learns of the expiry and completes, as the row already has.
LEMMA SerialReturns ==
  ASSUME OrderlyEnds, Known, Serial, NEW t \in Timer, ActivityReturns(t)
  PROVE  Serial'
<1>1. /\ timer[t].state = "committed"
      /\ UNCHANGED <<kind, status, starting, withdrawn, call>>
      /\ timer'[t].state = "done" /\ \A u \in Timer \ {t} : timer'[u] = timer[u]
      /\ execution' = IF t # Deadline /\ execution = "running" THEN "closed" ELSE execution
  <2>1. timer \in [Timer -> TimerRecord]
    BY KnownTypes
  <2>2. timer[t].state = "committed"
    BY DEF ActivityReturns, Serial, Exclusive
  <2> QED
    BY <2>1, <2>2 DEF ActivityReturns, row, TimerRecord
<1>2. /\ ~starting /\ status # "none" /\ (\A h \in Handler : Idle(h))
      /\ \A u \in Timer \ {t} : ~Active(u)
  BY <1>1, AtWork DEF Active
<1>3. Exclusive'
  BY <1>1, <1>2 DEF Serial, Exclusive, Idle, Active
<1>4. Current'
  <2>1. \A u \in Timer : timer'[u].state \notin {"scheduled", "committed"}
    BY <1>1, <1>2 DEF Active
  <2>2. execution' = execution \/ (execution = "running" /\ execution' = "closed")
    BY <1>1
  <2> QED
    BY <1>1, <1>2, <2>1, <2>2 DEF Serial, Current, Idle, Expiry
<1>5. ASSUME NEW s \in Status, Heading(s)' PROVE Agrees(s)' /\ Sleeps(s)' /\ NoneLeft(s)'
  <2>1. s = status /\ Agrees(s) /\ Sleeps(s) /\ NoneLeft(s)
    <3>1. Heading(s)
      BY <1>1, <1>5 DEF Heading
    <3> QED
      BY <1>2, <3>1, RestHeading DEF Idle
  <2>2. config' = config /\ (Expires(s)' <=> Expires(s)) /\ ~Ending'
    BY <1>1, <1>2 DEF config, Expires, Ending, Active, Expiry
  <2>3. CASE t \in Expiry
    <3>1. s = "expired" /\ kind = "permit" /\ execution' # "running"
      BY <1>1, <2>1, <2>3, KnownTypes DEF Serial, Current, WorkInv, Expiry
    <3>2. IsTerminal(config, s) /\ ~Expires(s)
      BY <3>1, Orderly
    <3> QED
      BY <2>2, <3>1, <3>2 DEF Agrees, Sleeps, NoneLeft
  <2>4. CASE t \notin Expiry
    <3>1. ~Ending /\ execution' = execution /\ \A u \in Expiry : timer'[u] = timer[u]
      BY <1>1, <1>2, <2>4 DEF Ending, Active, Expiry
    <3>2. Agrees(s)' /\ NoneLeft(s)'
      BY <1>1, <2>1, <2>2, <3>1 DEF Agrees, NoneLeft
    <3>3. Sleeps(s)'
      BY <1>1, <2>1, <2>2, <3>1 DEF Sleeps, Active
    <3> QED
      BY <3>2, <3>3
  <2> QED
    BY <2>3, <2>4
<1> QED
  BY <1>3, <1>4, <1>5 DEF Serial, InStep

LEMMA SerialExecution ==
  ASSUME Known, Serial, WithdrawSignal \/ Purge
  PROVE  Serial'
<1>1. /\ UNCHANGED <<kind, status, starting, call, timer>>
      /\ \/ execution = "running" /\ execution' = "closed" /\ withdrawn'
         \/ UNCHANGED <<execution, withdrawn>>
         \/ execution = "closed" /\ execution' = "purged" /\ UNCHANGED withdrawn
  BY DEF WithdrawSignal, Purge, row, timers
<1>2. Exclusive'
  BY <1>1 DEF Serial, Exclusive, Idle, Active
<1>3. Current'
  BY <1>1 DEF Serial, Current, Idle, InitialStatus, config
<1>4. InStep'
  <2>1. \A s : Heading(s)' => Heading(s)
    BY <1>1 DEF Heading
  <2>2. CASE withdrawn' /\ execution' # "running"
    BY <2>2 DEF InStep, Agrees, Sleeps, NoneLeft
  <2>3. CASE ~(withdrawn' /\ execution' # "running")
    BY <1>1, <2>1, <2>3, InStepKept DEF Serial
  <2> QED
    BY <2>2, <2>3
<1> QED
  BY <1>2, <1>3, <1>4 DEF Serial

LEMMA SerialNext ==
  ASSUME OrderlyEnds, Known, SerialInv, [Next]_vars
  PROVE  SerialInv'
<1> SUFFICES ASSUME Undisturbed' PROVE Serial'
  BY DEF SerialInv
<1>0. faults \in Nat /\ contended \in BOOLEAN /\ TypeOK
  BY DEF Known, TypeOK
<1>1. ~Fail
  BY <1>0 DEF Fail, Undisturbed
<1> USE DEF row, workflow, timers
<1>2. CASE UNCHANGED vars
  BY <1>2 DEF vars, SerialInv, Undisturbed, Serial, Exclusive, Current, InStep, Idle, Active, Heading,
              Agrees, Sleeps, NoneLeft, Ending, Expires, config, InitialStatus
<1>3. CASE Creation
  <2>1. Create \/ StartWorkflow
    BY <1>1, <1>3 DEF Creation, StartWorkflowFails
  <2>2. Serial
    BY <2>1 DEF Create, StartWorkflow, SerialInv, Undisturbed
  <2> QED
    BY <2>1, <2>2, SerialCreate, SerialStart
<1>4. ASSUME NEW h \in Handler, NEW to, NEW role, NEW op, Begins(h, to, role, op) PROVE Serial'
  <2>1. ~contended' /\ Serial
    BY <1>0, <1>4 DEF Begins, SerialInv, Undisturbed
  <2> QED
    BY <1>4, <2>1, SerialBegins
<1>5. ASSUME NEW h \in Handler, HandlerStep(h) PROVE Serial'
  <2>1. CASE \/ \E to \in StatusesOf(kind) \cap Requested, role \in Role : ReadForUpdate(h, to, role)
             \/ \E role \in Role : ReadForAssign(h, role)
    BY <1>4, <2>1 DEF ReadForUpdate, ReadForAssign
  <2>2. CASE UpdateAccepted(h) \/ UpdateRefused(h) \/ ValidateHTTP(h) \/ WriteRow(h)
    <3>1. Serial
      BY <2>2 DEF UpdateAccepted, UpdateRefused, ValidateHTTP, WriteRow, SerialInv, Undisturbed
    <3>2. CASE UpdateAccepted(h)
      BY <3>1, <3>2, SerialAccepts
    <3>3. CASE UpdateRefused(h) \/ (ValidateHTTP(h) /\ ~Valid(h))
      BY <3>1, <3>3, SerialRefused DEF UpdateRefused, ValidateHTTP
    <3>4. CASE ValidateHTTP(h) /\ Valid(h)
      BY <3>1, <3>4, SerialHTTP
    <3>5. CASE WriteRow(h)
      BY <3>1, <3>5, SerialWrite
    <3> QED
      BY <2>2, <3>2, <3>3, <3>4, <3>5
  <2> QED
    BY <1>1, <1>5, <2>1, <2>2
       DEF HandlerStep, WriteStatus, WriteAssign, UpdateReplyLost, TemporalUnavailable,
           validateHTTPFails, WriteFails
<1>6. ASSUME NEW t \in Timer, TimerStep(t) PROVE Serial'
  <2>1. CASE TimerFires(t)
    <3>1. ~contended' /\ Serial
      BY <1>0, <2>1 DEF TimerFires, SerialInv, Undisturbed
    <3> QED
      BY <2>1, <3>1, SerialFires
  <2>2. CASE ExpiryCommits(t) \/ AttemptDropped(t) \/ ActivityReturns(t)
    <3>1. Serial
      BY <2>2 DEF ExpiryCommits, AttemptDropped, ActivityReturns, SerialInv, Undisturbed
    <3> QED
      BY <2>2, <3>1, SerialExpiry, SerialDropped, SerialReturns
  <2> QED
    BY <1>1, <1>6, <2>1, <2>2 DEF TimerStep, AttemptFails
<1>7. CASE NoticeCommits
  <2>1. Serial
    BY <1>7 DEF NoticeCommits, SerialInv, Undisturbed
  <2> QED
    BY <1>7, <2>1, SerialNotice
<1>8. CASE ExecutionStep
  <2>1. WithdrawSignal \/ Purge
    BY <1>1, <1>8 DEF ExecutionStep, ExecutionTimeout
  <2>2. Serial
    BY <2>1 DEF WithdrawSignal, Purge, SerialInv, Undisturbed
  <2> QED
    BY <2>1, <2>2, SerialExecution
<1> QED
  BY <1>2, <1>3, <1>5, <1>6, <1>7, <1>8 DEF Next

\* Nobody disturbs what others have disturbed before.
LEMMA DisturbedForGood ==
  ASSUME TypeOK, [Next]_vars, Undisturbed'
  PROVE  Undisturbed
<1>1. faults \in Nat /\ contended \in BOOLEAN
  BY DEF TypeOK
<1>2. CASE UNCHANGED <<contended, faults>>
  BY <1>2 DEF Undisturbed
<1>3. CASE contended' = (contended \/ Busy) /\ UNCHANGED faults
  BY <1>1, <1>3 DEF Undisturbed
<1>4. CASE Fail
  BY <1>1, <1>4 DEF Undisturbed, Fail
<1>5. UNCHANGED <<contended, faults>> \/ (contended' = (contended \/ Busy) /\ UNCHANGED faults) \/ Fail
  <2>1. CASE UNCHANGED vars
    BY <2>1 DEF vars
  <2>2. CASE Creation \/ NoticeCommits \/ ExecutionStep
    BY <2>2 DEF Creation, Create, StartWorkflow, StartWorkflowFails, NoticeCommits, ExecutionStep,
                WithdrawSignal, ExecutionTimeout, Purge
  <2>3. ASSUME NEW h \in Handler, HandlerStep(h)
        PROVE  \/ UNCHANGED <<contended, faults>>
               \/ contended' = (contended \/ Busy) /\ UNCHANGED faults
               \/ Fail
    BY <2>3 DEF HandlerStep, ReadForUpdate, ReadForAssign, Begins, UpdateAccepted,
                UpdateReplyLost, UpdateRefused, TemporalUnavailable, validateHTTPFails, ValidateHTTP,
                WriteStatus, WriteAssign, WriteRow, WriteFails
  <2>4. ASSUME NEW t \in Timer, TimerStep(t)
        PROVE  \/ UNCHANGED <<contended, faults>>
               \/ contended' = (contended \/ Busy) /\ UNCHANGED faults
               \/ Fail
    BY <2>4 DEF TimerStep, TimerFires, ExpiryCommits, AttemptFails, AttemptDropped, ActivityReturns
  <2> QED
    BY <2>1, <2>2, <2>3, <2>4 DEF Next
<1> QED
  BY <1>2, <1>3, <1>4, <1>5

\* An event that begins where the row was continues the path.
LEMMA PathAppended ==
  ASSUME TypeOK, LastStatus, SerialHistory, Undisturbed, NEW e, Wrote(e),
         status # "none", e.from = status
  PROVE  SerialHistory'
<1> DEFINE n == Len(announced) + 1
<1>1. /\ DOMAIN announced' = DOMAIN announced \cup {n} /\ announced'[n] = e
      /\ \A i \in DOMAIN announced : announced'[i] = announced[i]
  BY Appended DEF Wrote
<1>2. announced # <<>> /\ status = announced[Len(announced)].to
  BY DEF LastStatus
<1>3. /\ Len(announced) \in Nat /\ Len(announced) \in DOMAIN announced /\ n - 1 = Len(announced)
      /\ n > 1 /\ DOMAIN announced = 1..Len(announced)
  BY <1>2 DEF TypeOK
<1> HIDE DEF n
<1> SUFFICES ASSUME NEW i \in Changes' PROVE i > 1 /\ announced'[i].from = announced'[i - 1].to
  BY DEF SerialHistory
<1>4. CASE i = n
  BY <1>1, <1>2, <1>3, <1>4
<1>5. CASE i # n
  <2>1. i \in DOMAIN announced /\ i \in Changes
    BY <1>1, <1>5 DEF Changes
  <2>2. i > 1 /\ announced[i].from = announced[i - 1].to
    BY <2>1 DEF SerialHistory, Undisturbed
  <2>3. i - 1 \in DOMAIN announced
    BY <1>3, <2>1, <2>2
  <2> QED
    BY <1>1, <2>1, <2>2, <2>3
<1> QED
  BY <1>4, <1>5

LEMMA HistoryNext ==
  ASSUME Known, LastStatus, SerialInv, SerialHistory, [Next]_vars
  PROVE  SerialHistory'
<1> SUFFICES ASSUME Undisturbed' PROVE SerialHistory'
  BY DEF SerialHistory, Undisturbed
<1>1. Undisturbed /\ TypeOK /\ WorkInv /\ Exclusive /\ Current
  BY DisturbedForGood DEF Known, SerialInv, Serial
<1>2. CASE UNCHANGED <<status, stamped, announced>>
  BY <1>1, <1>2 DEF SerialHistory, Changes, Undisturbed
<1>3. CASE Create
  <2>1. Changes' = {}
    BY <1>3 DEF Create, Changes, Event
  <2> QED
    BY <2>1 DEF SerialHistory
<1>4. ASSUME NEW h \in Handler, WriteRow(h),
             Wrote(Event(call[h].op, call[h].seen, call[h].to, call[h].role, call[h].no))
      PROVE  SerialHistory'
  <2> DEFINE e == Event(call[h].op, call[h].seen, call[h].to, call[h].role, call[h].no)
  <2>1. e.from = status /\ status # "none"
    BY <1>1, <1>4 DEF Event, Current, Idle, WriteRow, WorkInv
  <2> HIDE DEF e
  <2> QED
    BY <1>1, <1>4, <2>1, PathAppended DEF e
<1>5. ASSUME NEW t \in Timer, ExpiryCommits(t),
             Wrote(Event("expire", timer[t].from, "expired", "system", t))
      PROVE  SerialHistory'
  <2> DEFINE e == Event("expire", timer[t].from, "expired", "system", t)
  <2>1. e.from = status /\ status # "none"
    <3>1. timer[t].from = status
      BY <1>1, <1>5 DEF ExpiryCommits, Current, Expiry
    <3>2. status # "none"
      BY <1>5, KnownTypes DEF ExpiryCommits, Blank
    <3> QED
      BY <3>1, <3>2 DEF Event
  <2> HIDE DEF e
  <2> QED
    BY <1>1, <1>5, <2>1, PathAppended DEF e
<1> QED
  BY <1>1, <1>2, <1>3, <1>4, <1>5, Writes

\* All that the theorems about one operation at a time rest on.
CaseInv == Known /\ LastStatus /\ StampHistory /\ SerialInv /\ SerialHistory

LEMMA CaseInductive == OrderlyEnds => (Spec => []CaseInv)
<1> SUFFICES ASSUME OrderlyEnds PROVE Spec => []CaseInv
  OBVIOUS
<1>1. Init => CaseInv
  <2>1. Init => SerialHistory
    BY DEF Init, SerialHistory, Changes
  <2> QED
    BY <2>1, TypeInit, WorkInit, BlankInit, RepeatInit, RowInit, SerialInit DEF CaseInv, Known
<1>2. CaseInv /\ [Next]_vars => CaseInv'
  <2> SUFFICES ASSUME CaseInv, [Next]_vars PROVE CaseInv'
    OBVIOUS
  <2>1. Known /\ TypeOK /\ WorkInv /\ Blank /\ RepeatInv /\ LastStatus /\ StampHistory
        /\ SerialInv /\ SerialHistory
    BY DEF CaseInv, Known
  <2>2. Known'
    BY <2>1, TypeNext, WorkNext, BlankNext, RepeatNext DEF Known
  <2>3. LastStatus' /\ StampHistory'
    BY <2>1, RowNext
  <2>4. SerialInv' /\ SerialHistory'
    BY <2>1, SerialNext, HistoryNext
  <2> QED
    BY <2>2, <2>3, <2>4 DEF CaseInv
<1> QED
  BY <1>1, <1>2, PTL DEF Spec

\* Where configurations end in order, and operations on a case neither overlap nor fail, its
\* events are a path, though the row is read, and written, without a lock.
THEOREM SerialCases == OrderlyEnds => (Spec => []SerialHistory)
<1> SUFFICES ASSUME OrderlyEnds PROVE Spec => []SerialHistory
  OBVIOUS
<1>1. CaseInv => SerialHistory
  BY DEF CaseInv
<1> QED
  BY <1>1, CaseInductive, PTL

-----------------------------------------------------------------------------
(* Operations that fail, but do not overlap.                                 *)

\* Whoever is at work is alone, but for what has failed before ...
Lone ==
  /\ \A h, g \in Handler : Idle(h) \/ Idle(g) \/ h = g
  /\ \A h \in Handler, t \in Timer : Idle(h) \/ ~Active(t)
  /\ starting => (\A h \in Handler : Idle(h)) /\ \A t \in Timer : ~Active(t)

\* ... and a handler knows the status the row has.
Informed ==
  /\ \A h \in Handler : ~Idle(h) => call[h].seen = status
  /\ starting => status = InitialStatus

\* A status the workflow may run with: no end, and if it expires, a timer is asleep for it.
Awake(s) ==
  /\ ~IsTerminal(config, s)
  /\ Expires(s) => \E t \in Expiry : timer[t].state = "sleeping" /\ timer[t].from = s

\* Unless an expiry is at work, a running workflow may run with the row's status and with
\* the one it has accepted: the row will have one of them when the handler is done.
Running == execution = "running" /\ \A t \in Expiry : ~Active(t)
Minded ==
  Running => /\ Awake(status)
             /\ \A h \in Handler : call[h].pc = "accepted" => Awake(call[h].to)

Alone == Lone /\ Informed /\ Minded
AloneInv == ~contended => Alone

LEMMA AloneInit == Init => AloneInv
BY DEF Init, AloneInv, Alone, Lone, Informed, Minded, Running, Idle, NoCall

\* A status stays good to run with as long as the timers sleep on.
LEMMA AwakeKept ==
  ASSUME UNCHANGED kind, NEW s, Awake(s),
         \A t \in Expiry : timer[t].state = "sleeping" => timer'[t] = timer[t]
  PROVE  /\ ~IsTerminal(config', s)
         /\ (kind' = "permit" /\ AutoExpires(config', s)) =>
              \E t \in Expiry : timer'[t].state = "sleeping" /\ timer'[t].from = s
BY DEF Awake, Expires, config

\* Steps after which nothing is accepted that was not before.
LEMMA MindedKept ==
  ASSUME Minded, UNCHANGED kind, Running' => Running,
         Running' => \A t \in Expiry : timer[t].state = "sleeping" => timer'[t] = timer[t],
         \/ status' = status
         \/ \E h \in Handler : call[h].pc = "accepted" /\ status' = call[h].to,
         \A h \in Handler : call'[h].pc = "accepted" =>
                              call[h].pc = "accepted" /\ call'[h].to = call[h].to
  PROVE  Minded'
<1> SUFFICES ASSUME Running' PROVE Minded'
  BY DEF Minded
<1>1. Awake(status) /\ \A h \in Handler : call[h].pc = "accepted" => Awake(call[h].to)
  BY DEF Minded
<1>2. PICK s : s = status'
  OBVIOUS
<1>3. Awake(s)
  BY <1>1, <1>2
<1>4. Awake(status)'
  BY <1>2, <1>3, AwakeKept DEF Awake, Expires
<1>5. ASSUME NEW h \in Handler, call'[h].pc = "accepted" PROVE Awake(call[h].to)'
  <2>1. PICK to : to = call[h].to
    OBVIOUS
  <2>2. Awake(to) /\ call'[h].to = to
    BY <1>1, <1>5, <2>1
  <2> QED
    BY <2>2, AwakeKept DEF Awake, Expires
<1> QED
  BY <1>4, <1>5 DEF Minded

\* A handler that is under way takes its next step.
LEMMA LoneMoves ==
  ASSUME Known, Lone, Informed, NEW h \in Handler, call[h].pc # "idle",
         UNCHANGED <<kind, starting>>, \A t \in Timer : Active(t)' => Active(t),
         \/ Accepted(h) /\ UNCHANGED status
         \/ Answered(h)
  PROVE  Lone' /\ Informed'
<1>1. ~starting /\ (\A g \in Handler \ {h} : Idle(g)) /\ call[h].seen = status
  BY DEF Lone, Informed, Idle
<1>2. \A g \in Handler \ {h} : call'[g] = call[g]
  BY KnownTypes DEF Accepted, Answered
<1>3. \A g \in Handler \ {h} : Idle(g)'
  BY <1>1, <1>2 DEF Idle
<1>4. \/ call'[h].seen = call[h].seen /\ UNCHANGED status
      \/ Idle(h)'
  BY KnownTypes DEF Accepted, Answered, NoCall, Idle, Call
<1>5. \A t \in Timer : ~Active(t)
  BY DEF Lone, Idle
<1>6. Lone'
  BY <1>1, <1>3, <1>5 DEF Lone
<1>7. Informed'
  BY <1>1, <1>3, <1>4 DEF Informed
<1> QED
  BY <1>6, <1>7

\* Steps of timers and of Temporal.
LEMMA LoneTimers ==
  ASSUME Lone, Informed, UNCHANGED <<kind, starting, call>>,
         \/ \A t \in Timer : Active(t)' => Active(t)
         \/ ~Busy,
         status' = status \/ \E t \in Timer : Active(t)
  PROVE  Lone' /\ Informed'
<1>1. ~Busy => ~starting /\ \A h \in Handler : Idle(h)
  BY DEF Busy, Idle
<1>2. \A h \in Handler : Idle(h)' <=> Idle(h)
  BY DEF Idle
<1>3. Lone'
  BY <1>1, <1>2 DEF Lone
<1>4. Informed'
  BY <1>2 DEF Informed, Lone, InitialStatus, config
<1> QED
  BY <1>3, <1>4

\* The creation, whose handler counts as at work until it has started the workflow.
LEMMA AloneCreation ==
  ASSUME OrderlyEnds, Known, Alone, Creation
  PROVE  Alone'
<1> USE DEF row, workflow, timers
<1>1. ASSUME Create PROVE Alone'
  <2>1. execution = "none" /\ \A t \in Timer : timer[t].state = "none"
    BY <1>1, KnownTypes DEF Create, Blank
  <2>2. \A h \in Handler : Idle(h)
    BY <1>1, KnownTypes DEF Create, WorkInv, Idle
  <2>3. Lone' /\ Informed'
    BY <1>1, <2>1, <2>2 DEF Create, Lone, Informed, Idle, Active, InitialStatus, config
  <2>4. Minded'
    BY <1>1, <2>1 DEF Create, Minded, Running
  <2> QED
    BY <2>3, <2>4 DEF Alone
<1>2. ASSUME StartWorkflow PROVE Alone'
  <2>1. /\ starting /\ status = InitialStatus /\ (\A h \in Handler : Idle(h))
        /\ \A t \in Timer : timer[t].state = "none"
    BY <1>2, KnownTypes DEF StartWorkflow, Alone, Lone, Informed, Blank
  <2>2. \A t \in Timer : timer'[t].state \in {"none", "sleeping"}
    BY <1>2, <2>1, KnownTypes DEF StartWorkflow
  <2>3. Lone' /\ Informed'
    BY <1>2, <2>1, <2>2 DEF StartWorkflow, Lone, Informed, Idle, Active
  <2>4. ~IsTerminal(config, status) /\ ~Expires(status)
    BY <2>1, Orderly
  <2>5. Minded'
    BY <1>2, <2>1, <2>4 DEF StartWorkflow, Minded, Awake, Idle, Expires, config
  <2> QED
    BY <2>3, <2>5 DEF Alone
<1>3. ASSUME StartWorkflowFails PROVE Alone'
  <2>1. execution = "none"
    BY <1>3, KnownTypes DEF StartWorkflowFails, Blank
  <2>2. Lone' /\ Informed'
    BY <1>3 DEF StartWorkflowFails, Alone, Lone, Informed, Idle, Active
  <2>3. Minded'
    BY <1>3, <2>1 DEF StartWorkflowFails, Minded, Running
  <2> QED
    BY <2>2, <2>3 DEF Alone
<1> QED
  BY <1>1, <1>2, <1>3 DEF Creation

LEMMA AloneBegins ==
  ASSUME Known, Alone, NEW h \in Handler, NEW to, NEW role, NEW op, Begins(h, to, role, op),
         ~contended'
  PROVE  Alone'
<1>1. ~starting /\ (\A g \in Handler : Idle(g)) /\ (\A t \in Timer : ~Active(t))
  BY DEF Begins, Busy, Idle, Active
<1>2. /\ UNCHANGED <<kind, status, starting, execution, timer>>
      /\ \A g \in Handler \ {h} : call'[g] = call[g]
      /\ call'[h].pc = "read" /\ call'[h].seen = status
  BY KnownTypes DEF Begins, row, workflow, timers
<1>3. Lone' /\ Informed'
  BY <1>1, <1>2 DEF Lone, Informed, Idle, Active
<1>4. \A g \in Handler : call'[g].pc # "accepted"
  BY <1>1, <1>2 DEF Idle
<1>5. Minded'
  BY <1>2, <1>4, MindedKept DEF Alone, Running, Active
<1> QED
  BY <1>3, <1>5 DEF Alone

\* The workflow accepts and goes on: it may run with the new status, and with the old one if
\* the row never gets the new one.
LEMMA AloneAccepts ==
  ASSUME OrderlyEnds, Known, Alone, NEW h \in Handler, WorkflowAccepts(h),
         UNCHANGED <<kind, status, starting>>, Accepted(h) \/ Answered(h)
  PROVE  Alone'
<1>0. call[h] \in Call /\ call[h].no \in Timer /\ call[h].no # Deadline
  BY KnownTypes DEF Call, WorkflowAccepts, RepeatInv, NumberInv, Numbered, Deadline
<1>1. PICK to \in Status : to = call[h].to
  BY <1>0, KnownTypes DEF WorkInv, Call, WorkflowAccepts
<1>2. /\ call[h].pc = "read" /\ execution = "running" /\ Valid(h) /\ call[h].seen = status
      /\ execution' = IF IsTerminal(config, to) THEN "closed" ELSE "running"
  BY <1>1 DEF WorkflowAccepts, Alone, Informed, Idle
<1>3. /\ \A t \in Timer \ {call[h].no} : timer'[t] = timer[t]
      /\ \/ timer'[call[h].no] = timer[call[h].no]
         \/ timer'[call[h].no].state = "sleeping" /\ timer'[call[h].no].from = to
      /\ ~IsTerminal(config, to) /\ Expires(to) =>
           timer'[call[h].no].state = "sleeping" /\ timer'[call[h].no].from = to
  BY <1>0, <1>1, KnownTypes DEF WorkflowAccepts, Expires
<1>4. (\A g \in Handler \ {h} : Idle(g)) /\ (\A t \in Timer : ~Active(t))
  BY <1>2 DEF Alone, Lone, Idle
<1>5. \A t \in Timer : Active(t)' => Active(t)
  BY <1>3, <1>4 DEF Active
<1>6. Lone' /\ Informed'
  BY <1>2, <1>5, LoneMoves DEF Alone
<1>7. ASSUME ~IsTerminal(config, to) PROVE Awake(status)' /\ Awake(to)'
  <2>1. Awake(status)
    BY <1>2, <1>4 DEF Alone, Minded, Running, Expiry
  <2>2. ~Expires(status)
    BY <1>1, <1>2, <1>7, EndsStay
  <2>3. Awake(status)'
    BY <2>1, <2>2 DEF Awake, Expires, config
  <2>4. Awake(to)'
    BY <1>0, <1>3, <1>7 DEF Awake, Expires, config, Expiry
  <2> QED
    BY <2>3, <2>4
<1>8. Minded'
  <2>1. \A g \in Handler : call'[g].pc = "accepted" => call'[g].to = to
    <3>1. \A g \in Handler \ {h} : call'[g] = call[g]
      BY KnownTypes DEF Accepted, Answered
    <3>2. call'[h].pc = "accepted" => call'[h].to = to
      BY <1>0, <1>1, KnownTypes DEF Accepted, Answered, NoCall, Call
    <3> QED
      BY <1>4, <3>1, <3>2 DEF Idle
  <2> QED
    BY <1>2, <1>7, <2>1 DEF Minded, Running
<1> QED
  BY <1>6, <1>8 DEF Alone

LEMMA AloneHandler ==
  ASSUME OrderlyEnds, Known, Alone, NEW h \in Handler, HandlerStep(h), ~contended'
  PROVE  Alone'
<1> USE DEF row, workflow, timers
<1>1. CASE \/ \E to \in StatusesOf(kind) \cap Requested, role \in Role : ReadForUpdate(h, to, role)
           \/ \E role \in Role : ReadForAssign(h, role)
  BY <1>1, AloneBegins DEF ReadForUpdate, ReadForAssign
<1>2. CASE UpdateAccepted(h) \/ UpdateReplyLost(h)
  BY <1>2, AloneAccepts DEF UpdateAccepted, UpdateReplyLost
\* A handler that answers without writing, or is let through without a workflow.
<1>3. ASSUME call[h].pc # "idle", UNCHANGED <<kind, status, starting, execution, timer>>,
             \/ Answered(h)
             \/ Accepted(h) /\ execution # "running"
      PROVE  Alone'
  <2>1. Lone' /\ Informed'
    BY <1>3, LoneMoves DEF Alone, Active
  <2>2. CASE Answered(h)
    <3>1. \A g \in Handler : call'[g].pc = "accepted" =>
                               call[g].pc = "accepted" /\ call'[g].to = call[g].to
      BY <2>2, KnownTypes DEF Answered, NoCall
    <3> QED
      BY <1>3, <2>1, <3>1, MindedKept DEF Alone, Running, Active
  <2>3. CASE Accepted(h) /\ execution # "running"
    BY <1>3, <2>1, <2>3 DEF Alone, Minded, Running
  <2> QED
    BY <1>3, <2>2, <2>3
<1>4. CASE UpdateRefused(h) \/ TemporalUnavailable(h) \/ validateHTTPFails(h) \/ ValidateHTTP(h)
           \/ WriteFails(h)
  BY <1>3, <1>4 DEF UpdateRefused, TemporalUnavailable, validateHTTPFails, ValidateHTTP,
                    isWorkflowNotFound, WriteFails
<1>5. CASE WriteRow(h)
  <2>1. /\ call[h].pc = "accepted" /\ status' = call[h].to /\ Answered(h)
        /\ UNCHANGED <<kind, starting, execution, timer>>
    BY <1>5 DEF WriteRow, UpdateRow
  <2>2. Lone' /\ Informed'
    BY <2>1, LoneMoves DEF Alone, Active
  <2>3. \A g \in Handler : call'[g].pc = "accepted" =>
                             call[g].pc = "accepted" /\ call'[g].to = call[g].to
    BY <2>1, KnownTypes DEF Answered, NoCall
  <2> QED
    BY <2>1, <2>2, <2>3, MindedKept DEF Alone, Running, Active
<1> QED
  BY <1>1, <1>2, <1>4, <1>5 DEF HandlerStep, WriteStatus, WriteAssign

\* An expiry at work excuses the workflow until it returns, and then the workflow ends.
LEMMA AloneTimer ==
  ASSUME Known, Alone, NEW t \in Timer, TimerStep(t) \/ (t = Deadline /\ NoticeCommits), ~contended'
  PROVE  Alone'
<1> USE DEF row, workflow, timers
<1>1. /\ UNCHANGED <<kind, starting, call>>
      /\ \A u \in Timer \ {t} : timer'[u] = timer[u]
      /\ execution' = execution \/ (t \in Expiry /\ execution' # "running")
  BY KnownTypes DEF TimerStep, TimerFires, ExpiryCommits, AttemptFails, AttemptDropped,
                    ActivityReturns, NoticeCommits, Expiry
<1>2. \/ Active(t) /\ (status' = status \/ t \in Expiry)
      \/ ~Busy /\ timer'[t].state = "scheduled" /\ status' = status
  <2>1. CASE TimerFires(t)
    <3>1. ~Busy
      BY <2>1 DEF TimerFires
    <3>2. timer'[t].state = "scheduled"
      BY <2>1, KnownTypes DEF TimerFires, TimerRecord
    <3> QED
      BY <2>1, <3>1, <3>2 DEF TimerFires
  <2>2. CASE ~TimerFires(t)
    BY <2>2 DEF TimerStep, ExpiryCommits, AttemptFails, AttemptDropped, ActivityReturns,
                NoticeCommits, Active, Expiry
  <2> QED
    BY <2>1, <2>2
<1>3. \A u \in Timer \ {t} : Active(u)' <=> Active(u)
  BY <1>1 DEF Active
<1>4. Lone' /\ Informed'
  BY <1>1, <1>2, <1>3, LoneTimers DEF Alone
<1>5. Minded'
  <2>1. CASE t \in Expiry
    <3>1. ~Running'
      <4>1. CASE TimerFires(t) \/ ExpiryCommits(t) \/ AttemptFails(t)
        <5>1. Active(t)'
          BY <4>1, KnownTypes DEF TimerFires, ExpiryCommits, AttemptFails, Active, TimerRecord
        <5> QED
          BY <2>1, <5>1 DEF Running
      <4>2. CASE AttemptDropped(t) \/ ActivityReturns(t)
        BY <2>1, <4>2 DEF AttemptDropped, ActivityReturns, Running, Expiry
      <4> QED
        BY <2>1, <4>1, <4>2 DEF TimerStep, Expiry
    <3> QED
      BY <3>1 DEF Minded
  <2>2. CASE t \notin Expiry
    <3>1. \A u \in Expiry : timer'[u] = timer[u]
      BY <1>1, <2>2, KnownTypes
    <3>2. UNCHANGED <<status, execution>>
      BY <1>1, <1>2, <2>2
    <3> QED
      BY <1>1, <3>1, <3>2, MindedKept DEF Alone, Running, Active
  <2> QED
    BY <2>1, <2>2
<1> QED
  BY <1>4, <1>5 DEF Alone

LEMMA AloneNext ==
  ASSUME OrderlyEnds, Known, AloneInv, [Next]_vars
  PROVE  AloneInv'
<1> SUFFICES ASSUME ~contended' PROVE Alone'
  BY DEF AloneInv
<1> USE DEF row, workflow, timers
<1>1. CASE UNCHANGED vars
  BY <1>1 DEF vars, AloneInv, Alone, Lone, Informed, Minded, Running, Awake, Idle, Active,
              Expires, config, InitialStatus
<1>2. CASE Creation
  <2>1. Alone
    BY <1>2 DEF Creation, Create, StartWorkflow, StartWorkflowFails, AloneInv
  <2> QED
    BY <1>2, <2>1, AloneCreation
<1>3. ASSUME NEW h \in Handler, HandlerStep(h) PROVE Alone'
  <2>1. Alone
    BY <1>3 DEF HandlerStep, ReadForUpdate, ReadForAssign, Begins, UpdateAccepted,
                UpdateReplyLost, UpdateRefused, TemporalUnavailable, validateHTTPFails,
                ValidateHTTP, WriteStatus, WriteAssign, WriteRow, WriteFails, AloneInv
  <2> QED
    BY <1>3, <2>1, AloneHandler
<1>4. ASSUME NEW t \in Timer, TimerStep(t) \/ (t = Deadline /\ NoticeCommits) PROVE Alone'
  <2>1. Alone
    BY <1>4 DEF TimerStep, TimerFires, ExpiryCommits, AttemptFails, AttemptDropped,
                ActivityReturns, NoticeCommits, AloneInv
  <2> QED
    BY <1>4, <2>1, AloneTimer
<1>5. CASE ExecutionStep
  <2>1. /\ UNCHANGED <<kind, status, starting, call, timer, contended>>
        /\ execution' = "running" => execution = "running"
    BY <1>5 DEF ExecutionStep, WithdrawSignal, ExecutionTimeout, Purge
  <2>2. Alone
    BY <2>1 DEF AloneInv
  <2>3. Lone' /\ Informed'
    BY <2>1, <2>2, LoneTimers DEF Alone, Active
  <2> QED
    BY <2>1, <2>2, <2>3, MindedKept DEF Alone, Running, Active
<1> QED
  BY <1>1, <1>2, <1>3, <1>4, <1>5, Constants DEF Next

\* Row and workflow, which are never changed together, agree whenever both rest, though
\* either may have failed to follow the other.
THEOREM RowAndWorkflowAgree == OrderlyEnds => (Spec => []SerialAgreement)
<1> SUFFICES ASSUME OrderlyEnds PROVE Spec => []SerialAgreement
  OBVIOUS
<1>1. Init => AloneInv
  BY AloneInit
<1>2. CaseInv /\ AloneInv /\ [Next]_vars => AloneInv'
  BY AloneNext DEF CaseInv
<1>3. CaseInv /\ AloneInv => SerialAgreement
  <2> SUFFICES ASSUME Known, SerialInv, Alone, ~contended, ~Busy, status # "none"
               PROVE  /\ execution = "running" =>
                           /\ ~IsTerminal(config, status)
                           /\ (kind = "permit" /\ AutoExpires(config, status)) =>
                                \E t \in Timer : timer[t].state = "sleeping" /\ timer[t].from = status
                      /\ (faults = 0 /\ ~withdrawn /\ ~IsTerminal(config, status)) =>
                           execution = "running"
    BY DEF CaseInv, AloneInv, SerialAgreement
  <2>1. /\ ~starting /\ (\A h \in Handler : call[h].pc # "accepted")
        /\ (\A t \in Timer : ~Active(t)) /\ Expiry \subseteq Timer
    BY DEF Busy, Active, Expiry
  <2>2. execution = "running" => Awake(status)
    BY <2>1 DEF Alone, Minded, Running
  <2>3. ASSUME faults = 0, ~withdrawn PROVE execution = "running" <=> ~IsTerminal(config, status)
    <3>1. Serial
      BY <2>3 DEF SerialInv, Undisturbed
    <3>2. Agrees(status) /\ ~Ending
      BY <2>1, <3>1, RestHeading DEF Ending, Active
    <3> QED
      BY <2>3, <3>2 DEF Agrees
  <2> QED
    BY <2>1, <2>2, <2>3 DEF Awake, Expires
<1> QED
  BY <1>1, <1>2, <1>3, CaseInductive, PTL DEF Spec

-----------------------------------------------------------------------------
(* The end.                                                                  *)

LEMMA EndStays ==
  ASSUME OrderlyEnds, Known, Ended, [Next]_vars
  PROVE  Ended'
<1> USE DEF row, workflow, timers
<1>1. CASE UNCHANGED vars
  BY <1>1 DEF vars, Ended, config
<1>2. status # "none"
  <2>1. IsTerminal(config, status) => status \in StatusesOf(kind)
    BY DEF IsTerminal, StatusesOf, config
  <2> QED
    BY <2>1, KnownTypes, Constants DEF Ended
<1>3. ASSUME UNCHANGED <<kind, status, starting, call>>, execution' = "running" => execution = "running",
             \A t \in Timer : Active(t)' => Active(t)
      PROVE  Ended'
  BY <1>3 DEF Ended, Active, config
<1>4. CASE Creation
  BY <1>2, <1>4 DEF Creation, Create, StartWorkflow, StartWorkflowFails, Ended
<1>5. ASSUME NEW t \in Timer, TimerStep(t) \/ (t = Deadline /\ NoticeCommits) PROVE Ended'
  BY <1>5 DEF TimerStep, TimerFires, ExpiryCommits, AttemptFails, AttemptDropped,
              ActivityReturns, NoticeCommits, Ended
<1>6. CASE ExecutionStep
  BY <1>3, <1>6 DEF ExecutionStep, WithdrawSignal, ExecutionTimeout, Purge, Active
<1>7. ASSUME NEW h \in Handler, UNCHANGED <<kind, starting, execution, timer>>,
             IsTerminal(config, status'), \A g \in Handler \ {h} : call'[g] = call[g],
             call'[h].pc = "idle" \/ IsTerminal(config, call'[h].seen)
      PROVE  Ended'
  BY <1>7 DEF Ended, config
<1>8. ASSUME NEW h \in Handler, HandlerStep(h) PROVE Ended'
  <2>1. CASE \/ \E to \in StatusesOf(kind) \cap Requested, role \in Role : ReadForUpdate(h, to, role)
             \/ \E role \in Role : ReadForAssign(h, role)
    <3>1. /\ UNCHANGED <<kind, status, starting, execution, timer>> /\ call'[h].seen = status
          /\ \A g \in Handler \ {h} : call'[g] = call[g]
      BY <2>1, KnownTypes DEF ReadForUpdate, ReadForAssign, Begins
    <3> QED
      BY <1>7, <3>1 DEF Ended
  <2>2. CASE UpdateAccepted(h) \/ UpdateReplyLost(h)
    BY <2>2 DEF UpdateAccepted, UpdateReplyLost, WorkflowAccepts, Ended
  <2>3. ASSUME call[h].pc # "idle", Accepted(h) \/ Answered(h)
        PROVE  /\ \A g \in Handler \ {h} : call'[g] = call[g]
               /\ call'[h].pc = "idle" \/ IsTerminal(config, call'[h].seen)
               /\ IsTerminal(config, call[h].seen)
    BY <2>3, KnownTypes DEF Accepted, Answered, NoCall, Ended, Call
  <2>4. CASE UpdateRefused(h) \/ TemporalUnavailable(h) \/ validateHTTPFails(h) \/ ValidateHTTP(h)
             \/ WriteFails(h)
    <3>1. /\ call[h].pc # "idle" /\ (Accepted(h) \/ Answered(h))
          /\ UNCHANGED <<kind, status, starting, execution, timer>>
      BY <2>4 DEF UpdateRefused, TemporalUnavailable, validateHTTPFails, ValidateHTTP, WriteFails
    <3> QED
      BY <1>7, <2>3, <3>1 DEF Ended
  <2>5. CASE WriteRow(h)
    <3>1. /\ call[h].pc = "accepted" /\ Answered(h) /\ status' = call[h].to
          /\ UNCHANGED <<kind, starting, execution, timer>>
      BY <2>5 DEF WriteRow, UpdateRow
    <3>2. Valid(h) /\ IsTerminal(config, call[h].seen)
      BY <2>3, <3>1, KnownTypes DEF WorkInv
    <3>3. IsTerminal(config, call[h].to)
      BY <3>2, EndsStay
    <3> QED
      BY <1>7, <2>3, <3>1, <3>3
  <2> QED
    BY <1>8, <2>1, <2>2, <2>4, <2>5 DEF HandlerStep, WriteStatus, WriteAssign
<1> QED
  BY <1>1, <1>4, <1>5, <1>6, <1>8, Constants DEF Next

\* A case that has ended stays so, whatever failed and overlapped before: the timers it
\* leaves asleep are the past's, and nobody who comes later finds a way back.
THEOREM EndsAreFinal == OrderlyEnds => (Spec => EndedForGood)
<1> SUFFICES ASSUME OrderlyEnds PROVE Spec => EndedForGood
  OBVIOUS
<1>1. CaseInv /\ [Next]_vars => [Ended => Ended']_vars
  BY EndStays DEF CaseInv
<1> QED
  BY <1>1, CaseInductive, PTL DEF Spec, EndedForGood

-----------------------------------------------------------------------------
(* The ledger.                                                               *)

\* Some event of the case announced status s.
Had(s) == \E i \in DOMAIN announced : announced[i].to = s

\* A request at work has read a status the case has had.
ReadInv ==
  \A h \in Handler : ~Idle(h) => Had(call[h].seen) /\ call[h].role \in Role

LEMMA HadStatus ==
  ASSUME TypeOK, LastStatus, status # "none"
  PROVE  Had(status)
<1>1. announced # <<>> /\ status = announced[Len(announced)].to
  BY DEF LastStatus
<1>2. Len(announced) \in DOMAIN announced
  BY <1>1 DEF TypeOK
<1> QED
  BY <1>1, <1>2 DEF Had

\* Events are never taken back.
LEMMA HadKept ==
  ASSUME Known, LastStatus, [Next]_vars, NEW s, Had(s)
  PROVE  Had(s)'
<1>1. PICK i \in DOMAIN announced : announced[i].to = s
  BY DEF Had
<1>2. CASE UNCHANGED announced
  BY <1>1, <1>2 DEF Had
<1>3. CASE status = "none"
  BY <1>1, <1>3, NoRowNoEvents DEF Known
<1>4. ASSUME NEW e, Wrote(e) PROVE Had(s)'
  <2>1. i \in DOMAIN announced' /\ announced'[i] = announced[i]
    BY <1>1, <1>4, Appended DEF Wrote, Known
  <2> QED
    BY <1>1, <2>1 DEF Had
<1> QED
  BY <1>2, <1>3, <1>4, Writes DEF Known

\* A handler at work after a step was at work before, or has just read the row.
LEMMA WorkBefore ==
  ASSUME TypeOK, [Next]_vars, NEW h \in Handler, ~Idle(h)'
  PROVE  \/ ~Idle(h) /\ call'[h].seen = call[h].seen /\ call'[h].role = call[h].role
         \/ call'[h].seen = status /\ call'[h].role \in Role /\ status # "none"
<1> DEFINE Same == ~Idle(h) /\ call'[h].seen = call[h].seen /\ call'[h].role = call[h].role
           Fresh == call'[h].seen = status /\ call'[h].role \in Role /\ status # "none"
<1> SUFFICES Same \/ Fresh
  OBVIOUS
<1>1. call \in [Handler -> Call]
  BY DEF TypeOK
<1>2. CASE UNCHANGED call
  BY <1>2 DEF Idle
<1>3. ASSUME NEW g \in Handler, Accepted(g), call[g].pc = "read" PROVE Same
  BY <1>1, <1>3 DEF Accepted, Idle, Call
<1>4. ASSUME NEW g \in Handler, Answered(g) PROVE Same
  BY <1>1, <1>4 DEF Answered, Idle, NoCall
<1>5. ASSUME NEW g \in Handler, NEW to, NEW role \in Role, NEW op, Begins(g, to, role, op)
      PROVE  Same \/ Fresh
  <2>1. CASE g = h
    BY <1>1, <1>5, <2>1 DEF Begins
  <2>2. CASE g # h
    BY <1>1, <1>5, <2>2 DEF Begins, Idle
  <2> QED
    BY <2>1, <2>2
<1> HIDE DEF Same, Fresh
<1>6. ASSUME NEW g \in Handler, HandlerStep(g) PROVE Same \/ Fresh
  <2>1. CASE \/ \E to \in StatusesOf(kind) \cap Requested, role \in Role : ReadForUpdate(g, to, role)
             \/ \E role \in Role : ReadForAssign(g, role)
    BY <1>5, <2>1 DEF ReadForUpdate, ReadForAssign
  <2>2. CASE UpdateAccepted(g) \/ ValidateHTTP(g)
    BY <1>3, <1>4, <2>2 DEF UpdateAccepted, WorkflowAccepts, ValidateHTTP
  <2>3. CASE \/ UpdateReplyLost(g) \/ UpdateRefused(g) \/ TemporalUnavailable(g)
             \/ validateHTTPFails(g) \/ WriteStatus(g) \/ WriteAssign(g) \/ WriteFails(g)
    BY <1>4, <2>3 DEF UpdateReplyLost, UpdateRefused, TemporalUnavailable, validateHTTPFails,
                      WriteStatus, WriteAssign, WriteRow, WriteFails
  <2> QED
    BY <1>6, <2>1, <2>2, <2>3 DEF HandlerStep
<1>7. CASE Creation \/ NoticeCommits \/ ExecutionStep \/ UNCHANGED vars
  BY <1>2, <1>7 DEF Creation, Create, StartWorkflow, StartWorkflowFails, NoticeCommits,
                    ExecutionStep, WithdrawSignal, ExecutionTimeout, Purge, vars
<1>8. ASSUME NEW t \in Timer, TimerStep(t) PROVE Same \/ Fresh
  BY <1>2, <1>8 DEF TimerStep, TimerFires, ExpiryCommits, AttemptFails, AttemptDropped,
                    ActivityReturns
<1> QED
  BY <1>6, <1>7, <1>8 DEF Next

LEMMA ReadNext ==
  ASSUME Known, LastStatus, ReadInv, [Next]_vars
  PROVE  ReadInv'
<1> SUFFICES ASSUME NEW h \in Handler, ~Idle(h)' PROVE Had(call[h].seen)' /\ call'[h].role \in Role
  BY DEF ReadInv
<1>1. \/ ~Idle(h) /\ call'[h].seen = call[h].seen /\ call'[h].role = call[h].role
      \/ call'[h].seen = status /\ call'[h].role \in Role /\ status # "none"
  BY WorkBefore DEF Known
<1>2. PICK s : s = call'[h].seen
  OBVIOUS
<1>3. Had(s) /\ call'[h].role \in Role
  BY <1>1, <1>2, HadStatus DEF ReadInv, Known
<1>4. Had(s)'
  BY <1>3, HadKept
<1>5. Had(call[h].seen)'
  BY <1>2, <1>4 DEF Had
<1> QED
  BY <1>3, <1>5

\* A transition that is allowed is one of the configuration's, for both modules.
LEMMA AllowedEntry ==
  ASSUME NEW c, NEW from, NEW to, NEW role, ValidateTransition(c, from, to, role)
  PROVE  /\ \E e \in Ledger!Entries(c.transitions) : e.from = from /\ e.to = to
         /\ Ledger!ValidateTransition(c, from, to, role)
BY DEF ValidateTransition, Ledger!ValidateTransition, Ledger!Entries

\* A request that writes changes the ledger.
LEMMA WriteLedger ==
  ASSUME Known, SerialInv, ReadInv, NEW h \in Handler, WriteRow(h), Valid(h)
  PROVE  Ledger!Next
<1> DEFINE no == call[h].no
<1>1. /\ call[h].op \in {"update", "assign"} /\ call[h].role \in Role /\ no \in Timer
      /\ Had(call[h].seen) /\ status # "none"
  BY DEF ReadInv, Idle, WriteRow, UpdateRow, Known, WorkInv, TypeOK, Call
<1>2. call[h].seen = status \/ (contended \/ faults > 0)
  <2>1. faults \in Nat /\ contended \in BOOLEAN
    BY DEF Known, TypeOK
  <2>2. CASE Undisturbed
    BY <2>2 DEF SerialInv, Serial, Current, Idle, WriteRow
  <2>3. CASE ~Undisturbed
    BY <2>1, <2>3 DEF Undisturbed
  <2> QED
    BY <2>2, <2>3
<1>3. RequestEvents(no) = {}
  BY DEF Known, RepeatInv, NumberInv, Numbered, WriteRow
<1>4. \A i \in DOMAIN announced : announced[i].op \in {"update", "assign"} => announced[i].by # no
  BY <1>3 DEF RequestEvents, Changes
<1>5. PICK e \in Ledger!Entries(Config[kind].transitions) :
        e.from = call[h].seen /\ e.to = call[h].to
  BY AllowedEntry DEF Valid, config
<1>6. Ledger!Announce(e, call[h].op, call[h].role, no)
  BY <1>5, AllowedEntry DEF Ledger!Announce, Ledger!Event, WriteRow, Event, Valid, config
<1>7. Ledger!Along(e)
  BY <1>1, <1>2, <1>5 DEF Ledger!Along, WriteRow, UpdateRow
<1>8. Ledger!Change(e)
  BY <1>1, <1>4, <1>5, <1>6, <1>7 DEF Ledger!Change, Had
<1> QED
  BY <1>5, <1>8 DEF Ledger!Next

LEMMA ExpiryLedger ==
  ASSUME ExpiryAllowed, Known, SerialInv, NEW t \in Timer, ExpiryCommits(t),
         kind = "permit", timer[t].from \in Status, AutoExpires(config, timer[t].from)
  PROVE  Ledger!Next
<1>1. status # "none"
  BY DEF ExpiryCommits, Known, Blank
<1>2. timer[t].from = status \/ (contended \/ faults > 0)
  <2>1. faults \in Nat /\ contended \in BOOLEAN
    BY DEF Known, TypeOK
  <2>2. CASE Undisturbed
    BY <2>2 DEF SerialInv, Serial, Current, ExpiryCommits, Expiry
  <2>3. CASE ~Undisturbed
    BY <2>1, <2>3 DEF Undisturbed
  <2> QED
    BY <2>2, <2>3
<1>3. ValidateTransition(Config[kind], timer[t].from, "expired", "system")
  BY DEF ExpiryAllowed, config, Known, TypeOK
<1>4. PICK e \in Ledger!Entries(Config[kind].transitions) :
        e.from = timer[t].from /\ e.to = "expired"
  BY <1>3, AllowedEntry
<1>5. Ledger!Announce(e, "expire", "system", t)
  BY <1>3, <1>4, AllowedEntry DEF Ledger!Announce, Ledger!Event, ExpiryCommits, Event
<1>6. Ledger!Along(e)
  BY <1>1, <1>2, <1>4 DEF Ledger!Along, ExpiryCommits
<1>7. Ledger!Expire(e)
  BY <1>4, <1>5, <1>6 DEF Ledger!Expire
<1> QED
  BY <1>4, <1>7 DEF Ledger!Next

\* Each step is one of the ledger, or does not show in it.
LEMMA LedgerNext ==
  ASSUME ExpiryAllowed, Known, LastStatus, SerialInv, ReadInv, [Next]_vars
  PROVE  [Ledger!Next]_(Ledger!ledger)
<1>1. contended \in BOOLEAN /\ contended' \in BOOLEAN /\ faults \in Nat /\ faults' \in Nat
  BY TypeNext DEF Known, TypeOK
<1>2. CASE UNCHANGED <<kind, status, announced>>
  <2>1. CASE Undisturbed'
    <3>1. Undisturbed
      BY <2>1, DisturbedForGood DEF Known
    <3>2. UNCHANGED <<contended, faults>>
      BY <1>1, <2>1, <3>1 DEF Undisturbed
    <3> QED
      BY <1>2, <3>2 DEF Ledger!ledger
  <2>2. CASE ~Undisturbed'
    <3>1. (contended \/ faults > 0)' = TRUE
      BY <1>1, <2>2 DEF Undisturbed
    <3> QED
      BY <1>2, <3>1 DEF Ledger!Next, Ledger!Disturb
  <2> QED
    BY <2>1, <2>2
<1>3. CASE Create
  BY <1>3 DEF Ledger!Next, Ledger!Create, Ledger!Event, Create, Event, InitialStatus, config
<1>4. ASSUME NEW h \in Handler, WriteRow(h), Valid(h) PROVE Ledger!Next
  BY <1>4, WriteLedger
<1>5. ASSUME NEW t \in Timer, ExpiryCommits(t), kind = "permit", timer[t].from \in Status,
             AutoExpires(config, timer[t].from)
      PROVE  Ledger!Next
  BY <1>5, ExpiryLedger
<1> QED
  BY <1>2, <1>3, <1>4, <1>5, Writes DEF Known

\* Handlers that hold no lock, a workflow that keeps no status and activities that are
\* retried keep the ledger of module CaseLedger, for every configuration that lets the system
\* expire what expires and that ends in an orderly way.
THEOREM CaseImplementsLedger == ExpiryAllowed /\ OrderlyEnds => (Spec => ImplementsLedger)
<1> SUFFICES ASSUME ExpiryAllowed, OrderlyEnds PROVE Spec => ImplementsLedger
  OBVIOUS
<1>1. Init => Ledger!Init /\ ReadInv
  BY DEF Init, Ledger!Init, ReadInv, Idle, NoCall
<1>2. CaseInv /\ ReadInv /\ [Next]_vars => ReadInv' /\ [Ledger!Next]_(Ledger!ledger)
  BY ReadNext, LedgerNext DEF CaseInv
<1> QED
  BY <1>1, <1>2, CaseInductive, PTL DEF Spec, ImplementsLedger, Ledger!Spec

-----------------------------------------------------------------------------
(* The configurations that are shipped.                                      *)

\* What their files say of each status ...
LEMMA ShippedStatuses ==
  /\ \A s : IsTerminal(permits, s) <=> s \in {"rejected", "expired"}
  /\ \A s : AutoExpires(permits, s) <=> s = "approved"
  /\ \A s : IsTerminal(serviceRequests, s) <=> s \in {"resolved", "closed"}
  /\ \A s : IsTerminal(foiaRequests, s) <=> s \in {"fulfilled", "denied", "withdrawn"}
<1>1. /\ DOMAIN permits.statuses = 1..5
      /\ DOMAIN serviceRequests.statuses = 1..5
      /\ DOMAIN foiaRequests.statuses = 1..6
  BY DEF permits, serviceRequests, foiaRequests
<1>2. \A s : AutoExpires(permits, s) <=> s = "approved"
  BY <1>1 DEF AutoExpires, Entries, permits, Resting, Final, Expiring
<1>3. \A s : IsTerminal(permits, s) <=> s \in {"rejected", "expired"}
  BY <1>1 DEF IsTerminal, Entries, permits, Resting, Final, Expiring
<1>4. \A s : IsTerminal(serviceRequests, s) <=> s \in {"resolved", "closed"}
  BY <1>1 DEF IsTerminal, Entries, serviceRequests, Resting, Final, Expiring
<1>5. \A s : IsTerminal(foiaRequests, s) <=> s \in {"fulfilled", "denied", "withdrawn"}
  BY <1>1 DEF IsTerminal, Entries, foiaRequests, Resting, Final, Expiring
<1> QED
  BY <1>2, <1>3, <1>4, <1>5

\* ... and where they lead from a status that is terminal, or expires.
LEMMA ShippedTransitions ==
  /\ \A i \in DOMAIN permits.transitions :
       LET e == permits.transitions[i]
       IN  /\ e.from \notin {"rejected", "expired"}
           /\ e.from = "approved" => e.to = "expired" /\ "system" \in e.roles
  /\ \A i \in DOMAIN serviceRequests.transitions :
       LET e == serviceRequests.transitions[i]
       IN  e.from \in {"resolved", "closed"} => e.to = "closed"
  /\ \A i \in DOMAIN foiaRequests.transitions :
       foiaRequests.transitions[i].from \notin {"fulfilled", "denied", "withdrawn"}
<1>1. /\ DOMAIN permits.transitions = 1..4
      /\ DOMAIN serviceRequests.transitions = 1..5
      /\ DOMAIN foiaRequests.transitions = 1..7
  BY DEF permits, serviceRequests, foiaRequests
<1>2. \A i \in DOMAIN permits.transitions :
        LET e == permits.transitions[i]
        IN  /\ e.from \notin {"rejected", "expired"}
            /\ e.from = "approved" => e.to = "expired" /\ "system" \in e.roles
  BY <1>1 DEF permits, Edge
<1>3. \A i \in DOMAIN serviceRequests.transitions :
        LET e == serviceRequests.transitions[i]
        IN  e.from \in {"resolved", "closed"} => e.to = "closed"
  BY <1>1 DEF serviceRequests, Edge
<1>4. \A i \in DOMAIN foiaRequests.transitions :
        foiaRequests.transitions[i].from \notin {"fulfilled", "denied", "withdrawn"}
  BY <1>1 DEF foiaRequests, Edge
<1> QED
  BY <1>2, <1>3, <1>4

\* The configurations of config/workflows satisfy what the theorems on cases ask of one.
THEOREM ShippedWorkflows == Config = LoadWorkflows => ExpiryAllowed /\ OrderlyEnds
<1> SUFFICES ASSUME Config = LoadWorkflows PROVE ExpiryAllowed /\ OrderlyEnds
  OBVIOUS
<1>1. /\ Config["permit"] = permits /\ Config["service_request"] = serviceRequests
      /\ Config["foia_request"] = foiaRequests
  BY DEF LoadWorkflows
<1>2. /\ permits.initial = "submitted" /\ serviceRequests.initial = "open"
      /\ foiaRequests.initial = "received"
  BY DEF permits, serviceRequests, foiaRequests
<1>3. ExpiryAllowed
  <2>1. 4 \in DOMAIN permits.transitions /\ permits.transitions[4].from = "approved"
        /\ \A i \in DOMAIN permits.transitions :
             permits.transitions[i].from = "approved" => i = 4
    BY DEF permits, Edge
  <2>2. permits.transitions[4].to = "expired" /\ "system" \in permits.transitions[4].roles
    BY <2>1, ShippedTransitions
  <2>3. ValidateTransition(permits, "approved", "expired", "system")
    BY <2>1, <2>2 DEF ValidateTransition
  <2> QED
    BY <1>1, <2>3, ShippedStatuses DEF ExpiryAllowed
<1>4. OrderlyEnds
  <2> SUFFICES ASSUME NEW k \in Kind
               PROVE  LET c == Config[k]
                          Over(s) == IsTerminal(c, s) \/ (k = "permit" /\ AutoExpires(c, s))
                      IN  /\ ~Over(c.initial)
                          /\ k = "permit" => IsTerminal(c, "expired")
                          /\ \A s \in Status :
                               (k = "permit" /\ AutoExpires(c, s)) => ~IsTerminal(c, s)
                          /\ \A i \in DOMAIN c.transitions :
                               Over(c.transitions[i].from) => IsTerminal(c, c.transitions[i].to)
    BY DEF OrderlyEnds
  <2>1. CASE k = "permit"
    BY <1>1, <1>2, <2>1, ShippedStatuses, ShippedTransitions
  <2>2. CASE k = "service_request"
    BY <1>1, <1>2, <2>2, ShippedStatuses, ShippedTransitions
  <2>3. CASE k = "foia_request"
    BY <1>1, <1>2, <2>3, ShippedStatuses, ShippedTransitions
  <2> QED
    BY <2>1, <2>2, <2>3, CaseAssumption
<1> QED
  BY <1>3, <1>4

\* With them every case keeps the ledger and its end, one left to itself is a path, and row and
\* workflow agree, for any handlers, roles, attempts and failures.
THEOREM ShippedCases ==
  Config = LoadWorkflows =>
    (Spec => ImplementsLedger /\ EndedForGood /\ [](SerialHistory /\ SerialAgreement))
<1> SUFFICES ASSUME Config = LoadWorkflows
             PROVE  Spec => ImplementsLedger /\ EndedForGood /\ [](SerialHistory /\ SerialAgreement)
  OBVIOUS
<1>1. ExpiryAllowed /\ OrderlyEnds
  BY ShippedWorkflows
<1>2. (Spec => ImplementsLedger) /\ (Spec => EndedForGood)
  BY <1>1, CaseImplementsLedger, EndsAreFinal
<1>3. (Spec => []SerialHistory) /\ (Spec => []SerialAgreement)
  BY <1>1, SerialCases, RowAndWorkflowAgree
<1> QED
  BY <1>2, <1>3, PTL

=============================================================================
