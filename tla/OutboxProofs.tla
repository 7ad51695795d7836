---------------------------- MODULE OutboxProofs ----------------------------
(***************************************************************************)
(* What the transactional outbox guarantees for every set of events, every *)
(* number of pollers, every batch size and every number of failed drains.  *)
(***************************************************************************)
EXTENDS Outbox, TLAPS

-----------------------------------------------------------------------------
(* Type correctness.                                                         *)

LEMMA TypeInit == Init => TypeOK
BY DEF Init, TypeOK, TxState

LEMMA TypeStep == TypeOK /\ [Next]_vars => TypeOK'
<1> SUFFICES ASSUME TypeOK, [Next]_vars PROVE TypeOK'
  OBVIOUS
<1> USE DEF TypeOK, TxState
<1>1. ASSUME NEW e \in Event, BeginTx(e) PROVE TypeOK'
  BY <1>1 DEF BeginTx
<1>2. ASSUME NEW e \in Event, PublishTx(e) PROVE TypeOK'
  BY <1>2 DEF PublishTx
<1>3. ASSUME NEW e \in Event, CommitTx(e) PROVE TypeOK'
  BY <1>3 DEF CommitTx
<1>4. ASSUME NEW e \in Event, RollbackTx(e) PROVE TypeOK'
  BY <1>4 DEF RollbackTx
<1>5. ASSUME NEW r \in Replica, DrainBegin(r) PROVE TypeOK'
  <2>1. PICK B \in Selections(outbox \ Locked) : batch' = [batch EXCEPT ![r] = B]
    BY <1>5 DEF DrainBegin
  <2>2. B \subseteq Event
    BY <2>1 DEF Selections
  <2> QED
    BY <1>5, <2>1, <2>2 DEF DrainBegin
<1>6. ASSUME NEW r \in Replica, DrainCommit(r) PROVE TypeOK'
  BY <1>6 DEF DrainCommit
<1>7. ASSUME NEW r \in Replica, DrainAbort(r) PROVE TypeOK'
  BY <1>7, OutboxAssumption DEF DrainAbort
<1>8. ASSUME NEW r \in Replica, NEW e \in Event, PublishNext(r, e) PROVE TypeOK'
  BY <1>8 DEF PublishNext, Oldest
<1>9. CASE UNCHANGED vars
  BY <1>9 DEF vars
<1> QED
  BY <1>1, <1>2, <1>3, <1>4, <1>5, <1>6, <1>7, <1>8, <1>9 DEF Next

\* The state keeps its types through every interleaving of handlers and pollers.
THEOREM TypeCorrect == Spec => []TypeOK
BY TypeInit, TypeStep, PTL DEF Spec

-----------------------------------------------------------------------------
(* The inductive invariant.  NoLostEvent and NoPhantomEvent are not inductive *)
(* alone: a drain's commit deletes sent[r], so one must know that what it     *)
(* deletes was published and that what it publishes was committed (DrainInv). *)
(* DuplicatesNeedFaults needs to know which publications an abort will repeat *)
(* (FaultBudget).                                                             *)

IInv == TypeOK /\ DrainInv /\ NoLostEvent /\ NoPhantomEvent /\ FaultBudget

LEMMA IInvInit == Init => IInv
BY TypeInit DEF IInv, Init, DrainInv, NoLostEvent, NoPhantomEvent, FaultBudget,
                Committed, Deleted

LEMMA DrainStep == IInv /\ [Next]_vars => DrainInv'
<1> SUFFICES ASSUME IInv, [Next]_vars PROVE DrainInv'
  OBVIOUS
<1> USE DEF IInv, TypeOK, DrainInv, Committed, TxState
<1>1. ASSUME NEW e \in Event, BeginTx(e) PROVE DrainInv'
  BY <1>1 DEF BeginTx
<1>2. ASSUME NEW e \in Event, PublishTx(e) PROVE DrainInv'
  BY <1>2 DEF PublishTx
<1>3. ASSUME NEW e \in Event, CommitTx(e) PROVE DrainInv'
  BY <1>3 DEF CommitTx
<1>4. ASSUME NEW e \in Event, RollbackTx(e) PROVE DrainInv'
  BY <1>4 DEF RollbackTx
<1>5. ASSUME NEW r \in Replica, DrainBegin(r) PROVE DrainInv'
  <2>1. PICK B \in Selections(outbox \ Locked) : batch' = [batch EXCEPT ![r] = B]
    BY <1>5 DEF DrainBegin
  <2>2. B \subseteq outbox /\ \A s \in Replica : B \cap batch[s] = {}
    BY <2>1 DEF Selections, Locked
  <2> QED
    BY <1>5, <2>1, <2>2 DEF DrainBegin
<1>6. ASSUME NEW r \in Replica, DrainCommit(r) PROVE DrainInv'
  BY <1>6 DEF DrainCommit
<1>7. ASSUME NEW r \in Replica, DrainAbort(r) PROVE DrainInv'
  BY <1>7 DEF DrainAbort
<1>8. ASSUME NEW r \in Replica, NEW e \in Event, PublishNext(r, e) PROVE DrainInv'
  BY <1>8 DEF PublishNext, Oldest
<1>9. CASE UNCHANGED vars
  BY <1>9 DEF vars
<1> QED
  BY <1>1, <1>2, <1>3, <1>4, <1>5, <1>6, <1>7, <1>8, <1>9 DEF Next

LEMMA DeliveryStep ==
  IInv /\ [Next]_vars => NoLostEvent' /\ NoPhantomEvent'
<1> SUFFICES ASSUME IInv, [Next]_vars PROVE NoLostEvent' /\ NoPhantomEvent'
  OBVIOUS
<1> USE DEF IInv, TypeOK, NoLostEvent, NoPhantomEvent, Committed, TxState
<1>1. ASSUME NEW e \in Event, BeginTx(e) PROVE NoLostEvent' /\ NoPhantomEvent'
  BY <1>1 DEF BeginTx
<1>2. ASSUME NEW e \in Event, PublishTx(e) PROVE NoLostEvent' /\ NoPhantomEvent'
  BY <1>2 DEF PublishTx
<1>3. ASSUME NEW e \in Event, CommitTx(e) PROVE NoLostEvent' /\ NoPhantomEvent'
  BY <1>3 DEF CommitTx
<1>4. ASSUME NEW e \in Event, RollbackTx(e) PROVE NoLostEvent' /\ NoPhantomEvent'
  BY <1>4 DEF RollbackTx
<1>5. ASSUME NEW r \in Replica, DrainBegin(r) PROVE NoLostEvent' /\ NoPhantomEvent'
  BY <1>5 DEF DrainBegin
<1>6. ASSUME NEW r \in Replica, DrainCommit(r) PROVE NoLostEvent' /\ NoPhantomEvent'
  BY <1>6 DEF DrainCommit, DrainInv
<1>7. ASSUME NEW r \in Replica, DrainAbort(r) PROVE NoLostEvent' /\ NoPhantomEvent'
  BY <1>7 DEF DrainAbort
<1>8. ASSUME NEW r \in Replica, NEW e \in Event, PublishNext(r, e)
      PROVE NoLostEvent' /\ NoPhantomEvent'
  <2>1. e \in outbox
    BY <1>8 DEF PublishNext, Oldest, DrainInv
  <2> QED
    BY <1>8, <2>1 DEF PublishNext, DrainInv
<1>9. CASE UNCHANGED vars
  BY <1>9 DEF vars
<1> QED
  BY <1>1, <1>2, <1>3, <1>4, <1>5, <1>6, <1>7, <1>8, <1>9 DEF Next

LEMMA BudgetStep == IInv /\ [Next]_vars => FaultBudget'
<1> SUFFICES ASSUME IInv, [Next]_vars PROVE FaultBudget'
  OBVIOUS
<1> USE DEF IInv, TypeOK, FaultBudget, Deleted, TxState
<1>1. ASSUME NEW e \in Event, BeginTx(e) PROVE FaultBudget'
  BY <1>1 DEF BeginTx
<1>2. ASSUME NEW e \in Event, PublishTx(e) PROVE FaultBudget'
  BY <1>2 DEF PublishTx
<1>3. ASSUME NEW e \in Event, CommitTx(e) PROVE FaultBudget'
  <2>1. published[e] = 0
    BY <1>3 DEF CommitTx, NoPhantomEvent, Committed
  <2> QED
    BY <1>3, <2>1 DEF CommitTx
<1>4. ASSUME NEW e \in Event, RollbackTx(e) PROVE FaultBudget'
  BY <1>4 DEF RollbackTx
<1>5. ASSUME NEW r \in Replica, DrainBegin(r) PROVE FaultBudget'
  BY <1>5 DEF DrainBegin
<1>6. ASSUME NEW r \in Replica, DrainCommit(r) PROVE FaultBudget'
  BY <1>6 DEF DrainCommit
<1>7. ASSUME NEW r \in Replica, DrainAbort(r) PROVE FaultBudget'
  BY <1>7 DEF DrainAbort
<1>8. ASSUME NEW r \in Replica, NEW e \in Event, PublishNext(r, e) PROVE FaultBudget'
  <2>1. e \in outbox /\ e \notin UNION {sent[s] : s \in Replica}
    BY <1>8 DEF PublishNext, Oldest, DrainInv
  <2>2. published[e] <= faults
    BY <2>1
  <2>3. \A f \in Event : f # e => published'[f] = published[f]
    BY <1>8 DEF PublishNext
  <2>4. UNION {sent'[s] : s \in Replica} = {e} \cup UNION {sent[s] : s \in Replica}
    BY <1>8 DEF PublishNext
  <2> QED
    BY <1>8, <2>1, <2>2, <2>3, <2>4 DEF PublishNext
<1>9. CASE UNCHANGED vars
  BY <1>9 DEF vars
<1> QED
  BY <1>1, <1>2, <1>3, <1>4, <1>5, <1>6, <1>7, <1>8, <1>9 DEF Next

LEMMA IInvHolds == Spec => []IInv
<1>1. IInv /\ [Next]_vars => IInv'
  BY TypeStep, DrainStep, DeliveryStep, BudgetStep DEF IInv
<1> QED
  BY IInvInit, <1>1, PTL DEF Spec

\* No committed change is ever without its event: neither a failed drain, nor a
\* crash of a poller, nor a commit of some other poller can lose it.
THEOREM EventNeverLost == Spec => []NoLostEvent
<1>1. IInv => NoLostEvent
  BY DEF IInv
<1> QED
  BY <1>1, IInvHolds, PTL

\* Nothing is published for a transaction that has not committed.
THEOREM EventNeverPhantom == Spec => []NoPhantomEvent
<1>1. IInv => NoPhantomEvent
  BY DEF IInv
<1> QED
  BY <1>1, IInvHolds, PTL

\* No two drains ever hold the same row, and what a drain deletes it has published.
THEOREM DrainsDisjoint == Spec => []DrainInv
<1>1. IInv => DrainInv
  BY DEF IInv
<1> QED
  BY <1>1, IInvHolds, PTL

\* An envelope is published at most once more than drains have failed.
THEOREM DuplicatesBounded == Spec => []DuplicatesNeedFaults
<1>1. IInv => DuplicatesNeedFaults
  BY DEF IInv, TypeOK, FaultBudget, DuplicatesNeedFaults
<1> QED
  BY <1>1, IInvHolds, PTL

-----------------------------------------------------------------------------
(* Order.  While a single poller drains, a drain that finds f also finds every *)
(* older row that was visible before, because it selects by created_at and no *)
(* other drain can be holding one back (every holder is in pollers, DrainInv); *)
(* so what precedes a row of the batch is in the batch before it, or was       *)
(* published already (BatchOrder).                                            *)

SinglePoller == \A r, s \in pollers : r = s

BatchOrder ==
  SinglePoller => \A r \in Replica : \A f \in batch[r] : \A e \in Event :
    Precedes(e, f) => e \in batch[r] \/ published[e] > 0

OrderInv == IInv /\ ClockInv /\ BatchOrder /\ RealTimeOrder

LEMMA OrderInit == Init => OrderInv
BY IInvInit DEF OrderInv, SinglePoller, Init, ClockInv, BatchOrder, RealTimeOrder, Precedes, Committed

LEMMA ClockStep == OrderInv /\ [Next]_vars => ClockInv'
<1> SUFFICES ASSUME OrderInv, [Next]_vars PROVE ClockInv'
  OBVIOUS
<1> USE DEF OrderInv, IInv, TypeOK, ClockInv, Committed, TxState
<1>1. ASSUME NEW e \in Event, BeginTx(e) PROVE ClockInv'
  BY <1>1 DEF BeginTx
<1>2. ASSUME NEW e \in Event, PublishTx(e) PROVE ClockInv'
  BY <1>2 DEF PublishTx
<1>3. ASSUME NEW e \in Event, CommitTx(e) PROVE ClockInv'
  BY <1>3 DEF CommitTx
<1>4. ASSUME NEW e \in Event, RollbackTx(e) PROVE ClockInv'
  BY <1>4 DEF RollbackTx
<1>5. ASSUME NEW r \in Replica, DrainBegin(r) PROVE ClockInv'
  BY <1>5 DEF DrainBegin
<1>6. ASSUME NEW r \in Replica, DrainCommit(r) PROVE ClockInv'
  BY <1>6 DEF DrainCommit
<1>7. ASSUME NEW r \in Replica, DrainAbort(r) PROVE ClockInv'
  BY <1>7 DEF DrainAbort
<1>8. ASSUME NEW r \in Replica, NEW e \in Event, PublishNext(r, e) PROVE ClockInv'
  BY <1>8 DEF PublishNext
<1>9. CASE UNCHANGED vars
  BY <1>9 DEF vars
<1> QED
  BY <1>1, <1>2, <1>3, <1>4, <1>5, <1>6, <1>7, <1>8, <1>9 DEF Next

\* Only a commit or a begin moves the clock, and neither puts an event before
\* one that has begun already.
LEMMA PrecedesStable ==
  ASSUME OrderInv, [Next]_vars, NEW e \in Event, NEW f \in Event,
         Precedes(e, f)', f \in outbox \/ published[f] > 0
  PROVE  Precedes(e, f)
<1> USE DEF OrderInv, IInv, TypeOK, ClockInv, Precedes, TxState
<1>0. tx[f] = "committed"
  BY DEF DrainInv, NoPhantomEvent, Committed
<1>1. ASSUME NEW g \in Event, BeginTx(g) PROVE Precedes(e, f)
  BY <1>0, <1>1 DEF BeginTx
<1>2. ASSUME NEW g \in Event, PublishTx(g) PROVE Precedes(e, f)
  BY <1>2 DEF PublishTx
<1>3. ASSUME NEW g \in Event, CommitTx(g) PROVE Precedes(e, f)
  BY <1>0, <1>3 DEF CommitTx
<1>4. ASSUME NEW g \in Event, RollbackTx(g) PROVE Precedes(e, f)
  BY <1>4 DEF RollbackTx
<1>5. ASSUME NEW r \in Replica, DrainBegin(r) PROVE Precedes(e, f)
  BY <1>5 DEF DrainBegin
<1>6. ASSUME NEW r \in Replica, DrainCommit(r) PROVE Precedes(e, f)
  BY <1>6 DEF DrainCommit
<1>7. ASSUME NEW r \in Replica, DrainAbort(r) PROVE Precedes(e, f)
  BY <1>7 DEF DrainAbort
<1>8. ASSUME NEW r \in Replica, NEW g \in Event, PublishNext(r, g) PROVE Precedes(e, f)
  BY <1>8 DEF PublishNext
<1>9. CASE UNCHANGED vars
  BY <1>9 DEF vars
<1> QED
  BY <1>1, <1>2, <1>3, <1>4, <1>5, <1>6, <1>7, <1>8, <1>9 DEF Next

\* What a publication counter says is never taken back.
LEMMA PublishedGrows ==
  ASSUME TypeOK, [Next]_vars, NEW e \in Event, published[e] > 0
  PROVE  published'[e] > 0
<1>1. ASSUME NEW r \in Replica, NEW f \in Event, PublishNext(r, f)
      PROVE published'[e] > 0
  BY <1>1 DEF PublishNext, TypeOK
<1>2. ASSUME published' = published PROVE published'[e] > 0
  BY <1>2
<1>3. \/ published' = published
      \/ \E r \in Replica, f \in Event : PublishNext(r, f)
  BY DEF Next, vars, BeginTx, PublishTx, CommitTx, RollbackTx, DrainBegin,
         DrainCommit, DrainAbort
<1> QED
  BY <1>1, <1>2, <1>3

\* The set of pollers only grows.
LEMMA PollersGrow ==
  ASSUME [Next]_vars, SinglePoller'
  PROVE  SinglePoller
<1>1. pollers \subseteq pollers'
  BY DEF Next, vars, BeginTx, PublishTx, CommitTx, RollbackTx, DrainBegin,
         DrainCommit, DrainAbort, PublishNext
<1> QED
  BY <1>1 DEF SinglePoller

LEMMA BatchOrderStep == OrderInv /\ [Next]_vars => BatchOrder'
<1> SUFFICES ASSUME OrderInv, [Next]_vars, SinglePoller',
                    NEW r \in Replica, NEW f \in batch'[r], NEW e \in Event,
                    Precedes(e, f)'
             PROVE  e \in batch'[r] \/ published'[e] > 0
  BY DEF BatchOrder
<1> USE DEF OrderInv, IInv, TypeOK
<1>0. SinglePoller
  BY PollersGrow
<1>1. CASE batch'[r] = batch[r]
  <2>1. f \in outbox /\ f \in Event
    BY <1>1 DEF DrainInv
  <2>2. Precedes(e, f)
    BY <2>1, PrecedesStable
  <2> QED
    BY <1>0, <1>1, <2>2, PublishedGrows DEF BatchOrder
<1>2. CASE batch'[r] # batch[r]
  <2>1. DrainBegin(r)
    BY <1>2 DEF Next, vars, BeginTx, PublishTx, CommitTx, RollbackTx, DrainBegin,
                DrainCommit, DrainAbort, PublishNext
  <2>2. Locked = {}
    <3>1. r \in pollers' /\ batch[r] = {} /\ pollers \subseteq pollers'
      BY <2>1 DEF DrainBegin
    <3>2. \A s \in Replica : batch[s] = {}
      BY <3>1 DEF DrainInv, SinglePoller
    <3> QED
      BY <3>2 DEF Locked
  <2>3. PICK B \in Selections(outbox) : batch' = [batch EXCEPT ![r] = B]
    BY <2>1, <2>2 DEF DrainBegin
  <2>4. batch'[r] = B /\ f \in B /\ f \in outbox /\ f \in Event
    BY <2>3 DEF Selections
  <2>5. Precedes(e, f)
    BY <2>4, PrecedesStable
  <2>6. created[e] < created[f] /\ e \in Committed
    BY <2>4, <2>5 DEF Precedes, ClockInv
  <2>7. CASE e \in outbox
    BY <2>3, <2>4, <2>6, <2>7 DEF Selections
  <2>8. CASE e \notin outbox
    BY <2>6, <2>8, PublishedGrows DEF NoLostEvent
  <2> QED
    BY <2>7, <2>8
<1> QED
  BY <1>1, <1>2

LEMMA RealTimeStep == OrderInv /\ [Next]_vars => RealTimeOrder'
<1> SUFFICES ASSUME OrderInv, [Next]_vars, SinglePoller',
                    NEW e \in Event, NEW f \in Event,
                    Precedes(e, f)', published'[f] > 0
             PROVE  published'[e] > 0
  BY DEF RealTimeOrder, SinglePoller
<1> USE DEF OrderInv, IInv, TypeOK
<1>0. SinglePoller
  BY PollersGrow
<1>1. CASE published[f] > 0
  <2>1. Precedes(e, f)
    BY <1>1, PrecedesStable
  <2> QED
    BY <1>0, <1>1, <2>1, PublishedGrows DEF RealTimeOrder, SinglePoller
<1>2. CASE ~(published[f] > 0)
  <2>1. PICK r \in Replica : PublishNext(r, f)
    BY <1>2 DEF Next, vars, BeginTx, PublishTx, CommitTx, RollbackTx, DrainBegin,
                DrainCommit, DrainAbort, PublishNext
  <2>2. f \in Oldest(batch[r] \ sent[r])
    BY <2>1 DEF PublishNext
  <2>3. f \in batch[r] /\ f \in outbox
    BY <2>2 DEF Oldest, DrainInv
  <2>4. Precedes(e, f)
    BY <2>3, PrecedesStable
  <2>5. created[e] < created[f]
    BY <2>4 DEF Precedes, ClockInv
  <2>6. e \notin batch[r] \ sent[r]
    BY <2>2, <2>5 DEF Oldest
  <2>7. published[e] > 0
    BY <1>0, <2>3, <2>4, <2>6 DEF BatchOrder, DrainInv
  <2> QED
    BY <2>7, PublishedGrows
<1> QED
  BY <1>1, <1>2

LEMMA OrderInvHolds == Spec => []OrderInv
<1>1. OrderInv /\ [Next]_vars => OrderInv'
  <2>1. OrderInv /\ [Next]_vars => IInv'
    BY TypeStep, DrainStep, DeliveryStep, BudgetStep DEF OrderInv, IInv
  <2> QED
    BY <2>1, ClockStep, BatchOrderStep, RealTimeStep DEF OrderInv
<1> QED
  BY OrderInit, <1>1, PTL DEF Spec

\* The database clock orders the begins and commits of the domain transactions.
THEOREM ClockOrders == Spec => []ClockInv
<1>1. OrderInv => ClockInv
  BY DEF OrderInv
<1> QED
  BY <1>1, OrderInvHolds, PTL

\* As long as a single poller drains, publication respects the order in which changes
\* were made: an event committed before another's transaction began is published first.
THEOREM PublicationOrder == Spec => []RealTimeOrder
<1>1. OrderInv => RealTimeOrder
  BY DEF OrderInv
<1> QED
  BY <1>1, OrderInvHolds, PTL
=============================================================================
