------------------------ MODULE EventPipelineProofs -------------------------
(***************************************************************************)
(* The event pipeline for every set of events, number of pollers, batch    *)
(* size, acknowledgement limit and number of faults: types, the absence of *)
(* phantom records, the absence of loss between the outbox and the audit   *)
(* log, and the implementation of AuditTrail.                              *)
(***************************************************************************)
EXTENDS EventPipeline, FiniteSetTheorems, TLAPS

-----------------------------------------------------------------------------

LEMMA TypeInit == Init => TypeOK
BY DEF Init, O!Init, A!Init, TypeOK, O!TypeOK, A!TypeOK, O!TxState

LEMMA TypeStep == TypeOK /\ [Next]_vars => TypeOK'
<1> SUFFICES ASSUME TypeOK, [Next]_vars PROVE TypeOK'
  OBVIOUS
<1> USE DEF TypeOK, O!TypeOK, A!TypeOK, O!TxState, auditOnly, outboxOnly
<1>1. ASSUME NEW e \in Event, BeginTx(e) PROVE TypeOK'
  BY <1>1 DEF BeginTx, O!BeginTx
<1>2. ASSUME NEW e \in Event, PublishTx(e) PROVE TypeOK'
  BY <1>2 DEF PublishTx, O!PublishTx
<1>3. ASSUME NEW e \in Event, CommitTx(e) PROVE TypeOK'
  BY <1>3 DEF CommitTx, O!CommitTx
<1>4. ASSUME NEW e \in Event, RollbackTx(e) PROVE TypeOK'
  BY <1>4 DEF RollbackTx, O!RollbackTx
<1>5. ASSUME NEW r \in Replica, DrainBegin(r) PROVE TypeOK'
  <2>1. PICK B \in O!Selections(outbox \ O!Locked) : batch' = [batch EXCEPT ![r] = B]
    BY <1>5 DEF DrainBegin, O!DrainBegin
  <2>2. B \subseteq Event
    BY <2>1 DEF O!Selections
  <2> QED
    BY <1>5, <2>1, <2>2 DEF DrainBegin, O!DrainBegin
<1>6. ASSUME NEW r \in Replica, DrainCommit(r) PROVE TypeOK'
  BY <1>6 DEF DrainCommit, O!DrainCommit
<1>7. ASSUME NEW r \in Replica, DrainAbort(r) PROVE TypeOK'
  BY <1>7 DEF DrainAbort, O!DrainAbort
<1>8. ASSUME NEW r \in Replica, NEW e \in Event, PublishNext(r, e) PROVE TypeOK'
  BY <1>8 DEF PublishNext, O!PublishNext, O!Oldest, A!Store, A!Message
<1>9. ASSUME Subscribe PROVE TypeOK'
  BY <1>9 DEF Subscribe, A!Subscribe
<1>10. ASSUME Ack PROVE TypeOK'
  BY <1>10 DEF Ack, A!Ack
<1>11. ASSUME Nak PROVE TypeOK'
  BY <1>11 DEF Nak, A!Nak
<1>12. ASSUME LoseReply PROVE TypeOK'
  BY <1>12 DEF LoseReply, A!LoseReply
<1>13. ASSUME NEW m \in stream, Receive(m) PROVE TypeOK'
  BY <1>13 DEF Receive, A!Receive, A!Message
<1>14. ASSUME NEW m \in stream, ReceiveFails(m) PROVE TypeOK'
  BY <1>14 DEF ReceiveFails, A!ReceiveFails, A!Message
<1>15. CASE UNCHANGED vars
  BY <1>15 DEF vars
<1> QED
  BY <1>1, <1>2, <1>3, <1>4, <1>5, <1>6, <1>7, <1>8, <1>9, <1>10, <1>11, <1>12,
     <1>13, <1>14, <1>15 DEF Next, DomainStep, PollerStep, AuditStep

\* The composed state keeps its types.
THEOREM PipelineTypeCorrect == Spec => []TypeOK
BY TypeInit, TypeStep, PTL DEF Spec

-----------------------------------------------------------------------------
(* Whom the pipeline serves.  DrainInv is Outbox's account of its open drains; *)
(* NoPhantomRecord needs it because a poller publishes what it holds.         *)

SourceInv == TypeOK /\ O!DrainInv /\ NoPhantomRecord

LEMMA SourceInit == Init => SourceInv
BY TypeInit DEF SourceInv, Init, O!Init, A!Init, O!DrainInv, NoPhantomRecord, O!Committed

LEMMA SourceStep == SourceInv /\ [Next]_vars => SourceInv'
<1> SUFFICES ASSUME SourceInv, [Next]_vars PROVE O!DrainInv' /\ NoPhantomRecord'
  BY TypeStep DEF SourceInv
<1> DEFINE Goal == O!DrainInv' /\ NoPhantomRecord'
<1> USE DEF SourceInv, TypeOK, O!TypeOK, A!TypeOK, O!TxState, O!Committed, O!DrainInv,
            NoPhantomRecord, auditOnly, outboxOnly
<1>1. ASSUME NEW e \in Event, BeginTx(e) PROVE Goal
  BY <1>1 DEF BeginTx, O!BeginTx
<1>2. ASSUME NEW e \in Event, PublishTx(e) PROVE Goal
  BY <1>2 DEF PublishTx, O!PublishTx
<1>3. ASSUME NEW e \in Event, CommitTx(e) PROVE Goal
  BY <1>3 DEF CommitTx, O!CommitTx
<1>4. ASSUME NEW e \in Event, RollbackTx(e) PROVE Goal
  BY <1>4 DEF RollbackTx, O!RollbackTx
<1>5. ASSUME NEW r \in Replica, DrainBegin(r) PROVE Goal
  <2>1. PICK B \in O!Selections(outbox \ O!Locked) : batch' = [batch EXCEPT ![r] = B]
    BY <1>5 DEF DrainBegin, O!DrainBegin
  <2>2. B \subseteq outbox /\ \A s \in Replica : B \cap batch[s] = {}
    BY <2>1 DEF O!Selections, O!Locked
  <2> QED
    BY <1>5, <2>1, <2>2 DEF DrainBegin, O!DrainBegin
<1>6. ASSUME NEW r \in Replica, DrainCommit(r) PROVE Goal
  BY <1>6 DEF DrainCommit, O!DrainCommit
<1>7. ASSUME NEW r \in Replica, DrainAbort(r) PROVE Goal
  BY <1>7 DEF DrainAbort, O!DrainAbort
<1>8. ASSUME NEW r \in Replica, NEW e \in Event, PublishNext(r, e) PROVE Goal
  <2>1. e \in batch[r]
    BY <1>8 DEF PublishNext, O!PublishNext, O!Oldest
  <2>2. O!DrainInv'
    BY <1>8, <2>1 DEF PublishNext, O!PublishNext, A!Store
  <2>3. NoPhantomRecord'
    BY <1>8, <2>1 DEF PublishNext, O!PublishNext, A!Store
  <2> QED
    BY <2>2, <2>3
<1>9. ASSUME Subscribe PROVE Goal
  BY <1>9 DEF Subscribe, A!Subscribe
<1>10. ASSUME Ack PROVE Goal
  BY <1>10 DEF Ack, A!Ack
<1>11. ASSUME Nak PROVE Goal
  BY <1>11 DEF Nak, A!Nak
<1>12. ASSUME LoseReply PROVE Goal
  BY <1>12 DEF LoseReply, A!LoseReply
<1>13. ASSUME NEW m \in stream, Receive(m) PROVE Goal
  BY <1>13 DEF Receive, A!Receive
<1>14. ASSUME NEW m \in stream, ReceiveFails(m) PROVE Goal
  BY <1>14 DEF ReceiveFails, A!ReceiveFails
<1>15. CASE UNCHANGED vars
  BY <1>15 DEF vars
<1> QED
  BY <1>1, <1>2, <1>3, <1>4, <1>5, <1>6, <1>7, <1>8, <1>9, <1>10, <1>11, <1>12,
     <1>13, <1>14, <1>15 DEF Next, DomainStep, PollerStep, AuditStep

\* The stream and the audit log speak only of changes that have committed.
THEOREM NoPhantoms == Spec => []NoPhantomRecord
<1>1. SourceInv => NoPhantomRecord
  BY DEF SourceInv
<1> QED
  BY SourceInit, SourceStep, <1>1, PTL DEF Spec

-----------------------------------------------------------------------------
(* Nothing is lost on the way, except what was published before the audit     *)
(* service first subscribed (missed).  NothingLost is not inductive: a drain's commit must   *)
(* delete only what the consumer holds, and an Ack must only release what is   *)
(* recorded.  That is HandOver.                                               *)

PipeInv == SourceInv /\ NothingLost /\ HandOver

LEMMA PipeInit == Init => PipeInv
BY SourceInit DEF PipeInv, Init, O!Init, A!Init, NothingLost, HandOver, O!Committed

\* The audit side forgets nothing that is not recorded.
LEMMA HeldStep ==
  ASSUME PipeInv, [Next]_vars, NEW e \in Event, A!Held(e)
  PROVE  A!Held(e)'
<1> USE DEF PipeInv, SourceInv, HandOver, A!Held, A!Retained, TypeOK, A!TypeOK,
            auditOnly, outboxOnly
<1>1. ASSUME UNCHANGED auditOnly PROVE A!Held(e)'
  BY <1>1
<1>2. ASSUME NEW r \in Replica, NEW f \in Event, PublishNext(r, f) PROVE A!Held(e)'
  BY <1>2 DEF PublishNext, A!Store
<1>3. ASSUME Subscribe PROVE A!Held(e)'
  BY <1>3 DEF Subscribe, A!Subscribe
<1>4. ASSUME Ack PROVE A!Held(e)'
  BY <1>4 DEF Ack, A!Ack
<1>5. ASSUME Nak PROVE A!Held(e)'
  BY <1>5 DEF Nak, A!Nak
<1>6. ASSUME LoseReply PROVE A!Held(e)'
  BY <1>6 DEF LoseReply, A!LoseReply
<1>7. ASSUME NEW m \in stream, Receive(m) PROVE A!Held(e)'
  BY <1>7 DEF Receive, A!Receive
<1>8. ASSUME NEW m \in stream, ReceiveFails(m) PROVE A!Held(e)'
  BY <1>8 DEF ReceiveFails, A!ReceiveFails
<1>9. CASE UNCHANGED vars
  BY <1>1, <1>9 DEF vars
<1> QED
  BY <1>1, <1>2, <1>3, <1>4, <1>5, <1>6, <1>7, <1>8, <1>9
  DEF Next, DomainStep, PollerStep, AuditStep, BeginTx, PublishTx, CommitTx, RollbackTx,
      DrainBegin, DrainCommit, DrainAbort

\* A row joins the deletes of a drain only by being published.
LEMMA DeletedIsPublished ==
  ASSUME TypeOK, [Next]_vars, NEW r \in Replica, NEW e \in sent'[r], e \notin sent[r]
  PROVE  PublishNext(r, e)
<1> USE DEF TypeOK, O!TypeOK
<1>1. ASSUME NEW s \in Replica, NEW f \in Event, PublishNext(s, f) PROVE s = r /\ f = e
  BY <1>1 DEF PublishNext, O!PublishNext
<1>2. ASSUME NEW s \in Replica, DrainCommit(s) \/ DrainAbort(s) PROVE FALSE
  BY <1>2 DEF DrainCommit, O!DrainCommit, DrainAbort, O!DrainAbort
<1>3. \/ sent' = sent
      \/ \E s \in Replica : DrainCommit(s) \/ DrainAbort(s)
      \/ \E s \in Replica, f \in Event : PublishNext(s, f)
  BY DEF Next, vars, DomainStep, PollerStep, AuditStep, outboxOnly, BeginTx, O!BeginTx,
     PublishTx, O!PublishTx, CommitTx, O!CommitTx, RollbackTx, O!RollbackTx,
     DrainBegin, O!DrainBegin, Subscribe, Ack, Nak, LoseReply, Receive, ReceiveFails
<1> QED
  BY <1>1, <1>2, <1>3

\* What was missed stays missed.
LEMMA MissedGrows ==
  ASSUME [Next]_vars
  PROVE  missed \subseteq missed'
BY DEF Next, vars, DomainStep, PollerStep, AuditStep, BeginTx, PublishTx, CommitTx,
   RollbackTx, DrainBegin, DrainCommit, DrainAbort, auditOnly, PublishNext, A!Store,
   Subscribe, A!Subscribe, Ack, A!Ack, Nak, A!Nak, LoseReply, A!LoseReply,
   Receive, A!Receive, ReceiveFails, A!ReceiveFails

LEMMA HandOverStep == PipeInv /\ [Next]_vars => HandOver'
<1> SUFFICES ASSUME PipeInv, [Next]_vars PROVE HandOver'
  OBVIOUS
<1> USE DEF PipeInv, SourceInv, TypeOK, O!TypeOK, A!TypeOK
<1>2. ASSUME NEW m \in acking' PROVE m.ev \in audit'
  BY <1>2 DEF HandOver, Next, vars, DomainStep, PollerStep, AuditStep, BeginTx, PublishTx,
         CommitTx, RollbackTx, DrainBegin, DrainCommit, DrainAbort, auditOnly, PublishNext,
         A!Store, Subscribe, A!Subscribe, Ack, A!Ack, Nak, A!Nak, LoseReply, A!LoseReply,
         Receive, A!Receive, ReceiveFails, A!ReceiveFails
<1>3. ASSUME NEW r \in Replica, NEW e \in sent'[r] PROVE A!Held(e)' \/ e \in missed'
  <2>1. CASE e \in sent[r]
    <3>1. e \in Event
      BY <2>1
    <3> QED
      BY <2>1, <3>1, HeldStep, MissedGrows DEF HandOver
  <2>2. CASE e \notin sent[r]
    <3>1. PublishNext(r, e)
      BY <1>3, <2>2, DeletedIsPublished
    <3>2. [ev |-> e, seq |-> lastSeq + 1] \in stream' \/ e \in missed'
      BY <3>1 DEF PublishNext, A!Store
    <3> QED
      BY <3>2 DEF A!Held, A!Retained
  <2> QED
    BY <2>1, <2>2
<1> QED
  BY <1>2, <1>3 DEF HandOver

LEMMA NothingLostStep == PipeInv /\ [Next]_vars => NothingLost'
<1> SUFFICES ASSUME PipeInv, [Next]_vars, NEW e \in Event, tx'[e] = "committed"
             PROVE  e \in outbox' \/ A!Held(e)' \/ e \in missed'
  BY DEF NothingLost, O!Committed
<1> USE DEF PipeInv, SourceInv, TypeOK, O!TypeOK, O!TxState
<1>1. CASE A!Held(e)
  BY <1>1, HeldStep
<1>2. CASE ~A!Held(e) /\ e \notin missed /\ tx[e] = "committed"
  <2>1. e \in outbox /\ \A r \in Replica : e \notin sent[r]
    BY <1>2 DEF NothingLost, O!Committed, HandOver
  <2>2. e \in outbox'
    BY <2>1 DEF Next, vars, DomainStep, PollerStep, AuditStep, outboxOnly, BeginTx,
       O!BeginTx, PublishTx, O!PublishTx, CommitTx, O!CommitTx, RollbackTx, O!RollbackTx,
       DrainBegin, O!DrainBegin, DrainCommit, O!DrainCommit, DrainAbort, O!DrainAbort,
       PublishNext, O!PublishNext, Subscribe, Ack, Nak, LoseReply, Receive, ReceiveFails
  <2> QED
    BY <2>2
<1>3. CASE tx[e] # "committed"
  BY <1>3 DEF Next, vars, DomainStep, PollerStep, AuditStep, outboxOnly, BeginTx,
     O!BeginTx, PublishTx, O!PublishTx, CommitTx, O!CommitTx, RollbackTx, O!RollbackTx,
     DrainBegin, O!DrainBegin, DrainCommit, O!DrainCommit, DrainAbort, O!DrainAbort,
     PublishNext, O!PublishNext, Subscribe, Ack, Nak, LoseReply, Receive, ReceiveFails
<1>4. CASE e \in missed
  BY <1>4, MissedGrows
<1> QED
  BY <1>1, <1>2, <1>3, <1>4

LEMMA PipeStep == PipeInv /\ [Next]_vars => PipeInv'
BY SourceStep, HandOverStep, NothingLostStep DEF PipeInv

\* A committed change is always queued, retained for the audit service, recorded, or
\* one of those published before the audit service first subscribed.
THEOREM NothingLostOnTheWay == Spec => []NothingLost
<1>1. PipeInv => NothingLost
  BY DEF PipeInv
<1> QED
  BY PipeInit, PipeStep, <1>1, PTL DEF Spec

\* What an open drain deletes has reached the consumer, and what is about to be
\* acknowledged is in the log.
THEOREM HandOverSafe == Spec => []HandOver
<1>1. PipeInv => HandOver
  BY DEF PipeInv
<1> QED
  BY PipeInit, PipeStep, <1>1, PTL DEF Spec

-----------------------------------------------------------------------------
(* What duplicates cost.  Messages the stream holds outside the handler, rows of the log and *)
(* envelopes that were missed are together no more than the envelopes published by *)
(* drains that have not failed (Published), but for a batch per fault.  Every    *)
(* envelope of Published is recorded, missed or retained without a row, so what  *)
(* is stuck comes out of the allowance for faults.                               *)

Published == O!Committed \ (outbox \ O!Deleted)
Allowance == BatchLimit * faults
Waiting   == stream \ acking

FiniteInv ==
  /\ IsFiniteSet(stream) /\ IsFiniteSet(audit) /\ IsFiniteSet(missed)
  /\ IsFiniteSet(O!Committed)
  /\ \A r \in Replica : /\ IsFiniteSet(batch[r])
                        /\ Cardinality(batch[r]) <= BatchLimit
  /\ acking \subseteq stream
  /\ \A m, n \in acking : m = n

Balance ==
  Cardinality(Waiting) + Cardinality(audit) + Cardinality(missed)
    <= Cardinality(Published) + Allowance

\* The instance of Outbox counts as this module does.
LEMMA SameCardinality == \A S : O!Cardinality(S) = Cardinality(S)
BY DEF O!Cardinality, Cardinality

\* A selection is no larger than the batch limit.
LEMMA SelectionBounded ==
  ASSUME NEW S, IsFiniteSet(S), NEW B \in O!Selections(S)
  PROVE  IsFiniteSet(B) /\ Cardinality(B) <= BatchLimit
<1>1. /\ B \in SUBSET S
      /\ Cardinality(B) = IF Cardinality(S) < BatchLimit THEN Cardinality(S) ELSE BatchLimit
  BY SameCardinality DEF O!Selections
<1>2. IsFiniteSet(B) /\ Cardinality(S) \in Nat
  BY <1>1, FS_Subset, FS_CardinalityType
<1> QED
  BY <1>1, <1>2, PipelineAssumption

\* One more element counts for one at most, ...
LEMMA CountOneMore ==
  ASSUME NEW S, IsFiniteSet(S), NEW x, NEW T \in SUBSET (S \cup {x})
  PROVE  IsFiniteSet(T) /\ Cardinality(T) <= Cardinality(S) + 1
<1>1. IsFiniteSet(S \cup {x})
  BY FS_AddElement
<1>2. Cardinality(S \cup {x}) = IF x \in S THEN Cardinality(S) ELSE Cardinality(S) + 1
  BY FS_AddElement
<1>3. IsFiniteSet(T) /\ Cardinality(T) <= Cardinality(S \cup {x})
  BY <1>1, FS_Subset
<1>4. Cardinality(S) \in Nat /\ Cardinality(T) \in Nat /\ Cardinality(S \cup {x}) \in Nat
  BY <1>1, <1>3, FS_CardinalityType
<1> QED
  BY <1>2, <1>3, <1>4

\* ... and a union for no more than its parts, and for both when they are disjoint.
LEMMA CountUnion ==
  ASSUME NEW S, IsFiniteSet(S), NEW T, IsFiniteSet(T)
  PROVE  /\ IsFiniteSet(S \cup T)
         /\ Cardinality(S \cup T) <= Cardinality(S) + Cardinality(T)
         /\ S \cap T = {} => Cardinality(S \cup T) = Cardinality(S) + Cardinality(T)
<1>1. IsFiniteSet(S \cap T)
  BY FS_Subset
<1>2. /\ IsFiniteSet(S \cup T)
      /\ Cardinality(S \cup T) = Cardinality(S) + Cardinality(T) - Cardinality(S \cap T)
  BY FS_Union
<1>3. /\ Cardinality(S) \in Nat /\ Cardinality(T) \in Nat
      /\ Cardinality(S \cap T) \in Nat /\ Cardinality(S \cup T) \in Nat
  BY <1>1, <1>2, FS_CardinalityType
<1>4. S \cap T = {} => Cardinality(S \cap T) = 0
  BY FS_EmptySet
<1> QED
  BY <1>2, <1>3, <1>4

LEMMA FiniteInit == Init => FiniteInv
BY FS_EmptySet, PipelineAssumption DEF Init, O!Init, A!Init, FiniteInv, O!Committed

LEMMA FiniteStep == SourceInv /\ FiniteInv /\ [Next]_vars => FiniteInv'
<1> SUFFICES ASSUME SourceInv, FiniteInv, [Next]_vars PROVE FiniteInv'
  OBVIOUS
<1> USE DEF FiniteInv, SourceInv, TypeOK, O!TypeOK, O!TxState, A!TypeOK, O!Committed,
            auditOnly, outboxOnly
<1>0. IsFiniteSet({}) /\ Cardinality({}) <= BatchLimit
  BY FS_EmptySet, PipelineAssumption
<1>1. ASSUME NEW e \in Event, BeginTx(e) \/ PublishTx(e) \/ RollbackTx(e) PROVE FiniteInv'
  <2>1. O!Committed' = O!Committed
    BY <1>1 DEF BeginTx, O!BeginTx, PublishTx, O!PublishTx, RollbackTx, O!RollbackTx
  <2> QED
    BY <1>1, <2>1 DEF BeginTx, O!BeginTx, PublishTx, O!PublishTx, RollbackTx, O!RollbackTx
<1>2. ASSUME NEW e \in Event, CommitTx(e) PROVE FiniteInv'
  <2>0. \A S : IsFiniteSet(S) => IsFiniteSet(S \cup {e})
    BY FS_AddElement
  <2>1. O!Committed' = O!Committed \cup {e}
    BY <1>2 DEF CommitTx, O!CommitTx
  <2>2. IsFiniteSet(O!Committed')
    BY <2>0, <2>1
  <2> QED
    BY <1>2, <2>2 DEF CommitTx, O!CommitTx
<1>3. ASSUME NEW r \in Replica, DrainBegin(r) PROVE FiniteInv'
  <2>1. PICK B \in O!Selections(outbox \ O!Locked) : batch' = [batch EXCEPT ![r] = B]
    BY <1>3 DEF DrainBegin, O!DrainBegin
  <2>2. IsFiniteSet(outbox \ O!Locked)
    BY FS_Subset DEF O!DrainInv
  <2>3. IsFiniteSet(B) /\ Cardinality(B) <= BatchLimit
    BY <2>2, SelectionBounded
  <2> QED
    BY <1>3, <2>1, <2>3 DEF DrainBegin, O!DrainBegin
<1>4. ASSUME NEW r \in Replica, DrainCommit(r) \/ DrainAbort(r) PROVE FiniteInv'
  BY <1>0, <1>4 DEF DrainCommit, O!DrainCommit, DrainAbort, O!DrainAbort
<1>5. ASSUME NEW r \in Replica, NEW e \in Event, PublishNext(r, e) PROVE FiniteInv'
  <2>0. \A x : IsFiniteSet(stream \cup {x}) /\ IsFiniteSet(missed \cup {x})
    BY FS_AddElement
  <2>1. IsFiniteSet(stream') /\ IsFiniteSet(missed')
    BY <1>5, <2>0 DEF PublishNext, A!Store
  <2>2. stream \subseteq stream'
    BY <1>5 DEF PublishNext, A!Store
  <2> QED
    BY <1>5, <2>1, <2>2 DEF PublishNext, O!PublishNext, A!Store
<1>6. ASSUME Subscribe \/ Nak \/ LoseReply PROVE FiniteInv'
  BY <1>6 DEF Subscribe, A!Subscribe, Nak, A!Nak, LoseReply, A!LoseReply
<1>7. ASSUME Ack PROVE FiniteInv'
  <2>1. IsFiniteSet(stream')
    BY <1>7, FS_Subset DEF Ack, A!Ack
  <2> QED
    BY <1>7, <2>1 DEF Ack, A!Ack
<1>8. ASSUME NEW m \in stream, Receive(m) PROVE FiniteInv'
  <2>1. IsFiniteSet(audit')
    BY <1>8, FS_AddElement DEF Receive, A!Receive
  <2> QED
    BY <1>8, <2>1 DEF Receive, A!Receive
<1>9. ASSUME NEW m \in stream, ReceiveFails(m) PROVE FiniteInv'
  BY <1>9 DEF ReceiveFails, A!ReceiveFails
<1>10. CASE UNCHANGED vars
  BY <1>10 DEF vars
<1> QED
  BY <1>1, <1>2, <1>3, <1>4, <1>5, <1>6, <1>7, <1>8, <1>9, <1>10
  DEF Next, DomainStep, PollerStep, AuditStep

\* The counts are numbers.
LEMMA Counts ==
  ASSUME SourceInv, FiniteInv
  PROVE  /\ IsFiniteSet(Waiting) /\ IsFiniteSet(Published)
         /\ Cardinality(Waiting) \in Nat /\ Cardinality(Published) \in Nat
         /\ Cardinality(audit) \in Nat /\ Cardinality(missed) \in Nat
         /\ Allowance \in Nat
<1>1. IsFiniteSet(Waiting) /\ IsFiniteSet(Published)
  BY FS_Subset DEF FiniteInv, Waiting, Published
<1>2. Allowance \in Nat
  BY PipelineAssumption DEF SourceInv, TypeOK, O!TypeOK, Allowance
<1> QED
  BY <1>1, <1>2, FS_CardinalityType DEF FiniteInv

\* A fault grants a batch.
LEMMA FaultGrants ==
  ASSUME SourceInv, faults' = faults + 1
  PROVE  Allowance' = Allowance + BatchLimit
BY PipelineAssumption DEF SourceInv, TypeOK, O!TypeOK, Allowance

\* A publication adds to what counts as published, ...
LEMMA PublishedGrows ==
  ASSUME SourceInv, NEW r \in Replica, NEW e \in Event, PublishNext(r, e)
  PROVE  e \notin Published /\ Published' = Published \cup {e}
<1> USE DEF SourceInv, TypeOK, O!TypeOK, O!TxState, O!DrainInv, O!Committed, Published,
            O!Deleted
<1>1. e \in batch[r] /\ e \notin sent[r] /\ e \in outbox /\ e \in O!Committed
  BY DEF PublishNext, O!PublishNext, O!Oldest
<1>2. \A s \in Replica : e \notin sent[s]
  BY <1>1
<1>3. O!Deleted' = O!Deleted \cup {e}
  BY DEF PublishNext, O!PublishNext
<1> QED
  BY <1>1, <1>2, <1>3 DEF PublishNext, O!PublishNext

\* ... a drain that fails takes away what it has published, ...
LEMMA PublishedShrinks ==
  ASSUME SourceInv, NEW r \in Replica, DrainAbort(r)
  PROVE  Published \subseteq Published' \cup sent[r]
BY DEF SourceInv, TypeOK, O!TypeOK, O!TxState, O!DrainInv, O!Committed, Published,
       O!Deleted, DrainAbort, O!DrainAbort

\* ... and nothing else changes it.
LEMMA PublishedKept ==
  ASSUME SourceInv,
         \/ \E e \in Event : BeginTx(e) \/ PublishTx(e) \/ CommitTx(e) \/ RollbackTx(e)
         \/ \E r \in Replica : DrainBegin(r) \/ DrainCommit(r)
         \/ UNCHANGED outboxOnly
  PROVE  Published' = Published
<1> USE DEF SourceInv, TypeOK, O!TypeOK, O!TxState, O!DrainInv, O!Committed, Published,
            O!Deleted, outboxOnly
<1>1. ASSUME NEW e \in Event, BeginTx(e) \/ PublishTx(e) \/ RollbackTx(e)
      PROVE  Published' = Published
  BY <1>1 DEF BeginTx, O!BeginTx, PublishTx, O!PublishTx, RollbackTx, O!RollbackTx
<1>2. ASSUME NEW e \in Event, CommitTx(e) PROVE Published' = Published
  BY <1>2 DEF CommitTx, O!CommitTx
<1>3. ASSUME NEW r \in Replica, DrainBegin(r) PROVE Published' = Published
  BY <1>3 DEF DrainBegin, O!DrainBegin
<1>4. ASSUME NEW r \in Replica, DrainCommit(r) PROVE Published' = Published
  <2>1. outbox' \ O!Deleted' = outbox \ O!Deleted
    BY <1>4 DEF DrainCommit, O!DrainCommit
  <2> QED
    BY <1>4, <2>1 DEF DrainCommit, O!DrainCommit
<1>5. ASSUME UNCHANGED outboxOnly PROVE Published' = Published
  BY <1>5
<1> QED
  BY <1>1, <1>2, <1>3, <1>4, <1>5

LEMMA BalanceInit == Init => Balance
<1> SUFFICES ASSUME Init PROVE Balance
  OBVIOUS
<1>1. Waiting = {} /\ audit = {} /\ missed = {} /\ faults = 0 /\ Published = {}
  BY DEF Init, O!Init, A!Init, Waiting, Published, O!Committed
<1> QED
  BY <1>1, FS_EmptySet, PipelineAssumption DEF Balance, Allowance

LEMMA BalanceStep == SourceInv /\ FiniteInv /\ Balance /\ [Next]_vars => Balance'
<1> SUFFICES ASSUME SourceInv, FiniteInv, Balance, [Next]_vars PROVE Balance'
  OBVIOUS
<1> USE DEF Balance
<1>0. FiniteInv' /\ SourceInv'
  BY FiniteStep, SourceStep
<1>1. /\ Cardinality(Waiting) \in Nat /\ Cardinality(Published) \in Nat
      /\ Cardinality(audit) \in Nat /\ Cardinality(missed) \in Nat /\ Allowance \in Nat
      /\ BatchLimit \in Nat \ {0}
      /\ IsFiniteSet(Waiting) /\ IsFiniteSet(Published)
      /\ IsFiniteSet(audit) /\ IsFiniteSet(missed)
  BY Counts, PipelineAssumption DEF FiniteInv
<1>2. /\ Cardinality(Waiting') \in Nat /\ Cardinality(Published') \in Nat
      /\ Cardinality(audit') \in Nat /\ Cardinality(missed') \in Nat /\ Allowance' \in Nat
      /\ IsFiniteSet(Waiting') /\ IsFiniteSet(Published')
  <2>1. IsFiniteSet(Waiting)' /\ IsFiniteSet(Published)' /\ IsFiniteSet(audit)'
          /\ IsFiniteSet(missed)' /\ (Allowance \in Nat)'
    BY <1>0, Counts, PTL DEF FiniteInv
  <2> QED
    BY <2>1, FS_CardinalityType
<1>4. ASSUME NEW r \in Replica, NEW e \in Event, PublishNext(r, e) PROVE Balance'
  <2>1. Cardinality(Published') = Cardinality(Published) + 1
    <3>1. e \notin Published /\ Published' = Published \cup {e}
      BY <1>4, PublishedGrows
    <3> QED
      BY <1>1, <3>1, FS_AddElement
  <2>2. audit' = audit /\ Allowance' = Allowance
    BY <1>4 DEF PublishNext, A!Store, Allowance
  <2>3. CASE consumer
    <3>1. missed' = missed /\ \E m : Waiting' \subseteq Waiting \cup {m}
      BY <1>4, <2>3 DEF PublishNext, A!Store, Waiting
    <3>2. Cardinality(Waiting') <= Cardinality(Waiting) + 1
      BY <1>1, <3>1, CountOneMore
    <3> QED
      BY <1>1, <1>2, <2>1, <2>2, <3>1, <3>2
  <2>4. CASE ~consumer
    <3>1. Waiting' = Waiting /\ missed' = missed \cup {e}
      BY <1>4, <2>4 DEF PublishNext, A!Store, Waiting
    <3>2. Cardinality(missed') <= Cardinality(missed) + 1
      BY <1>1, <3>1, CountOneMore
    <3> QED
      BY <1>1, <1>2, <2>1, <2>2, <3>1, <3>2
  <2> QED
    BY <2>3, <2>4 DEF SourceInv, TypeOK, A!TypeOK
<1>5. ASSUME NEW r \in Replica, DrainAbort(r) PROVE Balance'
  <2>1. Allowance' = Allowance + BatchLimit
    BY <1>5, FaultGrants DEF DrainAbort, O!DrainAbort
  <2>2. IsFiniteSet(sent[r]) /\ Cardinality(sent[r]) <= BatchLimit
    <3>1. sent[r] \subseteq batch[r]
      BY DEF SourceInv, O!DrainInv
    <3>2. IsFiniteSet(batch[r]) /\ Cardinality(batch[r]) <= BatchLimit
      BY DEF FiniteInv
    <3>3. IsFiniteSet(sent[r]) /\ Cardinality(sent[r]) <= Cardinality(batch[r])
      BY <3>1, <3>2, FS_Subset
    <3>4. Cardinality(batch[r]) \in Nat /\ Cardinality(sent[r]) \in Nat /\ BatchLimit \in Nat
      BY <3>2, <3>3, FS_CardinalityType, PipelineAssumption
    <3> QED
      BY <3>2, <3>3, <3>4
  <2>3. Cardinality(Published) <= Cardinality(Published') + BatchLimit
    <3>1. Published \subseteq Published' \cup sent[r]
      BY <1>5, PublishedShrinks
    <3>2. /\ IsFiniteSet(Published' \cup sent[r])
          /\ Cardinality(Published' \cup sent[r])
               = Cardinality(Published') + Cardinality(sent[r])
                   - Cardinality(Published' \cap sent[r])
      BY <1>2, <2>2, FS_Union
    <3>3. Cardinality(Published' \cap sent[r]) \in Nat /\ Cardinality(sent[r]) \in Nat
      BY <1>2, <2>2, FS_Subset, FS_CardinalityType
    <3>4. Cardinality(Published) <= Cardinality(Published' \cup sent[r])
      BY <3>1, <3>2, FS_Subset
    <3> QED
      BY <1>1, <1>2, <2>2, <3>2, <3>3, <3>4
  <2>4. UNCHANGED <<Waiting, audit, missed>>
    BY <1>5 DEF DrainAbort, auditOnly, Waiting
  <2> QED
    BY <1>1, <1>2, <2>1, <2>3, <2>4
<1>6. ASSUME NEW e \in Event, BeginTx(e) \/ PublishTx(e) \/ CommitTx(e) \/ RollbackTx(e)
      PROVE  Balance'
  <2>1. Published' = Published
    BY <1>6, PublishedKept
  <2>2. UNCHANGED <<Waiting, audit, missed, Allowance>>
    BY <1>6 DEF BeginTx, O!BeginTx, PublishTx, O!PublishTx, CommitTx, O!CommitTx, RollbackTx,
       O!RollbackTx, auditOnly, Waiting, Allowance
  <2> QED
    BY <2>1, <2>2
<1>7. ASSUME NEW r \in Replica, DrainBegin(r) \/ DrainCommit(r) PROVE Balance'
  <2>1. Published' = Published
    BY <1>7, PublishedKept
  <2>2. UNCHANGED <<Waiting, audit, missed, Allowance>>
    BY <1>7 DEF DrainBegin, O!DrainBegin, DrainCommit, O!DrainCommit, auditOnly, Waiting,
       Allowance
  <2> QED
    BY <2>1, <2>2
<1>8. ASSUME Subscribe \/ Ack \/ Nak PROVE Balance'
  <2>1. Published' = Published
    BY <1>8, PublishedKept DEF Subscribe, Ack, Nak
  <2>2. UNCHANGED <<Waiting, audit, missed, Allowance>>
    BY <1>8 DEF Subscribe, A!Subscribe, Ack, A!Ack, Nak, A!Nak, Waiting, Allowance
  <2> QED
    BY <2>1, <2>2
<1>9. ASSUME LoseReply PROVE Balance'
  <2>1. Published' = Published
    BY <1>9, PublishedKept DEF LoseReply
  <2>2. Allowance' = Allowance + BatchLimit /\ audit' = audit /\ missed' = missed
    BY <1>9, FaultGrants DEF LoseReply, A!LoseReply
  <2>3. \E m : Waiting' \subseteq Waiting \cup {m}
    BY <1>9 DEF LoseReply, A!LoseReply, Waiting, FiniteInv
  <2>4. Cardinality(Waiting') <= Cardinality(Waiting) + 1
    BY <1>1, <2>3, CountOneMore
  <2> QED
    BY <1>1, <1>2, <2>1, <2>2, <2>4
<1>10. ASSUME NEW m \in stream, Receive(m) PROVE Balance'
  <2>1. Published' = Published
    BY <1>10, PublishedKept DEF Receive
  <2>2. Allowance' = Allowance /\ missed' = missed /\ audit' = audit \cup {m.ev} /\ acking = {}
        /\ stream' = stream
    BY <1>10 DEF Receive, A!Receive, Allowance
  <2>3. CASE m.ev \in audit
    <3>1. Waiting' = Waiting /\ audit' = audit
      BY <1>10, <2>2, <2>3 DEF Receive, A!Receive, Waiting
    <3> QED
      BY <2>1, <2>2, <3>1
  <2>4. CASE m.ev \notin audit
    <3>1. Waiting' = Waiting \ {m} /\ m \in Waiting
      BY <1>10, <2>2, <2>4 DEF Receive, A!Receive, Waiting
    <3>2. Cardinality(Waiting') = Cardinality(Waiting) - 1
      BY <1>1, <3>1, FS_RemoveElement
    <3>3. Cardinality(audit') <= Cardinality(audit) + 1
      BY <1>1, <2>2, CountOneMore
    <3> QED
      BY <1>1, <1>2, <2>1, <2>2, <3>2, <3>3
  <2> QED
    BY <2>3, <2>4
<1>11. ASSUME NEW m \in stream, ReceiveFails(m) PROVE Balance'
  <2>1. Published' = Published
    BY <1>11, PublishedKept DEF ReceiveFails
  <2>2. Allowance' = Allowance + BatchLimit /\ UNCHANGED <<Waiting, audit, missed>>
    BY <1>11, FaultGrants DEF ReceiveFails, A!ReceiveFails, Waiting
  <2> QED
    BY <1>1, <1>2, <2>1, <2>2
<1>12. CASE UNCHANGED vars
  <2>1. UNCHANGED <<Published, Waiting, audit, missed, Allowance>>
    BY <1>12 DEF vars, Published, Waiting, Allowance, O!Committed, O!Deleted
  <2> QED
    BY <2>1
<1> QED
  BY <1>4, <1>5, <1>6, <1>7, <1>8, <1>9, <1>10, <1>11, <1>12
  DEF Next, DomainStep, PollerStep, AuditStep

\* Whatever counts as published has its row, was missed, or waits without one.
LEMMA StuckBounded ==
  ASSUME PipeInv, FiniteInv, Balance
  PROVE  SlotsLostToFaults
<1> DEFINE Rest == {m \in stream : m.ev \notin audit}
           Due  == {m.ev : m \in Rest}
<1>1. /\ IsFiniteSet(Waiting) /\ Cardinality(Waiting) \in Nat /\ Allowance \in Nat
      /\ Cardinality(Published) \in Nat /\ IsFiniteSet(Published)
      /\ IsFiniteSet(audit) /\ IsFiniteSet(missed) /\ IsFiniteSet(stream)
      /\ Cardinality(audit) \in Nat /\ Cardinality(missed) \in Nat
  BY Counts DEF PipeInv, FiniteInv
<1>2. Waiting = Stuck \cup Rest /\ Stuck \cap Rest = {}
  BY DEF Waiting, Stuck, PipeInv, HandOver
<1>3. IsFiniteSet(Stuck) /\ IsFiniteSet(Rest)
  BY <1>1, <1>2, FS_Subset
<1>4. Cardinality(Waiting) = Cardinality(Stuck) + Cardinality(Rest)
  BY <1>2, <1>3, CountUnion
<1>5. IsFiniteSet(Due) /\ Cardinality(Due) <= Cardinality(Rest)
  <2> DEFINE f == [m \in Rest |-> m.ev]
  <2>1. f \in Surjection(Rest, Due)
    BY DEF Surjection
  <2> HIDE DEF f, Rest, Due
  <2> QED
    BY <1>3, <2>1, FS_Surjection
<1>6. Published \subseteq audit \cup missed \cup Due
  <2> SUFFICES ASSUME NEW e \in Published, e \notin audit, e \notin missed PROVE e \in Due
    OBVIOUS
  <2>1. e \in O!Committed /\ (e \in outbox => \E r \in Replica : e \in sent[r])
    BY DEF Published, O!Deleted
  <2>2. A!Held(e)
    BY <2>1 DEF PipeInv, NothingLost, HandOver
  <2> QED
    BY <2>2 DEF A!Held, A!Retained
<1> HIDE DEF Rest, Due
<1>7. Cardinality(Published) <= Cardinality(audit) + Cardinality(missed) + Cardinality(Due)
  <2>2. /\ IsFiniteSet(audit \cup missed)
        /\ Cardinality(audit \cup missed) <= Cardinality(audit) + Cardinality(missed)
    BY <1>1, CountUnion
  <2>3. /\ IsFiniteSet((audit \cup missed) \cup Due)
        /\ Cardinality((audit \cup missed) \cup Due)
             <= Cardinality(audit \cup missed) + Cardinality(Due)
    BY <1>5, <2>2, CountUnion
  <2>4. Cardinality(Published) <= Cardinality((audit \cup missed) \cup Due)
    BY <1>6, <2>3, FS_Subset
  <2>5. /\ Cardinality(Due) \in Nat /\ Cardinality(audit \cup missed) \in Nat
        /\ Cardinality((audit \cup missed) \cup Due) \in Nat
    BY <1>5, <2>2, <2>3, FS_CardinalityType
  <2> QED
    BY <1>1, <2>2, <2>3, <2>4, <2>5
<1>8. Cardinality(Stuck) \in Nat /\ Cardinality(Rest) \in Nat /\ Cardinality(Due) \in Nat
  BY <1>3, <1>5, FS_CardinalityType
<1>9. Cardinality(Stuck) <= Allowance
  BY <1>1, <1>4, <1>5, <1>7, <1>8 DEF Balance
<1> QED
  BY <1>9 DEF SlotsLostToFaults, Allowance

\* However events are published, delivered and lost, the duplicates that hold slots of the
\* audit consumer are bounded by the faults so far.
THEOREM SlotsAreLostToFaults == Spec => []SlotsLostToFaults
<1> DEFINE I == PipeInv /\ FiniteInv /\ Balance
<1>1. Init => I
  BY PipeInit, FiniteInit, BalanceInit
<1>2. I /\ [Next]_vars => I'
  BY PipeStep, FiniteStep, BalanceStep DEF PipeInv
<1>3. I => SlotsLostToFaults
  BY StuckBounded
<1> QED
  BY <1>1, <1>2, <1>3, PTL DEF Spec

\* A message of which the row exists is never acknowledged again: the opposite of what
\* RedeliverySettles asks for.
THEOREM DuplicatesStayForGood == Spec => StuckForGood
<1>1. SourceInv /\ [Next]_vars => Stuck \subseteq Stuck'
  <2> SUFFICES ASSUME SourceInv, [Next]_vars, NEW m \in Stuck PROVE m \in Stuck'
    OBVIOUS
  <2> USE DEF Stuck, auditOnly, outboxOnly
  <2>1. ASSUME UNCHANGED auditOnly PROVE m \in Stuck'
    BY <2>1
  <2>2. ASSUME NEW r \in Replica, NEW e \in Event, PublishNext(r, e) PROVE m \in Stuck'
    BY <2>2 DEF PublishNext, A!Store
  <2>3. ASSUME Subscribe \/ Ack \/ Nak \/ LoseReply PROVE m \in Stuck'
    BY <2>3 DEF Subscribe, A!Subscribe, Ack, A!Ack, Nak, A!Nak, LoseReply, A!LoseReply
  <2>4. ASSUME NEW n \in stream, Receive(n) \/ ReceiveFails(n) PROVE m \in Stuck'
    BY <2>4 DEF Receive, A!Receive, ReceiveFails, A!ReceiveFails
  <2>5. CASE UNCHANGED vars
    BY <2>1, <2>5 DEF vars
  <2> QED
    BY <2>1, <2>2, <2>3, <2>4, <2>5
    DEF Next, DomainStep, PollerStep, AuditStep, BeginTx, PublishTx, CommitTx, RollbackTx,
        DrainBegin, DrainCommit, DrainAbort
<1> QED
  BY SourceInit, SourceStep, <1>1, PTL DEF Spec, StuckForGood

-----------------------------------------------------------------------------
(* Refinement.  Only a handler's commit and an audit INSERT show in the trail; *)
(* every other step of the pipeline is a stuttering step of it.               *)

LEMMA TrailStep == SourceInv /\ [Next]_vars => [Trail!Next]_(Trail!trail)
<1> SUFFICES ASSUME SourceInv, [Next]_vars PROVE Trail!Next \/ UNCHANGED Trail!trail
  OBVIOUS
<1> USE DEF SourceInv, TypeOK, O!TypeOK, O!TxState, A!TypeOK, O!Committed
<1>1. ASSUME NEW e \in Event, CommitTx(e) PROVE Trail!Next
  <2>1. O!Committed' = O!Committed \cup {e} /\ e \notin O!Committed
    BY <1>1 DEF CommitTx, O!CommitTx
  <2>2. audit' = audit
    BY <1>1 DEF CommitTx, auditOnly
  <2>3. Trail!Commit(e)
    BY <2>1, <2>2 DEF Trail!Commit
  <2> QED
    BY <2>3 DEF Trail!Next
<1>2. ASSUME NEW m \in stream, Receive(m) PROVE Trail!Next \/ UNCHANGED Trail!trail
  <2>1. O!Committed' = O!Committed /\ audit' = audit \cup {m.ev}
    BY <1>2 DEF Receive, A!Receive, outboxOnly
  <2>2. m.ev \in O!Committed
    BY DEF NoPhantomRecord
  <2>3. CASE m.ev \in audit
    BY <2>1, <2>3 DEF Trail!trail
  <2>4. CASE m.ev \notin audit
    <3>1. Trail!Record(m.ev)
      BY <2>1, <2>2, <2>4 DEF Trail!Record
    <3> QED
      BY <2>2, <3>1 DEF Trail!Next
  <2> QED
    BY <2>3, <2>4
<1>3. ASSUME NEW e \in Event, BeginTx(e) \/ PublishTx(e) \/ RollbackTx(e)
      PROVE UNCHANGED Trail!trail
  BY <1>3 DEF BeginTx, O!BeginTx, PublishTx, O!PublishTx, RollbackTx, O!RollbackTx,
              auditOnly, Trail!trail
<1>4. ASSUME \/ \E r \in Replica : DrainBegin(r) \/ DrainCommit(r) \/ DrainAbort(r)
             \/ \E r \in Replica, e \in Event : PublishNext(r, e)
      PROVE UNCHANGED Trail!trail
  BY <1>4 DEF DrainBegin, O!DrainBegin, DrainCommit, O!DrainCommit, DrainAbort,
              O!DrainAbort, PublishNext, O!PublishNext, A!Store, auditOnly, Trail!trail
<1>5. ASSUME \/ Subscribe \/ Ack \/ Nak \/ LoseReply
             \/ \E m \in stream : ReceiveFails(m)
      PROVE UNCHANGED Trail!trail
  BY <1>5 DEF Subscribe, A!Subscribe, Ack, A!Ack, Nak, A!Nak, LoseReply, A!LoseReply,
              ReceiveFails, A!ReceiveFails, outboxOnly, Trail!trail
<1>6. CASE UNCHANGED vars
  BY <1>6 DEF vars, Trail!trail
<1> QED
  BY <1>1, <1>2, <1>3, <1>4, <1>5, <1>6 DEF Next, DomainStep, PollerStep, AuditStep

\* The pipeline implements the promise of the audit trail (its safety part):
\* only what has committed is recorded, and a record is never taken back.
THEOREM PipelineImplementsTrail == Spec => ImplementsTrail
<1>1. Init => Trail!Init
  BY DEF Init, O!Init, A!Init, Trail!Init, O!Committed
<1> QED
  BY <1>1, SourceInit, SourceStep, TrailStep, PTL DEF Spec, ImplementsTrail, Trail!Spec
=============================================================================
