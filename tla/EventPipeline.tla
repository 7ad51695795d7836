--------------------------- MODULE EventPipeline ----------------------------
(***************************************************************************)
(* The path of an event through the platform: a domain service's outbox    *)
(* and pollers (module Outbox), the FIELDSTONE stream and the audit        *)
(* service (module AuditService), composed.  The two meet where a poller's *)
(* js.Publish puts a message into the stream.                              *)
(*                                                                         *)
(* The composition is shown to implement AuditTrail.                       *)
(***************************************************************************)
EXTENDS Naturals, FiniteSets

CONSTANTS Event, Replica, BatchLimit, MaxAckPending,
          MaxSeq,     (* bound: messages the stream ever receives                *)
          MaxFaults   (* bound: faults of the pollers and the audit service      *)

ASSUME PipelineAssumption ==
  /\ BatchLimit \in Nat \ {0}
  /\ MaxAckPending \in Nat \ {0}
  /\ MaxSeq \in Nat
  /\ MaxFaults \in Nat

VARIABLES
  tx, created, committedAt, clock, outbox, batch, sent, published, pollers,
                                                                    (* Outbox   *)
  consumer, stream, lastSeq, missed, ackPending, acking, naking, audit,
                                                                    (* Audit    *)
  faults                                                            (* both     *)

O == INSTANCE Outbox
A == INSTANCE AuditService

outboxOnly == <<tx, created, committedAt, clock, outbox, batch, sent, published, pollers>>
auditOnly  == <<consumer, stream, lastSeq, missed, ackPending, acking, naking, audit>>
vars == <<tx, created, committedAt, clock, outbox, batch, sent, published, pollers,
          consumer, stream, lastSeq, missed, ackPending, acking, naking, audit, faults>>

Init == O!Init /\ A!Init

-----------------------------------------------------------------------------

BeginTx(e)    == O!BeginTx(e)    /\ UNCHANGED auditOnly
PublishTx(e)  == O!PublishTx(e)  /\ UNCHANGED auditOnly
CommitTx(e)   == O!CommitTx(e)   /\ UNCHANGED auditOnly
RollbackTx(e) == O!RollbackTx(e) /\ UNCHANGED auditOnly

DrainBegin(r)  == O!DrainBegin(r)  /\ UNCHANGED auditOnly
DrainCommit(r) == O!DrainCommit(r) /\ UNCHANGED auditOnly
DrainAbort(r)  == O!DrainAbort(r)  /\ UNCHANGED auditOnly

\* The poller publishes and the stream receives: one step of both.
PublishNext(r, e) == O!PublishNext(r, e) /\ A!Store(e)

Subscribe == A!Subscribe /\ UNCHANGED outboxOnly
Ack       == A!Ack       /\ UNCHANGED outboxOnly
Nak       == A!Nak       /\ UNCHANGED outboxOnly
LoseReply == A!LoseReply /\ UNCHANGED outboxOnly

Receive(m)      == A!Receive(m)      /\ UNCHANGED outboxOnly
ReceiveFails(m) == A!ReceiveFails(m) /\ UNCHANGED outboxOnly

DomainStep == \E e \in Event : BeginTx(e) \/ PublishTx(e) \/ CommitTx(e) \/ RollbackTx(e)
PollerStep ==
  \/ \E r \in Replica : DrainBegin(r) \/ DrainCommit(r) \/ DrainAbort(r)
  \/ \E r \in Replica, e \in Event : PublishNext(r, e)
AuditStep ==
  \/ Subscribe \/ Ack \/ Nak \/ LoseReply
  \/ \E m \in stream : Receive(m) \/ ReceiveFails(m)

Next == DomainStep \/ PollerStep \/ AuditStep

Messages == [ev : Event, seq : 1..MaxSeq]

\* Run drains on every tick of a one-second ticker, and a restarted process starts
\* it again, so no enabled poller step waits for ever.  The audit callback always
\* answers.  The server pushes redeliveries and new messages to one FIFO queue, so a
\* message that is deliverable again and again reaches it: strong fairness per
\* message.  A domain handler owes nothing (its client may go away), nor does
\* Subscribe: an operator may start the audit service late.
Fairness ==
  /\ \A r \in Replica : /\ WF_vars(DrainBegin(r))
                        /\ WF_vars(\E e \in Event : PublishNext(r, e))
                        /\ WF_vars(DrainCommit(r))
  /\ WF_vars(Ack) /\ WF_vars(Nak)
  /\ \A m \in Messages : SF_vars(Receive(m))

Spec == Init /\ [][Next]_vars /\ Fairness

-----------------------------------------------------------------------------

TypeOK == O!TypeOK /\ A!TypeOK

\* Every committed change is somewhere on its way to the audit log, whatever
\* failed: queued in the outbox, retained by the stream, or recorded.  The one
\* exception is an envelope published before the audit service first subscribed.
NothingLost ==
  \A e \in O!Committed : e \in outbox \/ A!Held(e) \/ e \in missed

\* Why nothing else is lost: what an open drain deletes has reached the audit
\* consumer, and what the consumer is about to acknowledge is in the log.
HandOver ==
  /\ \A r \in Replica : \A e \in sent[r] : A!Held(e) \/ e \in missed
  /\ \A m \in acking : m.ev \in audit

\* Every message of the stream announces a change that did commit, and the log
\* holds no change that was rolled back or may still be.
NoPhantomRecord ==
  /\ \A m \in stream : m.ev \in O!Committed
  /\ audit \subseteq O!Committed

\* Messages that nobody will acknowledge any more: their envelope has its row in the audit
\* log already, so that the handler refuses them at each delivery.
Stuck == {m \in stream : m.ev \in audit} \ acking

\* Each failure, of a drain or of an acknowledgement, costs the audit consumer at most one
\* batch of its MaxAckPending slots, and nothing else costs it any.
SlotsLostToFaults == Cardinality(Stuck) <= BatchLimit * faults

\* What is stuck stays so, however often it is delivered again.
StuckForGood == [][Stuck \subseteq Stuck']_vars

\* The composition implements the promise, under the refinement mapping that
\* reads the committed transactions and the rows of the audit table.
Trail == INSTANCE AuditTrail WITH committed <- O!Committed, recorded <- audit

ImplementsTrail == Trail!Spec

\* Every committed change is recorded in the end, once faults stop, unless it was
\* published before the audit service first subscribed.
EventuallyRecorded ==
  \A e \in Event : e \in O!Committed ~> (e \in audit \/ e \in missed)

\* docs/services.md: redelivery is idempotent.  A message delivered again is
\* acknowledged in the end.
RedeliverySettles ==
  \A m \in Messages : m \in stream ~> m \notin stream
=============================================================================
