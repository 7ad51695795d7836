---------------------------- MODULE AuditService ----------------------------
(***************************************************************************)
(* The audit service: its durable consumer "audit-service" on the          *)
(* FIELDSTONE stream and the handler of services/audit/subscriber.go.      *)
(*                                                                         *)
(* The stream has interest retention: a message is kept until the durable  *)
(* consumers that exist when it arrives have acknowledged it, and is       *)
(* dropped on arrival when there is none.  Publishers set no message id,   *)
(* so two publications of one envelope are two messages.  A message that   *)
(* was delivered stays "ack pending", to be delivered again, until it is   *)
(* acknowledged; once MaxAckPending messages are in that state no new one  *)
(* is delivered.  Stream and consumer are JetStream's, outside src/.       *)
(***************************************************************************)
EXTENDS Naturals, FiniteSets

CONSTANTS Event,          (* the envelopes publishers may send                    *)
          MaxAckPending,  (* the consumer's limit of unacknowledged messages      *)
          MaxSeq,         (* bound: messages the stream ever receives             *)
          MaxFaults       (* bound: faults (database errors, crashes, lost acks)  *)

VARIABLES
  consumer,    (* does the durable consumer exist?                            *)
  stream,      (* the messages the stream retains for it                      *)
  lastSeq,     (* messages accepted so far, dropped ones included             *)
  missed,      (* history: envelopes dropped for lack of a durable consumer   *)
  ackPending,  (* messages delivered at least once and not acknowledged       *)
  acking,      (* the message in the handler, persisted: msg.Ack comes next   *)
  naking,      (* the message in the handler, failed: msg.Nak comes next      *)
  audit,       (* envelopes with a row in audit.events (its key: id and time) *)
  faults       (* faults so far                                               *)

vars == <<consumer, stream, lastSeq, missed, ackPending, acking, naking, audit, faults>>

Message == [ev : Event, seq : Nat \ {0}]

Init ==
  /\ consumer \in BOOLEAN      \* has the audit service ever subscribed before?
  /\ stream = {}
  /\ lastSeq = 0
  /\ missed = {}
  /\ ackPending = {}
  /\ acking = {}
  /\ naking = {}
  /\ audit = {}
  /\ faults = 0

-----------------------------------------------------------------------------

\* A publisher's js.Publish(e): stored if a durable consumer has an interest,
\* acknowledged to the publisher in either case.
Store(e) ==
  /\ lastSeq < MaxSeq
  /\ lastSeq' = lastSeq + 1
  /\ IF consumer
       THEN stream' = stream \cup {[ev |-> e, seq |-> lastSeq + 1]} /\ UNCHANGED missed
       ELSE missed' = missed \cup {e} /\ UNCHANGED stream
  /\ UNCHANGED <<consumer, ackPending, acking, naking, audit, faults>>

\* main starts subscribeToAll: js.Subscribe creates the durable consumer.
Subscribe ==
  /\ ~consumer
  /\ consumer' = TRUE
  /\ UNCHANGED <<stream, lastSeq, missed, ackPending, acking, naking, audit, faults>>

\* A message the consumer may hand to its (single) callback goroutine: one to be
\* delivered again, or the oldest new one while the limit leaves room.
Deliverable(m) ==
  \/ m \in ackPending
  \/ /\ m \in stream \ ackPending
     /\ \A n \in stream \ ackPending : m.seq <= n.seq
     /\ Cardinality(ackPending) < MaxAckPending

(* Definitions named ..._Mutant stand for a plausible bug in the definition    *)
(* that follows them; no behaviour of the specification uses them.             *)

\* Redeliveries tracked by envelope instead of by message.
Receive_Mutant(m) ==
  /\ acking = {} /\ naking = {}
  /\ m \in stream
  /\ Deliverable(m)
  /\ ackPending' = ackPending \cup {m.ev}
  /\ audit' = audit \cup {m.ev}
  /\ IF m.ev \in audit
       THEN naking' = {m} /\ UNCHANGED acking
       ELSE acking' = {m} /\ UNCHANGED naking
  /\ UNCHANGED <<consumer, stream, lastSeq, missed, faults>>

\* Delivery, decoding and persistEvent.  The INSERT does nothing when the row
\* exists; its RETURNING clause then yields no row, which the query reports as
\* ErrNotFound, and the handler treats every error of persistEvent alike.
Receive(m) ==
  /\ acking = {} /\ naking = {}
  /\ m \in stream
  /\ Deliverable(m)
  /\ ackPending' = ackPending \cup {m}
  /\ audit' = audit \cup {m.ev}
  /\ IF m.ev \in audit
       THEN naking' = {m} /\ UNCHANGED acking
       ELSE acking' = {m} /\ UNCHANGED naking
  /\ UNCHANGED <<consumer, stream, lastSeq, missed, faults>>

\* An error of the database is logged and the message acknowledged.
ReceiveFails_Mutant(m) ==
  /\ acking = {} /\ naking = {}
  /\ m \in stream
  /\ Deliverable(m)
  /\ faults < MaxFaults
  /\ faults' = faults + 1
  /\ ackPending' = ackPending \cup {m}
  /\ acking' = {m}
  /\ UNCHANGED <<consumer, stream, lastSeq, missed, naking, audit>>

\* The same delivery when the database fails: nothing is persisted.
ReceiveFails(m) ==
  /\ acking = {} /\ naking = {}
  /\ m \in stream
  /\ Deliverable(m)
  /\ faults < MaxFaults
  /\ faults' = faults + 1
  /\ ackPending' = ackPending \cup {m}
  /\ naking' = {m}
  /\ UNCHANGED <<consumer, stream, lastSeq, missed, acking, audit>>

\* msg.Ack(): the last consumer has acknowledged, the stream forgets the message.
Ack ==
  /\ acking # {}
  /\ stream' = stream \ acking
  /\ ackPending' = ackPending \ acking
  /\ acking' = {}
  /\ UNCHANGED <<consumer, lastSeq, missed, naking, audit, faults>>

\* msg.Term() instead of msg.Nak().
Nak_Mutant ==
  /\ naking # {}
  /\ stream' = stream \ naking
  /\ ackPending' = ackPending \ naking
  /\ naking' = {}
  /\ UNCHANGED <<consumer, lastSeq, missed, acking, audit, faults>>

\* msg.Nak(): the message stays ack pending and is delivered again.
Nak ==
  /\ naking # {}
  /\ naking' = {}
  /\ UNCHANGED <<consumer, stream, lastSeq, missed, ackPending, acking, audit, faults>>

\* A reply that is lost takes its INSERT with it.
LoseReply_Mutant ==
  /\ acking \cup naking # {}
  /\ faults < MaxFaults
  /\ faults' = faults + 1
  /\ audit' = audit \ {m.ev : m \in acking}
  /\ acking' = {}
  /\ naking' = {}
  /\ UNCHANGED <<consumer, stream, lastSeq, missed, ackPending>>

\* The service dies after the INSERT and before the Ack, or the Ack is lost on
\* its way: after AckWait the message is delivered again.
LoseReply ==
  /\ acking \cup naking # {}
  /\ faults < MaxFaults
  /\ faults' = faults + 1
  /\ acking' = {}
  /\ naking' = {}
  /\ UNCHANGED <<consumer, stream, lastSeq, missed, ackPending, audit>>

-----------------------------------------------------------------------------

TypeOK ==
  /\ consumer \in BOOLEAN
  /\ stream \in SUBSET Message
  /\ lastSeq \in Nat
  /\ missed \in SUBSET Event
  /\ ackPending \in SUBSET Message
  /\ acking \in SUBSET Message
  /\ naking \in SUBSET Message
  /\ audit \in SUBSET Event
  /\ faults \in Nat

\* The stream still has the envelope for the audit service.
Retained(e) == \E m \in stream : m.ev = e

\* The envelope is the audit service's: recorded, or retained for it.
Held(e) == e \in audit \/ Retained(e)
=============================================================================
