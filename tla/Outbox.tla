------------------------------- MODULE Outbox -------------------------------
(***************************************************************************)
(* The transactional outbox of internal/outbox.                            *)
(*                                                                         *)
(* A domain handler writes its record and, through PublishTx, one row of   *)
(* the outbox table in a single database transaction.  A poller in every   *)
(* replica of the service drains the table: it locks the oldest rows,      *)
(* publishes each of them to JetStream, deletes it, and commits.  A drain  *)
(* that fails anywhere rolls back ALL its deletes, those of rows it has    *)
(* already published included.                                             *)
(*                                                                         *)
(* An element of Event stands for one domain transaction, for the record   *)
(* change it makes and for the envelope it enqueues, whose id is fixed     *)
(* when the row is written and never changes on a retry.                   *)
(***************************************************************************)
EXTENDS Naturals, FiniteSets

CONSTANTS Event,       (* the domain transactions, one envelope each         *)
          Replica,     (* the running pollers (one per service replica)      *)
          BatchLimit,  (* LIMIT of the drain query (100 in the code)         *)
          MaxFaults    (* bound: failed drains (errors and crashes)          *)

ASSUME OutboxAssumption ==
  /\ BatchLimit \in Nat \ {0}
  /\ MaxFaults \in Nat

VARIABLES
  tx,           (* progress of each domain transaction                       *)
  created,      (* outbox.created_at, now() at the start of the transaction  *)
  committedAt,  (* history: the moment the transaction committed, 0 before   *)
  clock,        (* the database clock: ticks at each begin and each commit   *)
  outbox,       (* the committed rows of the outbox table                    *)
  batch,        (* the rows each poller's open drain has locked              *)
  sent,         (* those of them it has published and deleted, uncommitted   *)
  published,    (* how many times each envelope was accepted by JetStream    *)
  pollers,      (* history: the pollers that have begun a drain              *)
  faults        (* drains that have failed so far                            *)

vars == <<tx, created, committedAt, clock, outbox, batch, sent, published, pollers, faults>>

TxState == {"none", "open", "enqueued", "committed", "rolledback"}

(* Definitions named ..._Mutant stand for a plausible bug in the definition    *)
(* that follows them; no behaviour of the specification uses them.             *)

\* FOR UPDATE without SKIP LOCKED's exclusion.
Locked_Mutant == {}

Committed == {e \in Event : tx[e] = "committed"}
Locked    == UNION {batch[r] : r \in Replica}
Deleted   == UNION {sent[r] : r \in Replica}

Init ==
  /\ tx = [e \in Event |-> "none"]
  /\ created = [e \in Event |-> 0]
  /\ committedAt = [e \in Event |-> 0]
  /\ clock = 0
  /\ outbox = {}
  /\ batch = [r \in Replica |-> {}]
  /\ sent = [r \in Replica |-> {}]
  /\ published = [e \in Event |-> 0]
  /\ pollers = {}
  /\ faults = 0

-----------------------------------------------------------------------------
(* The domain handler: begin, write the record, PublishTx, commit.           *)

\* The database clock stepped back.
BeginTx_Mutant(e) ==
  /\ tx[e] = "none"
  /\ tx' = [tx EXCEPT ![e] = "open"]
  /\ clock' = clock - 1
  /\ created' = [created EXCEPT ![e] = clock - 1]
  /\ UNCHANGED <<committedAt, outbox, batch, sent, published, pollers, faults>>

\* pool.Begin and the write of the record, seen by nobody before the commit.
\* created_at defaults to now(), which PostgreSQL fixes when the transaction begins.
BeginTx(e) ==
  /\ tx[e] = "none"
  /\ tx' = [tx EXCEPT ![e] = "open"]
  /\ clock' = clock + 1
  /\ created' = [created EXCEPT ![e] = clock + 1]
  /\ UNCHANGED <<committedAt, outbox, batch, sent, published, pollers, faults>>

\* PublishTx on the pool instead of the handler's transaction.
PublishTx_Mutant(e) ==
  /\ tx[e] = "open"
  /\ tx' = [tx EXCEPT ![e] = "enqueued"]
  /\ outbox' = outbox \cup {e}
  /\ UNCHANGED <<created, committedAt, clock, batch, sent, published, pollers, faults>>

\* PublishTx: the envelope joins the same transaction.
PublishTx(e) ==
  /\ tx[e] = "open"
  /\ tx' = [tx EXCEPT ![e] = "enqueued"]
  /\ UNCHANGED <<created, committedAt, clock, outbox, batch, sent, published, pollers, faults>>

\* tx.Commit: the record and the outbox row become visible together.
CommitTx(e) ==
  /\ tx[e] = "enqueued"
  /\ tx' = [tx EXCEPT ![e] = "committed"]
  /\ clock' = clock + 1
  /\ committedAt' = [committedAt EXCEPT ![e] = clock + 1]
  /\ outbox' = outbox \cup {e}
  /\ UNCHANGED <<created, batch, sent, published, pollers, faults>>

\* Any error return of the handler, or the death of its process: defer tx.Rollback.
RollbackTx(e) ==
  /\ tx[e] \in {"open", "enqueued"}
  /\ tx' = [tx EXCEPT ![e] = "rolledback"]
  /\ UNCHANGED <<created, committedAt, clock, outbox, batch, sent, published, pollers, faults>>

-----------------------------------------------------------------------------
(* The poller: drain, called by Run on every tick.                           *)

Oldest(S) == {e \in S : \A f \in S : created[e] <= created[f]}

\* LIMIT without ORDER BY.
Selections_Mutant(S) ==
  {B \in SUBSET S :
     Cardinality(B) = IF Cardinality(S) < BatchLimit THEN Cardinality(S) ELSE BatchLimit}

\* ORDER BY created_at LIMIT 100 over the rows no other drain has locked.
Selections(S) ==
  {B \in SUBSET S :
     /\ Cardinality(B) = IF Cardinality(S) < BatchLimit THEN Cardinality(S) ELSE BatchLimit
     /\ \A e \in B, f \in S \ B : created[e] < created[f]}

\* Begin and SELECT ... FOR UPDATE SKIP LOCKED.  With nothing to do the drain
\* rolls back and nothing changes.
DrainBegin(r) ==
  /\ batch[r] = {}
  /\ outbox \ Locked # {}
  /\ \E B \in Selections(outbox \ Locked) : batch' = [batch EXCEPT ![r] = B]
  /\ pollers' = pollers \cup {r}
  /\ UNCHANGED <<tx, created, committedAt, clock, outbox, sent, published, faults>>

\* One turn of the loop: js.Publish is acknowledged, then the row is deleted
\* inside the drain's transaction.
PublishNext(r, e) ==
  /\ e \in Oldest(batch[r] \ sent[r])
  /\ published' = [published EXCEPT ![e] = @ + 1]
  /\ sent' = [sent EXCEPT ![r] = @ \cup {e}]
  /\ UNCHANGED <<tx, created, committedAt, clock, outbox, batch, pollers, faults>>

\* A publish error ends the loop but not the transaction: the whole batch goes.
DrainCommit_Mutant(r) ==
  /\ batch[r] # {}
  /\ outbox' = outbox \ batch[r]
  /\ batch' = [batch EXCEPT ![r] = {}]
  /\ sent' = [sent EXCEPT ![r] = {}]
  /\ UNCHANGED <<tx, created, committedAt, clock, published, pollers, faults>>

\* The DELETE on a connection of its own that never commits.
DrainCommit_Mutant2(r) ==
  /\ batch[r] # {} /\ sent[r] = batch[r]
  /\ batch' = [batch EXCEPT ![r] = {}]
  /\ sent' = [sent EXCEPT ![r] = {}]
  /\ UNCHANGED <<tx, created, committedAt, clock, outbox, published, pollers, faults>>

\* The loop is over: tx.Commit makes the deletes durable and drops the locks.
DrainCommit(r) ==
  /\ batch[r] # {} /\ sent[r] = batch[r]
  /\ outbox' = outbox \ sent[r]
  /\ batch' = [batch EXCEPT ![r] = {}]
  /\ sent' = [sent EXCEPT ![r] = {}]
  /\ UNCHANGED <<tx, created, committedAt, clock, published, pollers, faults>>

\* A publish, delete or commit error, or the death of the poller, at any
\* point: defer tx.Rollback undoes every delete of the drain.
DrainAbort(r) ==
  /\ batch[r] # {}
  /\ faults < MaxFaults
  /\ faults' = faults + 1
  /\ batch' = [batch EXCEPT ![r] = {}]
  /\ sent' = [sent EXCEPT ![r] = {}]
  /\ UNCHANGED <<tx, created, committedAt, clock, outbox, published, pollers>>

-----------------------------------------------------------------------------

Next ==
  \/ \E e \in Event : BeginTx(e) \/ PublishTx(e) \/ CommitTx(e) \/ RollbackTx(e)
  \/ \E r \in Replica : DrainBegin(r) \/ DrainCommit(r) \/ DrainAbort(r)
  \/ \E r \in Replica, e \in Event : PublishNext(r, e)

\* Run drains on every tick of a one-second ticker until the process ends and a
\* restarted process starts it again, so no enabled poller step waits for ever.
\* A handler owes nothing: a client may go away at any time.
Fairness ==
  \A r \in Replica : /\ WF_vars(DrainBegin(r))
                     /\ WF_vars(\E e \in Event : PublishNext(r, e))
                     /\ WF_vars(DrainCommit(r))

Spec == Init /\ [][Next]_vars /\ Fairness

-----------------------------------------------------------------------------

TypeOK ==
  /\ tx \in [Event -> TxState]
  /\ created \in [Event -> Nat]
  /\ committedAt \in [Event -> Nat]
  /\ clock \in Nat
  /\ outbox \in SUBSET Event
  /\ batch \in [Replica -> SUBSET Event]
  /\ sent \in [Replica -> SUBSET Event]
  /\ published \in [Event -> Nat]
  /\ pollers \in SUBSET Replica
  /\ faults \in Nat

\* The drains' bookkeeping, which the proofs rest on: a drain holds rows of the
\* outbox, deletes rows it holds and has published, and no two drains hold one row.
DrainInv ==
  /\ \A r \in Replica : batch[r] \subseteq outbox /\ sent[r] \subseteq batch[r]
  /\ \A r, s \in Replica : r # s => batch[r] \cap batch[s] = {}
  /\ \A r \in Replica : \A e \in sent[r] : published[e] > 0
  /\ outbox \subseteq Committed
  /\ \A r \in Replica : batch[r] # {} => r \in pollers

\* The database clock orders the begins and commits.
ClockInv ==
  \A e \in Event :
    /\ created[e] <= clock /\ committedAt[e] <= clock
    /\ committedAt[e] > 0 <=> e \in Committed
    /\ committedAt[e] > 0 => created[e] < committedAt[e]

\* A record never changes without its event: whatever fails and in whatever
\* order, a committed change is still queued in the outbox or was published.
NoLostEvent ==
  \A e \in Committed : e \in outbox \/ published[e] > 0

\* No event without its record: what subscribers were told has committed, and
\* nothing that was rolled back, or may still be, was ever published.
NoPhantomEvent ==
  \A e \in Event : published[e] > 0 => e \in Committed

\* Duplicates come from failed drains and from nothing else: however many
\* pollers run, an envelope is published at most once more than drains failed.
DuplicatesNeedFaults ==
  \A e \in Event : published[e] <= 1 + faults

\* Why: a row that is queued and not deleted by an open drain has been published
\* by failed drains only.  (The inductive form of DuplicatesNeedFaults.)
FaultBudget ==
  \A e \in Event :
    published[e] <= IF e \in outbox \ Deleted THEN faults ELSE faults + 1

\* e had committed before f's transaction began.
Precedes(e, f) == committedAt[e] > 0 /\ committedAt[e] < created[f]

\* As long as a single poller drains the table, publication respects real time:
\* when e had committed before f's transaction even began, f is not published
\* before e.  (With several pollers SKIP LOCKED gives this up: one drain may hold
\* e while another takes f.)
RealTimeOrder ==
  (\A r, s \in pollers : r = s) =>
     \A e, f \in Event : (Precedes(e, f) /\ published[f] > 0) => published[e] > 0
=============================================================================
