------------------------------ MODULE Paging --------------------------------
(***************************************************************************)
(* The listings of the services (permits, requests, FOIA requests, audit   *)
(* events), read page by page while their table is written to.  A page is  *)
(* one SELECT: the rows that match the filter, in the order of their time  *)
(* stamp, newest first, from OFFSET on, LIMIT at most.  The total is a     *)
(* second SELECT, in no transaction with the first.                        *)
(*                                                                         *)
(* A row carries the time its transaction began (now(); for an audit event *)
(* the time the publisher wrote it) and appears when it commits, so rows   *)
(* appear in the middle of the order, and rows with the same stamp have    *)
(* no order among them: each statement may return them in another one.     *)
(* A status update takes a row into a status filter or out of it.          *)
(*                                                                         *)
(* Whoever pages is outside src/'s services: a client that asks for the    *)
(* next page, by the limit the last answer named, until one is short.      *)
(***************************************************************************)
EXTENDS Integers, FiniteSets

CONSTANTS Row, Client,
          Param,      (* what a client may give as limit; NoNumber stands for no integer *)
          NoNumber,
          Default,    (* the limit if none is given (20, or 50 for audit events)         *)
          Width,      (* 2^32 in the code: the number of values of an int32              *)
          MaxStamp,   (* bound: times at which rows are begun                            *)
          MaxUpdates  (* bound: status updates that change what a filter selects         *)

ASSUME PagingAssumption ==
  /\ IsFiniteSet(Row)
  /\ Param \subseteq Int \cup {NoNumber}
  /\ NoNumber \notin Int
  /\ Width \in Nat /\ Width % 2 = 0
  /\ Default \in 0..(Width \div 2 - 1)

VARIABLES
  now,      (* the database clock                                             *)
  stamp,    (* created_at of each row, 0 before its transaction begins        *)
  inserted, (* the rows whose transaction has committed                       *)
  selected, (* the rows with the status clients filter by                     *)
  updates,  (* status updates so far                                          *)
  client    (* each client's progress through the listing                     *)

table == <<now, stamp, inserted, selected, updates>>
vars == <<table, client>>

\* seen: the rows on the pages so far.  due: the rows that matched when the client began.
\* left: those that have stopped to match since.  All three are history.
NoClient == [pc |-> "new", filter |-> FALSE, limit |-> 0, offset |-> 0, page |-> {},
             seen |-> {}, due |-> {}, left |-> {}]

Init ==
  /\ now = 1
  /\ stamp = [r \in Row |-> 0]
  /\ inserted = {}
  /\ selected \in SUBSET Row
  /\ updates = 0
  /\ client = [c \in Client |-> NoClient]

-----------------------------------------------------------------------------
(* Writers.                                                                  *)

Tick ==
  /\ now < MaxStamp
  /\ now' = now + 1
  /\ UNCHANGED <<stamp, inserted, selected, updates, client>>

BeginInsert(r) ==
  /\ stamp[r] = 0
  /\ stamp' = [stamp EXCEPT ![r] = now]
  /\ UNCHANGED <<now, inserted, selected, updates, client>>

CommitInsert(r) ==
  /\ stamp[r] # 0 /\ r \notin inserted
  /\ inserted' = inserted \cup {r}
  /\ UNCHANGED <<now, stamp, selected, updates, client>>

\* A status update commits: the row leaves the filter or enters it.
UpdateStatus(r) ==
  /\ updates < MaxUpdates
  /\ r \in inserted
  /\ updates' = updates + 1
  /\ selected' = IF r \in selected THEN selected \ {r} ELSE selected \cup {r}
  /\ client' = [c \in Client |-> IF client[c].filter /\ r \in selected
                                 THEN [client[c] EXCEPT !.left = @ \cup {r}] ELSE client[c]]
  /\ UNCHANGED <<now, stamp, inserted>>

-----------------------------------------------------------------------------
(* The listing.                                                              *)

(* Definitions named ..._Mutant stand for a plausible bug in the definition  *)
(* that follows them; no behaviour of the specification uses them.           *)

\* parseIntParam: the default for what is no integer, or negative.
parseIntParam(v, def) == IF v = NoNumber \/ v < 0 THEN def ELSE v

\* The conversion saturates.
int32_Mutant(v) == IF v >= Width \div 2 THEN Width \div 2 ELSE v

\* The conversion drops the high bits.
int32(v) == ((v + Width \div 2) % Width) - Width \div 2

\* WHERE status = $1, or none.
Matching(filter) == IF filter THEN inserted \cap selected ELSE inserted

\* Rows come as they lie in the table.
Ranks_Mutant(S) ==
  {rank \in [S -> 1..Cardinality(S)] : \A q, r \in S : rank[q] = rank[r] => q = r}

\* ORDER BY created_at DESC: the places a statement may give the rows of S.
Ranks(S) ==
  {rank \in [S -> 1..Cardinality(S)] :
     \A q, r \in S : /\ rank[q] = rank[r] => q = r
                     /\ stamp[q] > stamp[r] => rank[q] < rank[r]}

\* A page begins with the last row of the one before.
Window_Mutant(rank, offset, limit) ==
  {r \in DOMAIN rank : offset <= rank[r] /\ rank[r] <= offset + limit}

Window(rank, offset, limit) ==
  {r \in DOMAIN rank : offset < rank[r] /\ rank[r] <= offset + limit}

Goes(c, pc) == client' = [client EXCEPT ![c].pc = pc]

\* A client begins with the first page, of all rows or of one status.
Begin(c) ==
  /\ client[c].pc = "new"
  /\ \E filter \in BOOLEAN, v \in Param :
       client' = [client EXCEPT ![c] =
         [NoClient EXCEPT !.pc = "asking", !.filter = filter, !.due = Matching(filter),
                          !.limit = int32(parseIntParam(v, Default))]]
  /\ UNCHANGED table

\* A filter may be malformed: 400.  LIMIT and OFFSET must not be negative, and the database
\* may fail: 500.
ListFails(c) ==
  /\ client[c].pc = "asking"
  /\ Goes(c, "failed")
  /\ UNCHANGED table

\* The page is dropped when the total cannot be had.
CountFails(c) ==
  /\ client[c].pc = "counting"
  /\ client' = [client EXCEPT ![c] = [@ EXCEPT !.pc = "failed", !.page = {}]]
  /\ UNCHANGED table

\* The page ...
List(c) ==
  LET offset == int32(client[c].offset) IN
  /\ client[c].pc = "asking"
  /\ client[c].limit >= 0 /\ offset >= 0
  /\ \E rank \in Ranks(Matching(client[c].filter)) :
       client' = [client EXCEPT ![c] =
         [@ EXCEPT !.pc = "counting", !.page = Window(rank, offset, client[c].limit)]]
  /\ UNCHANGED table

\* ... and then the total, with which the answer is sent.
Count(c) ==
  /\ client[c].pc = "counting"
  /\ Goes(c, "answered")
  /\ UNCHANGED table

\* A page with fewer rows than asked for is the last one.  The client counts on as far as it
\* reads; what it asks for is converted by the service.
NextPage(c) ==
  LET short == client[c].page = {} \/ Cardinality(client[c].page) < client[c].limit IN
  /\ client[c].pc = "answered"
  /\ client' = [client EXCEPT ![c] =
       [@ EXCEPT !.pc = IF short THEN "done" ELSE "asking",
                 !.offset = client[c].offset + client[c].limit,
                 !.seen = client[c].seen \cup client[c].page, !.page = {}]]
  /\ UNCHANGED table

Next ==
  \/ Tick
  \/ \E r \in Row : BeginInsert(r) \/ CommitInsert(r) \/ UpdateStatus(r)
  \/ \E c \in Client : Begin(c) \/ List(c) \/ ListFails(c) \/ Count(c) \/ CountFails(c) \/ NextPage(c)

Spec == Init /\ [][Next]_vars

-----------------------------------------------------------------------------

TypeOK ==
  /\ now \in Nat
  /\ stamp \in [Row -> Nat]
  /\ inserted \subseteq Row /\ selected \subseteq Row
  /\ updates \in Nat
  /\ client \in [Client ->
       [pc : {"new", "asking", "counting", "answered", "done", "failed"}, filter : BOOLEAN,
        limit : -(Width \div 2) .. (Width \div 2 - 1), offset : Nat, page : SUBSET Row,
        seen : SUBSET Row, due : SUBSET Row, left : SUBSET Row]]

\* A client that has read to the end has seen every row that was there when it began, or
\* the row, or one that came before it, left the filter meanwhile, or another row has its
\* very stamp, or a limit was asked for that converts to 0.  Rows that appear meanwhile
\* make others be seen twice, but never missed.
MissedForCause ==
  \A c \in Client : client[c].pc = "done" =>
    \A r \in client[c].due \ client[c].seen :
      \/ \E q \in client[c].left : q = r \/ stamp[q] > stamp[r]
      \/ \E q \in inserted \ {r} : stamp[q] = stamp[r]
      \/ client[c].limit = 0

\* A page repeats a row that was on an earlier one only if the listing has by now a row that
\* pushed it back: one that is newer and was not there when the client began, or has left and
\* come back since, or one that has its very stamp.  Where rows neither appear nor come
\* back, each is shown once, whatever leaves.
Repeat(c, r) ==
  \E q \in Matching(client[c].filter) \ {r} :
    \/ stamp[q] = stamp[r]
    \/ stamp[q] > stamp[r] /\ q \notin client[c].due \ client[c].left

RepeatedForCause ==
  [][\A c \in Client :
       \A r \in (client'[c].page \ client[c].page) \cap client[c].seen : Repeat(c, r)]_vars
=============================================================================
