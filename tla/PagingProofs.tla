------------------------------ MODULE PagingProofs -----------------------------
(***************************************************************************)
(* Proofs about module Paging, for any finite set of rows, any clients and *)
(* limits they may ask for, any width of an integer, and any bounds.       *)
(***************************************************************************)
EXTENDS Paging, FiniteSetTheorems, TLAPS

-----------------------------------------------------------------------------
(* Orders of a page.                                                         *)

LEMMA FiniteRows ==
  ASSUME NEW S \in SUBSET Row, NEW T \in SUBSET S
  PROVE  /\ IsFiniteSet(S) /\ IsFiniteSet(T)
         /\ Cardinality(S) \in Nat /\ Cardinality(T) \in Nat
         /\ Cardinality(T) <= Cardinality(S)
  BY FS_Subset, FS_CardinalityType, PagingAssumption

\* The rows on the places from a + 1 to b.
Slice(rank, a, b) == {q \in DOMAIN rank : a < rank[q] /\ rank[q] <= b}

\* An order leaves no place empty: there are b - a rows on them.
LEMMA SliceSize ==
  ASSUME NEW S \in SUBSET Row, NEW rank \in Ranks(S),
         NEW a \in Nat, NEW b \in Nat, a <= b, b <= Cardinality(S)
  PROVE  Slice(rank, a, b) \in SUBSET S /\ Cardinality(Slice(rank, a, b)) = b - a
<1> DEFINE n == Cardinality(S)
           P == Slice(rank, a, b)
           f == [q \in P |-> rank[q]]
<1>1. /\ n \in Nat /\ IsFiniteSet(S)
      /\ rank \in [S -> 1..n] /\ \A q, r \in S : rank[q] = rank[r] => q = r
  BY FiniteRows DEF Ranks
<1>2. IsFiniteSet(1..n) /\ Cardinality(1..n) = n
  BY <1>1, FS_Interval
<1>3. rank \in Injection(S, 1..n)
  BY <1>1 DEF Injection, IsInjective
<1>4. rank \in Surjection(S, 1..n)
  BY <1>2, <1>3, FS_Injection
<1>5. \A i \in 1..n : \E q \in S : rank[q] = i
  BY <1>4 DEF Surjection
<1>6. P \in SUBSET S /\ \A q \in P : rank[q] \in (a + 1)..b
  BY <1>1 DEF Slice
<1>7. \A i \in (a + 1)..b : \E q \in P : rank[q] = i
  <2> SUFFICES ASSUME NEW i \in (a + 1)..b PROVE \E q \in P : rank[q] = i
    OBVIOUS
  <2>1. i \in 1..n /\ a < i /\ i <= b
    BY <1>1
  <2>2. PICK q \in S : rank[q] = i
    BY <1>5, <2>1
  <2>3. q \in P
    BY <1>1, <2>1, <2>2 DEF Slice
  <2> QED
    BY <2>2, <2>3
<1> HIDE DEF P
<1>8. f \in Bijection(P, (a + 1)..b)
  <2>1. f \in [P -> (a + 1)..b] /\ \A q \in P : f[q] = rank[q]
    BY <1>6
  <2>2. \A q, r \in P : f[q] = f[r] => q = r
    BY <1>1, <1>6, <2>1
  <2>3. \A i \in (a + 1)..b : \E q \in P : f[q] = i
    BY <1>7, <2>1
  <2> HIDE DEF f
  <2> QED
    BY <2>1, <2>2, <2>3 DEF Bijection, Injection, IsInjective, Surjection
<1>9. IsFiniteSet(P) /\ Cardinality(P) = Cardinality((a + 1)..b)
  <2>1. IsFiniteSet(P)
    BY <1>6, FiniteRows
  <2>2. ExistsBijection(P, (a + 1)..b)
    BY <1>8 DEF ExistsBijection
  <2> QED
    BY <2>1, <2>2, FS_Bijection
<1>10. Cardinality((a + 1)..b) = b - a
  <2>1. a + 1 \in Int /\ b \in Int
    OBVIOUS
  <2>2. Cardinality((a + 1)..b) = IF a + 1 > b THEN 0 ELSE b - (a + 1) + 1
    BY <2>1, FS_Interval
  <2> QED
    BY <2>2
<1> QED
  BY <1>6, <1>9, <1>10 DEF P

\* The rows of S that any order puts before r.
Before(S, r) == {q \in S : stamp[q] > stamp[r]}

\* A row stands behind all rows that are newer.
LEMMA BehindNewer ==
  ASSUME NEW S \in SUBSET Row, NEW rank \in Ranks(S), NEW r \in S, NEW k \in Nat,
         Cardinality(Before(S, r)) >= k
  PROVE  rank[r] > k
<1>1. /\ Cardinality(S) \in Nat /\ rank \in [S -> 1..Cardinality(S)]
      /\ \A q \in S : stamp[q] > stamp[r] => rank[q] < rank[r]
  BY FiniteRows DEF Ranks
<1> DEFINE m == rank[r] - 1
<1>2. m \in Nat /\ m <= Cardinality(S)
  BY <1>1
<1>3. Slice(rank, 0, m) \in SUBSET S /\ Cardinality(Slice(rank, 0, m)) = m - 0
  BY <1>2, SliceSize
<1>4. Before(S, r) \in SUBSET Slice(rank, 0, m)
  BY <1>1 DEF Before, Slice
<1>5. Cardinality(Before(S, r)) <= m /\ Cardinality(Before(S, r)) \in Nat
  <2>1. Slice(rank, 0, m) \in SUBSET Row
    BY <1>3
  <2> QED
    BY <1>2, <1>3, <1>4, <2>1, FiniteRows
<1> QED
  BY <1>1, <1>2, <1>5

\* And if no other row has its stamp, before all others.
LEMMA OnlyNewerBefore ==
  ASSUME NEW S \in SUBSET Row, NEW rank \in Ranks(S), NEW r \in S, NEW k \in Nat,
         stamp \in [Row -> Nat], \A q \in S \ {r} : stamp[q] # stamp[r], rank[r] > k
  PROVE  Cardinality(Before(S, r)) >= k
<1>1. /\ Cardinality(S) \in Nat /\ rank \in [S -> 1..Cardinality(S)]
      /\ \A q \in S : stamp[r] > stamp[q] => rank[r] < rank[q]
  BY FiniteRows DEF Ranks
<1>2. k <= Cardinality(S)
  BY <1>1
<1>3. Slice(rank, 0, k) \in SUBSET S /\ Cardinality(Slice(rank, 0, k)) = k - 0
  BY <1>2, SliceSize
<1>4. Slice(rank, 0, k) \in SUBSET Before(S, r)
  <2> SUFFICES ASSUME NEW q \in Slice(rank, 0, k) PROVE q \in Before(S, r)
    OBVIOUS
  <2>1. q \in S /\ rank[q] <= k
    BY <1>1 DEF Slice
  <2>2. rank[q] \in Nat /\ rank[r] \in Nat /\ stamp[q] \in Nat /\ stamp[r] \in Nat
    BY <1>1, <2>1
  <2>3. q # r /\ ~(stamp[r] > stamp[q])
    BY <1>1, <2>1, <2>2
  <2> QED
    BY <2>1, <2>2, <2>3 DEF Before
<1>5. Cardinality(Slice(rank, 0, k)) <= Cardinality(Before(S, r))
  <2>1. Before(S, r) \in SUBSET Row
    BY DEF Before
  <2> QED
    BY <1>4, <2>1, FiniteRows
<1> QED
  BY <1>3, <1>5

\* A page that stops short of a row is full.
LEMMA PageFull ==
  ASSUME NEW S \in SUBSET Row, NEW rank \in Ranks(S), NEW r \in S,
         NEW offset \in Nat, NEW limit \in Nat, rank[r] > offset + limit
  PROVE  Cardinality(Window(rank, offset, limit)) = limit
<1>1. Cardinality(S) \in Nat /\ rank \in [S -> 1..Cardinality(S)]
  BY FiniteRows DEF Ranks
<1>2. offset + limit \in Nat /\ offset <= offset + limit /\ offset + limit <= Cardinality(S)
  BY <1>1
<1>3. Cardinality(Slice(rank, offset, offset + limit)) = (offset + limit) - offset
  BY <1>2, SliceSize
<1> QED
  BY <1>3 DEF Slice, Window

-----------------------------------------------------------------------------
(* Types.                                                                    *)

Int32 == -(Width \div 2) .. (Width \div 2 - 1)

\* The conversion ends up in the type's range.
LEMMA Conversion ==
  ASSUME NEW v \in Param
  PROVE  int32(parseIntParam(v, Default)) \in Int32
<1> DEFINE h == Width \div 2
           x == parseIntParam(v, Default)
<1>1. h \in Int /\ Width = 2 * h /\ h > 0 /\ Default \in Int
  BY PagingAssumption
<1>2. x \in Int
  BY <1>1, PagingAssumption DEF parseIntParam
<1>3. int32(x) = ((x + h) % Width) - h
  BY DEF int32
<1> HIDE DEF h, x
<1>4. x + h \in Int /\ Width \in Int /\ Width > 0
  BY <1>1, <1>2
<1>5. (x + h) % Width \in 0..(Width - 1)
  BY <1>4
<1>6. ((x + h) % Width) - h \in (0 - h)..(h - 1)
  BY <1>1, <1>5
<1> QED
  BY <1>1, <1>3, <1>6 DEF Int32, h, x

\* Below the width, only what it leaves alone does not come out negative.
LEMMA Unconverted ==
  ASSUME NEW v \in Nat, v < Width, int32(v) >= 0
  PROVE  int32(v) = v /\ v < Width \div 2
<1> DEFINE h == Width \div 2
<1>1. h \in Int /\ Width = 2 * h /\ h > 0
  BY PagingAssumption
<1>2. int32(v) = ((v + h) % Width) - h
  BY DEF int32
<1> HIDE DEF h
<1>3. CASE v < h
  <2>1. v + h \in 0..(Width - 1)
    BY <1>1, <1>3
  <2>2. (v + h) % Width = v + h
    BY <1>1, <2>1
  <2> QED
    BY <1>1, <1>2, <1>3, <2>2 DEF h
<1>4. CASE v >= h
  <2>1. v - h \in 0..(Width - 1) /\ v + h = (v - h) + Width
    BY <1>1, <1>4
  <2>2. (v + h) % Width = v - h
    BY <1>1, <2>1
  <2> QED
    BY <1>1, <1>2, <1>4, <2>2
<1> QED
  BY <1>1, <1>3, <1>4

ClientType ==
  [pc : {"new", "asking", "counting", "answered", "done", "failed"}, filter : BOOLEAN,
   limit : Int32, offset : Nat, page : SUBSET Row,
   seen : SUBSET Row, due : SUBSET Row, left : SUBSET Row]

\* Whoever has been given a page asked for no negative number of rows, from a place that an
\* int32 holds; so the place of the next page has not come round to the first.
Fits(w) ==
  /\ w.offset < Width
  /\ w.pc \in {"counting", "answered"} => w.limit >= 0 /\ w.offset < Width \div 2

\* Rows have a stamp from their begin, and what a client remembers has been there.
RowInv ==
  /\ 1 <= now /\ \A r \in inserted : stamp[r] # 0
  /\ \A c \in Client :
       /\ client[c].due \subseteq inserted /\ client[c].left \subseteq inserted
       /\ Fits(client[c])

Ground == TypeOK /\ RowInv

LEMMA ClientTyped ==
  TypeOK <=> /\ now \in Nat
             /\ stamp \in [Row -> Nat]
             /\ inserted \subseteq Row /\ selected \subseteq Row
             /\ updates \in Nat
             /\ client \in [Client -> ClientType]
  BY DEF TypeOK, ClientType, Int32

LEMMA NoClientTyped ==
  /\ NoClient \in ClientType /\ NoClient.offset = 0 /\ NoClient.left = {}
  /\ NoClient.page = {} /\ NoClient.seen = {}
<1>1. 0 \in Int32
  BY PagingAssumption DEF Int32
<1> QED
  BY <1>1 DEF NoClient, ClientType

LEMMA InitGround == Init => Ground
  BY NoClientTyped, ClientTyped, PagingAssumption DEF Init, Ground, RowInv, NoClient, Fits

LEMMA MatchingRows ==
  ASSUME Ground, NEW filter \in BOOLEAN
  PROVE  Matching(filter) \subseteq inserted /\ Matching(filter) \in SUBSET Row
  BY DEF Ground, TypeOK, Matching

\* What a step of the listing does to its client; the others and the table stay.
Step(c, w) == client' = [client EXCEPT ![c] = w] /\ UNCHANGED table

LEMMA StepGround ==
  ASSUME Ground, NEW c \in Client, NEW w \in ClientType, Step(c, w),
         w.due \subseteq inserted, w.left \subseteq inserted, Fits(w)
  PROVE  Ground'
<1>1. client \in [Client -> ClientType]
  BY ClientTyped DEF Ground
<1>2. client' \in [Client -> ClientType] /\ client'[c] = w
      /\ \A d \in Client \ {c} : client'[d] = client[d]
  BY <1>1 DEF Step
<1>3. TypeOK'
  BY <1>2, ClientTyped DEF Step, table, Ground, TypeOK, ClientType, Int32
<1>4. RowInv'
  BY <1>2 DEF Step, table, Ground, RowInv
<1> QED
  BY <1>3, <1>4 DEF Ground

\* The steps of the listing, as changes of one client.
LEMMA BeginStep ==
  ASSUME Ground, NEW c \in Client, Begin(c)
  PROVE  \E w \in ClientType :
           /\ Step(c, w) /\ w.pc = "asking" /\ w.offset = 0
           /\ w.due = Matching(w.filter) /\ w.left = {} /\ w.page = {} /\ w.seen = {}
<1>1. PICK filter \in BOOLEAN, v \in Param :
        client' = [client EXCEPT ![c] =
          [NoClient EXCEPT !.pc = "asking", !.filter = filter, !.due = Matching(filter),
                           !.limit = int32(parseIntParam(v, Default))]]
  BY DEF Begin
<1> DEFINE l == int32(parseIntParam(v, Default))
           m == Matching(filter)
           w == [NoClient EXCEPT !.pc = "asking", !.filter = filter, !.due = m, !.limit = l]
<1>2. l \in Int32 /\ m \in SUBSET Row
  BY Conversion, MatchingRows
<1>3. Step(c, w)
  BY <1>1 DEF Begin, Step
<1> HIDE DEF l
<1>4. /\ NoClient \in ClientType /\ NoClient.offset = 0 /\ NoClient.left = {}
      /\ NoClient.page = {} /\ NoClient.seen = {}
  BY NoClientTyped
<1>5. /\ w \in ClientType /\ w.pc = "asking" /\ w.offset = 0 /\ w.left = {}
      /\ w.page = {} /\ w.seen = {} /\ w.due = m /\ w.filter = filter
  <2> HIDE DEF m
  <2> QED
    BY <1>2, <1>4 DEF ClientType
<1> HIDE DEF w
<1> QED
  BY <1>3, <1>5

\* A client that fails remembers what it was due.
LEMMA FailStep ==
  ASSUME Ground, NEW c \in Client, ListFails(c) \/ CountFails(c)
  PROVE  \E w \in ClientType :
           /\ Step(c, w) /\ w.pc = "failed" /\ w.offset = client[c].offset
           /\ w.due = client[c].due /\ w.left = client[c].left
           /\ w.page \subseteq client[c].page
<1>1. client \in [Client -> ClientType] /\ client[c] \in ClientType
  BY ClientTyped DEF Ground
<1>2. CASE ListFails(c)
  <2>1. [client[c] EXCEPT !.pc = "failed"] \in ClientType
    BY <1>1 DEF ClientType
  <2>2. Step(c, [client[c] EXCEPT !.pc = "failed"])
    BY <1>1, <1>2 DEF ListFails, Goes, Step
  <2> QED
    BY <1>1, <2>1, <2>2 DEF ClientType
<1>3. CASE CountFails(c)
  <2>1. [client[c] EXCEPT !.pc = "failed", !.page = {}] \in ClientType
    BY <1>1 DEF ClientType
  <2>2. Step(c, [client[c] EXCEPT !.pc = "failed", !.page = {}])
    BY <1>1, <1>3 DEF CountFails, Step
  <2> QED
    BY <1>1, <2>1, <2>2 DEF ClientType
<1> QED
  BY <1>2, <1>3

\* A client that goes on keeps its filter, its limit and its past.
Kept(c, w) ==
  /\ w.filter = client[c].filter /\ w.limit = client[c].limit
  /\ w.due = client[c].due /\ w.left = client[c].left

LEMMA ListStep ==
  ASSUME Ground, NEW c \in Client, List(c)
  PROVE  /\ client[c].pc = "asking" /\ client[c].limit >= 0
         /\ \E w \in ClientType, rank \in Ranks(Matching(client[c].filter)) :
              /\ Step(c, w) /\ Kept(c, w) /\ w.pc = "counting"
              /\ w.offset = client[c].offset /\ w.seen = client[c].seen
              /\ w.page = Window(rank, client[c].offset, client[c].limit) /\ Fits(w)
<1>1. client \in [Client -> ClientType] /\ client[c] \in ClientType
  BY ClientTyped DEF Ground
<1>2. int32(client[c].offset) = client[c].offset /\ client[c].offset < Width \div 2
  <2>1. client[c].offset \in Nat /\ client[c].offset < Width /\ int32(client[c].offset) >= 0
    BY <1>1 DEF List, Ground, RowInv, Fits, ClientType
  <2> QED
    BY <2>1, Unconverted
<1>3. PICK rank \in Ranks(Matching(client[c].filter)) :
        client' = [client EXCEPT ![c] =
          [@ EXCEPT !.pc = "counting",
                    !.page = Window(rank, client[c].offset, client[c].limit)]]
  BY <1>2 DEF List
<1> DEFINE page == Window(rank, client[c].offset, client[c].limit)
           w == [client[c] EXCEPT !.pc = "counting", !.page = page]
<1>4. page \in SUBSET Row
  <2>1. Matching(client[c].filter) \in SUBSET Row
    BY <1>1, MatchingRows DEF ClientType
  <2> QED
    BY <2>1 DEF Ranks, Window
<1>5. Step(c, w)
  BY <1>1, <1>3 DEF List, Step
<1>6. w \in ClientType
  <2> HIDE DEF page
  <2> QED
    BY <1>1, <1>4 DEF ClientType
<1>7. /\ Kept(c, w) /\ w.pc = "counting" /\ w.offset = client[c].offset
      /\ w.seen = client[c].seen /\ w.page = page
  <2> HIDE DEF page
  <2> QED
    BY <1>1 DEF ClientType, Kept
<1> HIDE DEF w
<1>8. client[c].pc = "asking" /\ client[c].limit >= 0
  BY DEF List
<1>9. Fits(w)
  BY <1>2, <1>1, <1>7, <1>8 DEF Fits, Kept, Ground, RowInv
<1> QED
  BY <1>5, <1>6, <1>7, <1>8, <1>9

LEMMA CountStep ==
  ASSUME Ground, NEW c \in Client, Count(c)
  PROVE  /\ client[c].pc = "counting"
         /\ \E w \in ClientType :
              /\ Step(c, w) /\ Kept(c, w) /\ w.pc = "answered"
              /\ w.offset = client[c].offset /\ w.seen = client[c].seen
              /\ w.page = client[c].page
<1>1. client \in [Client -> ClientType] /\ client[c] \in ClientType
  BY ClientTyped DEF Ground
<1>2. [client[c] EXCEPT !.pc = "answered"] \in ClientType
  BY <1>1 DEF ClientType
<1>3. Step(c, [client[c] EXCEPT !.pc = "answered"])
  BY <1>1 DEF Count, Goes, Step
<1> QED
  BY <1>1, <1>2, <1>3 DEF Count, ClientType, Kept

LEMMA NextPageStep ==
  ASSUME Ground, NEW c \in Client, NextPage(c)
  PROVE  /\ client[c].pc = "answered" /\ client[c].limit >= 0
         /\ client[c].offset + client[c].limit < Width
         /\ \E w \in ClientType :
              /\ Step(c, w) /\ Kept(c, w)
              /\ w.pc = IF client[c].page = {} \/ Cardinality(client[c].page) < client[c].limit
                        THEN "done" ELSE "asking"
              /\ w.offset = client[c].offset + client[c].limit
              /\ w.seen = client[c].seen \cup client[c].page /\ w.page = {}
<1>1. client \in [Client -> ClientType] /\ client[c] \in ClientType
  BY ClientTyped DEF Ground
<1>2. /\ client[c].pc = "answered" /\ client[c].limit >= 0
      /\ client[c].offset < Width \div 2
  BY DEF NextPage, Ground, RowInv, Fits
<1> DEFINE short == client[c].page = {} \/ Cardinality(client[c].page) < client[c].limit
           pc == IF short THEN "done" ELSE "asking"
           offset == client[c].offset + client[c].limit
           seen == client[c].seen \cup client[c].page
           w == [client[c] EXCEPT !.pc = pc, !.offset = offset, !.seen = seen, !.page = {}]
<1>3. pc \in {"done", "asking"}
  OBVIOUS
<1>4. offset \in Nat /\ seen \in SUBSET Row
  <2>1. client[c].offset \in Nat /\ client[c].limit \in Int
    BY <1>1, PagingAssumption DEF ClientType, Int32
  <2>2. offset \in Nat
    BY <1>2, <2>1
  <2> QED
    BY <1>1, <2>2 DEF ClientType
<1>5. offset < Width
  <2>1. client[c].offset \in Nat /\ client[c].limit \in Int32
    BY <1>1 DEF ClientType
  <2> QED
    BY <1>2, <2>1, PagingAssumption DEF Int32
<1>6. Step(c, w)
  BY <1>1 DEF NextPage, Step
<1>7. w \in ClientType
  <2> HIDE DEF pc, offset, seen
  <2> QED
    BY <1>1, <1>3, <1>4 DEF ClientType
<1>8. Kept(c, w) /\ w.pc = pc /\ w.offset = offset /\ w.seen = seen /\ w.page = {}
  <2> HIDE DEF pc, offset, seen
  <2> QED
    BY <1>1 DEF ClientType, Kept
<1> HIDE DEF w
<1> QED
  BY <1>2, <1>5, <1>6, <1>7, <1>8

\* Each step keeps the types.
LEMMA NextGround == Ground /\ [Next]_vars => Ground'
<1> SUFFICES ASSUME Ground, [Next]_vars PROVE Ground'
  OBVIOUS
<1>0. client \in [Client -> ClientType]
  BY ClientTyped DEF Ground
<1>1. CASE UNCHANGED vars
  BY <1>1 DEF vars, table, Ground, TypeOK, RowInv, Fits
<1>2. CASE Tick
  BY <1>2 DEF Tick, Ground, TypeOK, RowInv, Fits
<1>3. ASSUME NEW r \in Row, BeginInsert(r) PROVE Ground'
  BY <1>3 DEF BeginInsert, Ground, TypeOK, RowInv, Fits
<1>4. ASSUME NEW r \in Row, CommitInsert(r) PROVE Ground'
  BY <1>4 DEF CommitInsert, Ground, TypeOK, RowInv, Fits
<1>5. ASSUME NEW r \in Row, UpdateStatus(r) PROVE Ground'
  <2>1. \A c \in Client :
          client'[c] = IF client[c].filter /\ r \in selected
                       THEN [client[c] EXCEPT !.left = @ \cup {r}] ELSE client[c]
    BY <1>5 DEF UpdateStatus
  <2>2. \A c \in Client : [client[c] EXCEPT !.left = @ \cup {r}] \in ClientType
    BY <1>0 DEF ClientType
  <2>3. client' \in [Client -> ClientType]
    BY <1>0, <1>5, <2>1, <2>2 DEF UpdateStatus
  <2>4. TypeOK'
    <3>1. /\ selected' \subseteq Row /\ updates' \in Nat
          /\ UNCHANGED <<now, stamp, inserted>>
      BY <1>5 DEF UpdateStatus, Ground, TypeOK
    <3>2. now' \in Nat /\ stamp' \in [Row -> Nat] /\ inserted' \subseteq Row
      BY <3>1 DEF Ground, TypeOK
    <3> QED
      BY <2>3, <3>1, <3>2 DEF TypeOK, ClientType, Int32
  <2>5. \A c \in Client : /\ client'[c].due = client[c].due /\ client'[c].pc = client[c].pc
                          /\ client'[c].limit = client[c].limit
                          /\ client'[c].offset = client[c].offset
                          /\ client'[c].left \subseteq client[c].left \cup {r}
    BY <1>0, <2>1 DEF ClientType
  <2>6. RowInv'
    BY <1>5, <2>5 DEF UpdateStatus, Ground, RowInv, Fits
  <2> QED
    BY <2>4, <2>6 DEF Ground
<1>6. ASSUME NEW c \in Client, Begin(c) PROVE Ground'
  BY <1>0, <1>6, BeginStep, StepGround, MatchingRows, PagingAssumption DEF ClientType, Fits
<1>7. ASSUME NEW c \in Client, ListFails(c) \/ CountFails(c) PROVE Ground'
  BY <1>7, FailStep, StepGround DEF Ground, RowInv, Fits
<1>8. ASSUME NEW c \in Client, List(c) PROVE Ground'
  BY <1>8, ListStep, StepGround DEF Ground, RowInv, Kept, Fits
<1>9. ASSUME NEW c \in Client, Count(c) PROVE Ground'
  BY <1>9, CountStep, StepGround DEF Ground, RowInv, Kept, Fits
<1>10. ASSUME NEW c \in Client, NextPage(c) PROVE Ground'
  BY <1>10, NextPageStep, StepGround DEF Ground, RowInv, Kept, Fits
<1> QED
  BY <1>1, <1>2, <1>3, <1>4, <1>5, <1>6, <1>7, <1>8, <1>9, <1>10 DEF Next

\* The listings keep their types: no page is asked for with a limit that is no int32.
THEOREM PagingTypeCorrect == Spec => []TypeOK
<1>1. Init => Ground
  BY InitGround
<1>2. Ground /\ [Next]_vars => Ground'
  BY NextGround
<1>3. Ground => TypeOK
  BY DEF Ground
<1> QED
  BY <1>1, <1>2, <1>3, PTL DEF Spec

-----------------------------------------------------------------------------
(* What a client may still miss.                                             *)

\* The reasons MissedForCause lists, which never go away.
Excused(c, r) ==
  \/ \E q \in client[c].left : q = r \/ stamp[q] > stamp[r]
  \/ \E q \in inserted \ {r} : stamp[q] = stamp[r]
  \/ client[c].limit = 0

\* r matches, and k rows that match or more are newer.
Ahead(c, r, k) ==
  /\ r \in Matching(client[c].filter)
  /\ Cardinality(Before(Matching(client[c].filter), r)) >= k

\* r is on a page still to come, or on the one at hand, which is full if it is not there.
Pending(c, r) ==
  \/ client[c].pc = "asking" /\ Ahead(c, r, client[c].offset)
  \/ /\ client[c].pc \in {"counting", "answered"}
     /\ \/ r \in client[c].page
        \/ /\ Ahead(c, r, client[c].offset + client[c].limit)
           /\ Cardinality(client[c].page) = client[c].limit

Missed(c) == {r \in client[c].due : r \notin client[c].seen /\ ~Excused(c, r)}

\* While a client reads, what it has not seen without an excuse is pending; at the end there
\* is nothing that could be.
Reading(c) == client[c].pc \notin {"new", "failed"} => \A r \in Missed(c) : Pending(c, r)

PageInv == \A c \in Client : Reading(c)

\* Whatever others do, a row that was pending is so still, or is excused by now.
LEMMA TableFrame ==
  ASSUME Ground, Ground', NEW c \in Client,
         /\ client'[c].pc = client[c].pc /\ client'[c].filter = client[c].filter
         /\ client'[c].limit = client[c].limit /\ client'[c].offset = client[c].offset
         /\ client'[c].page = client[c].page /\ client'[c].seen = client[c].seen
         /\ client'[c].due = client[c].due /\ client[c].left \subseteq client'[c].left,
         inserted \subseteq inserted', \A r \in inserted : stamp'[r] = stamp[r],
         \A r \in Matching(client[c].filter) :
           r \in Matching(client[c].filter)' \/ r \in client'[c].left,
         Reading(c)
  PROVE  Reading(c)'
<1> DEFINE F == client[c].filter
           M == Matching(F)
<1>1. /\ client[c] \in ClientType /\ F \in BOOLEAN /\ client'[c] \in ClientType
      /\ client[c].due \subseteq inserted /\ client[c].left \subseteq inserted
      /\ inserted \subseteq Row /\ inserted' \subseteq Row
  <2>1. client \in [Client -> ClientType] /\ inserted \subseteq Row
    BY ClientTyped DEF Ground
  <2>2. client' \in [Client -> ClientType] /\ inserted' \subseteq Row
    BY DEF Ground, TypeOK, ClientType, Int32
  <2> QED
    BY <2>1, <2>2 DEF ClientType, Ground, RowInv
<1>2. M \subseteq inserted /\ M \in SUBSET Row /\ M' \subseteq inserted' /\ M' \in SUBSET Row
  BY <1>1, MatchingRows DEF Matching
<1> SUFFICES ASSUME client[c].pc \notin {"new", "failed"}, NEW r \in Missed(c)'
             PROVE  Pending(c, r)'
  BY DEF Reading
<1>3. r \in client[c].due /\ r \notin client[c].seen /\ ~Excused(c, r)' /\ r \in inserted
  BY <1>1 DEF Missed
<1>4. ~Excused(c, r)
  BY <1>1, <1>3 DEF Excused
<1>5. Pending(c, r)
  BY <1>3, <1>4 DEF Missed, Reading
<1>6. ASSUME NEW k \in Nat, Ahead(c, r, k) PROVE Ahead(c, r, k)'
  <2>1. r \in M /\ Cardinality(Before(M, r)) >= k
    BY <1>6 DEF Ahead
  <2>2. r \in M'
    BY <1>3, <2>1 DEF Excused
  <2>3. Before(M, r) \in SUBSET Before(M, r)'
    <3> SUFFICES ASSUME NEW q \in Before(M, r) PROVE q \in Before(M, r)'
      OBVIOUS
    <3>1. q \in M /\ stamp[q] > stamp[r] /\ q \in inserted
      BY <1>2 DEF Before
    <3>2. stamp'[q] > stamp'[r]
      BY <1>3, <3>1
    <3>3. q \in M'
      BY <1>3, <3>1, <3>2 DEF Excused
    <3> QED
      BY <3>2, <3>3 DEF Before
  <2>4. Before(M, r)' \in SUBSET Row
    BY <1>2 DEF Before
  <2>5. Cardinality(Before(M, r)) <= Cardinality(Before(M, r)')
        /\ Cardinality(Before(M, r)) \in Nat /\ Cardinality(Before(M, r)') \in Nat
    BY <2>3, <2>4, FiniteRows
  <2>6. Cardinality(Before(M, r)') >= k
    BY <2>1, <2>5
  <2> QED
    BY <2>2, <2>6 DEF Ahead
<1>7. client[c].offset \in Nat /\ client[c].limit \in Int
  BY <1>1, PagingAssumption DEF ClientType, Int32
<1>8. CASE client[c].pc = "asking"
  <2>1. PICK k \in Nat : k = client[c].offset
    BY <1>7
  <2>2. Ahead(c, r, k)
    BY <1>5, <1>8, <2>1 DEF Pending, Ahead
  <2>3. Ahead(c, r, k)'
    BY <1>6, <2>2
  <2> QED
    BY <1>8, <2>1, <2>3 DEF Pending, Ahead
<1>9. CASE client[c].pc # "asking"
  <2>1. client[c].pc \in {"counting", "answered"}
    BY <1>5, <1>9 DEF Pending
  <2>2. CASE r \in client[c].page
    BY <2>1, <2>2 DEF Pending
  <2>3. CASE r \notin client[c].page
    <3>1. client[c].offset + client[c].limit \in Nat
      BY <1>7, <2>1 DEF Ground, RowInv, Fits
    <3>2. PICK k \in Nat : k = client[c].offset + client[c].limit
      BY <3>1
    <3>3. Ahead(c, r, k) /\ Cardinality(client[c].page) = client[c].limit
      BY <1>5, <1>9, <2>3, <3>2 DEF Pending, Ahead
    <3>4. Ahead(c, r, k)'
      BY <1>6, <3>3
    <3> QED
      BY <2>1, <3>2, <3>3, <3>4 DEF Pending, Ahead
  <2> QED
    BY <2>2, <2>3
<1> QED
  BY <1>8, <1>9

\* A status update takes rows out of a listing only to its client's knowledge.
LEMMA UpdateLeaves ==
  ASSUME client \in [Client -> ClientType], NEW r \in Row, UpdateStatus(r), NEW c \in Client
  PROVE  /\ UNCHANGED <<stamp, inserted>>
         /\ client'[c].pc = client[c].pc /\ client'[c].filter = client[c].filter
         /\ client'[c].limit = client[c].limit /\ client'[c].offset = client[c].offset
         /\ client'[c].page = client[c].page /\ client'[c].seen = client[c].seen
         /\ client'[c].due = client[c].due /\ client[c].left \subseteq client'[c].left
         /\ \A q \in Matching(client[c].filter) :
              q \in Matching(client[c].filter)' \/ q \in client'[c].left
<1>1. UNCHANGED <<stamp, inserted>>
      /\ selected \ {r} \subseteq selected'
      /\ client'[c] = IF client[c].filter /\ r \in selected
                      THEN [client[c] EXCEPT !.left = @ \cup {r}] ELSE client[c]
  BY DEF UpdateStatus
<1>2. client[c] \in ClientType
  OBVIOUS
<1>3. /\ client'[c].pc = client[c].pc /\ client'[c].filter = client[c].filter
      /\ client'[c].limit = client[c].limit /\ client'[c].offset = client[c].offset
      /\ client'[c].page = client[c].page /\ client'[c].seen = client[c].seen
      /\ client'[c].due = client[c].due /\ client[c].left \subseteq client'[c].left
  BY <1>1, <1>2 DEF ClientType
<1>4. ASSUME NEW q \in Matching(client[c].filter)
      PROVE  q \in Matching(client[c].filter)' \/ q \in client'[c].left
  <2>1. CASE client[c].filter
    <3>1. q \in inserted \cap selected
      BY <1>4, <2>1 DEF Matching
    <3>2. CASE q = r
      BY <1>1, <1>2, <2>1, <3>1, <3>2 DEF ClientType
    <3>3. CASE q # r
      BY <1>1, <2>1, <3>1, <3>3 DEF Matching
    <3> QED
      BY <3>2, <3>3
  <2>2. CASE ~client[c].filter
    BY <1>1, <1>4, <2>2 DEF Matching
  <2> QED
    BY <2>1, <2>2
<1> QED
  BY <1>1, <1>3, <1>4

\* A step of one client leaves the others as they are.
LEMMA OtherClients ==
  ASSUME Ground, Ground', PageInv, NEW d \in Client, NEW w \in ClientType, Step(d, w), Reading(d)'
  PROVE  PageInv'
<1>1. ASSUME NEW c \in Client, c # d PROVE Reading(c)'
  <2>1. client'[c] = client[c] /\ UNCHANGED table
    BY <1>1 DEF Step, Ground, TypeOK
  <2>2. UNCHANGED <<stamp, inserted, selected>>
    BY <2>1 DEF table
  <2>3. Matching(client[c].filter)' = Matching(client[c].filter)
    BY <2>1, <2>2 DEF Matching
  <2> QED
    BY <2>1, <2>2, <2>3, TableFrame DEF PageInv
<1> QED
  BY <1>1 DEF PageInv

\* The first page begins with nothing behind.
LEMMA BeginReading ==
  ASSUME Ground, Ground', NEW c \in Client, Begin(c)
  PROVE  \E w \in ClientType : Step(c, w) /\ Reading(c)'
<1>1. PICK w \in ClientType :
        /\ Step(c, w) /\ w.pc = "asking" /\ w.offset = 0
        /\ w.due = Matching(w.filter) /\ w.left = {}
  BY BeginStep
<1>2. client'[c] = w /\ UNCHANGED <<stamp, inserted, selected>> /\ w.filter \in BOOLEAN
  BY <1>1 DEF Step, table, Ground, TypeOK, ClientType
<1>3. Matching(w.filter)' = Matching(w.filter) /\ Matching(w.filter) \in SUBSET Row
  BY <1>2, MatchingRows DEF Matching
<1>4. ASSUME NEW r \in Missed(c)' PROVE Pending(c, r)'
  <2>1. r \in Matching(w.filter)
    BY <1>1, <1>2, <1>3, <1>4 DEF Missed
  <2>2. Cardinality(Before(Matching(w.filter), r)) \in Nat
    BY <1>3, FiniteRows DEF Before
  <2>3. Before(Matching(w.filter), r)' = Before(Matching(w.filter), r)
    BY <1>2, <1>3 DEF Before
  <2>4. Ahead(c, r, 0)'
    BY <1>2, <1>3, <2>1, <2>2, <2>3 DEF Ahead
  <2> QED
    BY <1>1, <1>2, <2>4 DEF Pending, Ahead
<1> QED
  BY <1>1, <1>4 DEF Reading

\* A row that is not on the page is behind it, and the page is full.
LEMMA ListReading ==
  ASSUME Ground, Ground', NEW c \in Client, Reading(c), List(c)
  PROVE  \E w \in ClientType : Step(c, w) /\ Reading(c)'
<1> DEFINE F == client[c].filter
           M == Matching(F)
           o == client[c].offset
           l == client[c].limit
<1>1. client[c].pc = "asking" /\ l >= 0
  BY ListStep
<1>2. PICK w \in ClientType, rank \in Ranks(M) :
        /\ Step(c, w) /\ Kept(c, w) /\ w.pc = "counting"
        /\ w.offset = o /\ w.seen = client[c].seen /\ w.page = Window(rank, o, l)
  BY ListStep
<1>3. client'[c] = w /\ UNCHANGED <<stamp, inserted, selected>> /\ F \in BOOLEAN
      /\ o \in Nat /\ l \in Nat /\ client[c].due \subseteq inserted /\ stamp \in [Row -> Nat]
  <2>1. client \in [Client -> ClientType] /\ stamp \in [Row -> Nat]
    BY ClientTyped DEF Ground
  <2>2. client[c] \in ClientType /\ l \in Int
    BY <2>1, PagingAssumption DEF ClientType, Int32
  <2> QED
    BY <1>1, <1>2, <2>1, <2>2 DEF Step, table, ClientType, Ground, RowInv
<1>4. M \in SUBSET Row /\ M \subseteq inserted /\ M' = M
  BY <1>2, <1>3, MatchingRows DEF Matching, Kept
<1>5. ASSUME NEW r \in Missed(c)' PROVE Pending(c, r)'
  <2>1. r \in Missed(c) /\ ~Excused(c, r) /\ r \in inserted
    BY <1>2, <1>3, <1>5 DEF Missed, Excused, Kept
  <2>2. Ahead(c, r, o)
    BY <1>1, <2>1 DEF Reading, Pending
  <2>3. r \in M /\ Cardinality(Before(M, r)) >= o
    BY <2>2 DEF Ahead
  <2>4. rank[r] > o /\ rank[r] \in Nat
    <3>1. rank[r] > o
      BY <1>3, <1>4, <2>3, BehindNewer
    <3>2. rank[r] \in Nat
      BY <2>3 DEF Ranks
    <3> QED
      BY <3>1, <3>2
  <2>5. CASE rank[r] <= o + l
    <3>1. r \in Window(rank, o, l)
      BY <2>3, <2>4, <2>5 DEF Window, Ranks
    <3> QED
      BY <1>2, <1>3, <3>1 DEF Pending
  <2>6. CASE ~(rank[r] <= o + l)
    <3>1. PICK k \in Nat : k = o + l
      BY <1>3
    <3>2. rank[r] > k
      BY <2>4, <2>6, <3>1
    <3>3. \A q \in M \ {r} : stamp[q] # stamp[r]
      BY <1>4, <2>1 DEF Excused
    <3>4. Cardinality(Before(M, r)) >= k
      BY <1>3, <1>4, <2>3, <3>2, <3>3, OnlyNewerBefore
    <3>5. Before(M, r)' = Before(M, r)
      BY <1>3, <1>4 DEF Before
    <3>6. Ahead(c, r, k)'
      BY <1>4, <2>3, <3>4, <3>5 DEF Ahead
    <3>7. Cardinality(Window(rank, o, l)) = l
      BY <1>3, <1>4, <2>3, <3>1, <3>2, PageFull
    <3>8. client'[c].pc = "counting" /\ client'[c].offset + client'[c].limit = k
          /\ Cardinality(client'[c].page) = client'[c].limit
      BY <1>2, <1>3, <3>1, <3>7 DEF Kept
    <3> QED
      BY <3>6, <3>8 DEF Pending, Ahead
  <2> QED
    BY <2>5, <2>6
<1> QED
  BY <1>2, <1>5 DEF Reading

\* What does not touch a client's page leaves what is pending.
LEMMA CountReading ==
  ASSUME Ground, Ground', NEW c \in Client, Reading(c), Count(c)
  PROVE  \E w \in ClientType : Step(c, w) /\ Reading(c)'
<1>1. client[c].pc = "counting"
  BY CountStep
<1>2. PICK w \in ClientType :
        /\ Step(c, w) /\ Kept(c, w) /\ w.pc = "answered"
        /\ w.offset = client[c].offset /\ w.seen = client[c].seen
        /\ w.page = client[c].page
  BY CountStep
<1>3. client'[c] = w /\ UNCHANGED <<stamp, inserted, selected>>
  BY <1>2 DEF Step, table, Ground, TypeOK
<1>4. Matching(w.filter)' = Matching(client[c].filter)
  BY <1>2, <1>3 DEF Matching, Kept
<1>5. ASSUME NEW r \in Missed(c)' PROVE Pending(c, r)'
  <2>1. r \in Missed(c)
    BY <1>2, <1>3, <1>5 DEF Missed, Excused, Kept
  <2>2. Pending(c, r)
    BY <1>1, <2>1 DEF Reading
  <2>3. Before(Matching(w.filter), r)' = Before(Matching(client[c].filter), r)
    BY <1>3, <1>4 DEF Before
  <2> QED
    BY <1>1, <1>2, <1>3, <1>4, <2>2, <2>3 DEF Pending, Ahead, Kept
<1> QED
  BY <1>2, <1>5 DEF Reading

\* A full page is not the last: what is pending behind it is pending on the next.
LEMMA NextPageReading ==
  ASSUME Ground, Ground', NEW c \in Client, Reading(c), NextPage(c)
  PROVE  \E w \in ClientType : Step(c, w) /\ Reading(c)'
<1> DEFINE o == client[c].offset
           l == client[c].limit
           short == client[c].page = {} \/ Cardinality(client[c].page) < l
<1>1. client[c].pc = "answered" /\ l >= 0
  BY NextPageStep
<1>2. PICK w \in ClientType :
        /\ Step(c, w) /\ Kept(c, w)
        /\ w.pc = IF short THEN "done" ELSE "asking"
        /\ w.offset = o + l /\ w.seen = client[c].seen \cup client[c].page
  BY NextPageStep
<1>3. client'[c] = w /\ UNCHANGED <<stamp, inserted, selected>> /\ l \in Nat
  <2>1. client[c] \in ClientType /\ l \in Int
    BY PagingAssumption, ClientTyped DEF Ground, ClientType, Int32
  <2> QED
    BY <1>1, <1>2, <2>1 DEF Step, table, Ground, TypeOK
<1>4. Matching(w.filter)' = Matching(client[c].filter)
  BY <1>2, <1>3 DEF Matching, Kept
<1>5. ASSUME NEW r \in Missed(c)' PROVE Pending(c, r)'
  <2>1. r \in Missed(c) /\ r \notin client[c].page /\ ~Excused(c, r)
    BY <1>2, <1>3, <1>5 DEF Missed, Excused, Kept
  <2>2. Ahead(c, r, o + l) /\ Cardinality(client[c].page) = l
    BY <1>1, <2>1 DEF Reading, Pending
  <2>3. l # 0
    BY <2>1 DEF Excused
  <2>4. ~short
    <3>1. client[c].page # {}
      BY <2>2, <2>3, FS_EmptySet
    <3> QED
      BY <1>3, <2>2, <3>1
  <2>5. w.pc = "asking"
    BY <1>2, <2>4
  <2>6. Before(Matching(w.filter), r)' = Before(Matching(client[c].filter), r)
    BY <1>3, <1>4 DEF Before
  <2> HIDE DEF short
  <2> QED
    BY <1>2, <1>3, <1>4, <2>2, <2>5, <2>6 DEF Pending, Ahead, Kept
<1> QED
  BY <1>2, <1>5 DEF Reading

\* Each step keeps what is pending.
LEMMA NextPageInv == Ground /\ PageInv /\ [Next]_vars => PageInv'
<1> SUFFICES ASSUME Ground, PageInv, [Next]_vars PROVE PageInv'
  OBVIOUS
<1>0. Ground' /\ client \in [Client -> ClientType] /\ \A c \in Client : Reading(c)
  BY NextGround, ClientTyped DEF Ground, PageInv
<1>1. CASE UNCHANGED vars
  BY <1>1 DEF vars, table, PageInv, Reading, Missed, Excused, Pending, Ahead, Before, Matching
<1>2. ASSUME UNCHANGED <<client, selected>>, inserted \subseteq inserted',
             \A r \in inserted : stamp'[r] = stamp[r]
      PROVE  PageInv'
  <2>1. ASSUME NEW c \in Client, NEW r \in Matching(client[c].filter)
        PROVE  r \in Matching(client[c].filter)'
    BY <1>2, <2>1 DEF Matching
  <2> QED
    BY <1>0, <1>2, <2>1, TableFrame DEF PageInv
<1>3. CASE Tick
  BY <1>2, <1>3 DEF Tick
<1>4. ASSUME NEW r \in Row, BeginInsert(r) PROVE PageInv'
  <2>1. r \notin inserted
    BY <1>4 DEF BeginInsert, Ground, RowInv
  <2> QED
    BY <1>2, <1>4, <2>1 DEF BeginInsert, Ground, TypeOK
<1>5. ASSUME NEW r \in Row, CommitInsert(r) PROVE PageInv'
  BY <1>2, <1>5 DEF CommitInsert
<1>6. ASSUME NEW r \in Row, UpdateStatus(r) PROVE PageInv'
  <2> SUFFICES ASSUME NEW c \in Client PROVE Reading(c)'
    BY DEF PageInv
  <2>1. /\ UNCHANGED <<stamp, inserted>>
        /\ client'[c].pc = client[c].pc /\ client'[c].filter = client[c].filter
        /\ client'[c].limit = client[c].limit /\ client'[c].offset = client[c].offset
        /\ client'[c].page = client[c].page /\ client'[c].seen = client[c].seen
        /\ client'[c].due = client[c].due /\ client[c].left \subseteq client'[c].left
        /\ \A q \in Matching(client[c].filter) :
             q \in Matching(client[c].filter)' \/ q \in client'[c].left
    BY <1>0, <1>6, UpdateLeaves
  <2> QED
    BY <1>0, <2>1, TableFrame
<1>7. ASSUME NEW c \in Client, Begin(c) PROVE PageInv'
  BY <1>0, <1>7, BeginReading, OtherClients
<1>8. ASSUME NEW c \in Client, ListFails(c) \/ CountFails(c) PROVE PageInv'
  <2>1. PICK w \in ClientType : Step(c, w) /\ w.pc = "failed"
    BY <1>8, FailStep
  <2>2. Reading(c)'
    BY <1>0, <2>1 DEF Step, Reading
  <2> QED
    BY <1>0, <2>1, <2>2, OtherClients
<1>9. ASSUME NEW c \in Client, List(c) PROVE PageInv'
  BY <1>0, <1>9, ListReading, OtherClients
<1>10. ASSUME NEW c \in Client, Count(c) PROVE PageInv'
  BY <1>0, <1>10, CountReading, OtherClients
<1>11. ASSUME NEW c \in Client, NextPage(c) PROVE PageInv'
  BY <1>0, <1>11, NextPageReading, OtherClients
<1> QED
  BY <1>1, <1>3, <1>4, <1>5, <1>6, <1>7, <1>8, <1>9, <1>10, <1>11 DEF Next

\* A client that has paged to the end has missed no row but for the causes the property
\* lists, though pages are read one by one from a table that is written to.
THEOREM MissesCaused == Spec => []MissedForCause
<1>1. Init => Ground /\ PageInv
  BY InitGround DEF Init, PageInv, Reading, NoClient
<1>2. Ground /\ PageInv /\ [Next]_vars => (Ground /\ PageInv)'
  BY NextGround, NextPageInv
<1>3. Ground /\ PageInv => MissedForCause
  BY DEF PageInv, Reading, Missed, Pending, Excused, MissedForCause
<1> QED
  BY <1>1, <1>2, <1>3, PTL DEF Spec

-----------------------------------------------------------------------------
(* What a client may be shown twice.                                         *)

\* The newer rows that were there when the client began and have never left: they become
\* fewer, and so cannot push a row back.
Untouched(c, r) == {q \in client[c].due \ client[c].left : stamp[q] > stamp[r]}

\* What was there and has not left is in the listing still, and fewer of it stand before a
\* row than the places the client has read.
Shown(c) ==
  client[c].pc \notin {"new", "failed"} =>
    /\ client[c].due \ client[c].left \subseteq Matching(client[c].filter)
    /\ client[c].seen \subseteq inserted /\ client[c].page \subseteq inserted
    /\ \A r \in client[c].seen : Cardinality(Untouched(c, r)) < client[c].offset
    /\ client[c].pc \in {"counting", "answered"} =>
         \A r \in client[c].page :
           Cardinality(Untouched(c, r)) < client[c].offset + client[c].limit

ShownInv == \A c \in Client : Shown(c)

\* Whatever others do, no more rows stand before one that was shown.
LEMMA ShownFrame ==
  ASSUME Ground, Ground', NEW c \in Client,
         /\ client'[c].pc = client[c].pc /\ client'[c].filter = client[c].filter
         /\ client'[c].limit = client[c].limit /\ client'[c].offset = client[c].offset
         /\ client'[c].page = client[c].page /\ client'[c].seen = client[c].seen
         /\ client'[c].due = client[c].due /\ client[c].left \subseteq client'[c].left,
         inserted \subseteq inserted', \A r \in inserted : stamp'[r] = stamp[r],
         \A r \in Matching(client[c].filter) :
           r \in Matching(client[c].filter)' \/ r \in client'[c].left,
         Shown(c)
  PROVE  Shown(c)'
<1>1. /\ client[c] \in ClientType /\ client[c].due \subseteq inserted
      /\ inserted \subseteq Row /\ inserted' \subseteq Row
  BY ClientTyped DEF Ground, RowInv, TypeOK
<1> SUFFICES ASSUME client[c].pc \notin {"new", "failed"} PROVE Shown(c)'
  BY DEF Shown
<1>2. client[c].seen \subseteq inserted /\ client[c].page \subseteq inserted
  BY DEF Shown
<1>3. client'[c].due \ client'[c].left \subseteq Matching(client[c].filter)'
  BY DEF Shown
<1>4. ASSUME NEW r \in inserted, NEW k \in Int, Cardinality(Untouched(c, r)) < k
      PROVE  Cardinality(Untouched(c, r)') < k
  <2>1. Untouched(c, r)' \in SUBSET Untouched(c, r) /\ Untouched(c, r) \in SUBSET Row
    BY <1>1 DEF Untouched
  <2>2. /\ Cardinality(Untouched(c, r)') <= Cardinality(Untouched(c, r))
        /\ Cardinality(Untouched(c, r)') \in Nat /\ Cardinality(Untouched(c, r)) \in Nat
    BY <2>1, FiniteRows
  <2> QED
    BY <1>4, <2>2
<1>5. client[c].offset \in Int /\ client[c].offset + client[c].limit \in Int
  BY <1>1, PagingAssumption DEF ClientType, Int32
<1>6. \A r \in client'[c].seen : Cardinality(Untouched(c, r)') < client'[c].offset
  BY <1>2, <1>4, <1>5 DEF Shown
<1>7. ASSUME client'[c].pc \in {"counting", "answered"}, NEW r \in client'[c].page
      PROVE  Cardinality(Untouched(c, r)') < client'[c].offset + client'[c].limit
  <2>1. Cardinality(Untouched(c, r)) < client[c].offset + client[c].limit
    BY <1>7 DEF Shown
  <2> QED
    BY <1>2, <1>4, <1>5, <1>7, <2>1
<1> QED
  BY <1>2, <1>3, <1>6, <1>7 DEF Shown

\* A step of one client leaves the others as they are.
LEMMA OtherShown ==
  ASSUME Ground, Ground', ShownInv, NEW d \in Client, NEW w \in ClientType, Step(d, w), Shown(d)'
  PROVE  ShownInv'
<1>1. ASSUME NEW c \in Client, c # d PROVE Shown(c)'
  <2>1. client'[c] = client[c] /\ UNCHANGED table
    BY <1>1 DEF Step, Ground, TypeOK
  <2>2. UNCHANGED <<stamp, inserted, selected>>
    BY <2>1 DEF table
  <2>3. Matching(client[c].filter)' = Matching(client[c].filter)
    BY <2>1, <2>2 DEF Matching
  <2> QED
    BY <2>1, <2>2, <2>3, ShownFrame DEF ShownInv
<1> QED
  BY <1>1 DEF ShownInv

\* The rows of a page come within the places it ends at.
LEMMA ListShown ==
  ASSUME Ground, Ground', NEW c \in Client, Shown(c), List(c)
  PROVE  \E w \in ClientType : Step(c, w) /\ Shown(c)'
<1> DEFINE M == Matching(client[c].filter)
           o == client[c].offset
           l == client[c].limit
<1>1. client[c].pc = "asking" /\ l >= 0
  BY ListStep
<1>2. PICK w \in ClientType, rank \in Ranks(M) :
        /\ Step(c, w) /\ Kept(c, w) /\ w.pc = "counting"
        /\ w.offset = o /\ w.seen = client[c].seen /\ w.page = Window(rank, o, l)
  BY ListStep
<1>3. /\ client'[c] = w /\ UNCHANGED <<stamp, inserted, selected>>
      /\ o \in Nat /\ l \in Nat /\ client[c].filter \in BOOLEAN
  <2>1. client \in [Client -> ClientType] /\ client[c] \in ClientType /\ l \in Int
    BY PagingAssumption, ClientTyped DEF Ground, ClientType, Int32
  <2> QED
    BY <1>1, <1>2, <2>1 DEF Step, table, ClientType
<1>4. M \in SUBSET Row /\ M \subseteq inserted /\ M' = M
  BY <1>2, <1>3, MatchingRows DEF Matching, Kept
<1>5. \A r : Untouched(c, r)' = Untouched(c, r)
  BY <1>2, <1>3 DEF Untouched, Kept
<1>6. ASSUME NEW r \in w.page PROVE Cardinality(Untouched(c, r)) < o + l
  <2>1. r \in M /\ rank[r] <= o + l /\ rank[r] \in Nat
    BY <1>2, <1>6 DEF Window, Ranks
  <2>2. Untouched(c, r) \in SUBSET Before(M, r) /\ Before(M, r) \in SUBSET Row
    BY <1>1, <1>4 DEF Untouched, Before, Shown
  <2>3. /\ Cardinality(Untouched(c, r)) <= Cardinality(Before(M, r))
        /\ Cardinality(Untouched(c, r)) \in Nat /\ Cardinality(Before(M, r)) \in Nat
    BY <2>2, FiniteRows
  <2>4. PICK k \in Nat : k = Cardinality(Before(M, r))
    BY <2>3
  <2>5. rank[r] > k
    BY <1>4, <2>1, <2>4, BehindNewer
  <2> QED
    BY <1>3, <2>1, <2>3, <2>4, <2>5
<1>7. w.page \subseteq inserted
  BY <1>2, <1>4 DEF Window, Ranks
<1>8. /\ w.due \ w.left \subseteq M /\ w.seen \subseteq inserted
      /\ \A r \in w.seen : Cardinality(Untouched(c, r)) < o
  BY <1>1, <1>2 DEF Shown, Kept
<1> QED
  BY <1>2, <1>3, <1>4, <1>5, <1>6, <1>7, <1>8 DEF Shown, Kept

\* The first page begins with nothing shown.
LEMMA BeginShown ==
  ASSUME Ground, Ground', NEW c \in Client, Begin(c)
  PROVE  \E w \in ClientType : Step(c, w) /\ Shown(c)'
<1>1. PICK w \in ClientType :
        /\ Step(c, w) /\ w.pc = "asking" /\ w.offset = 0
        /\ w.due = Matching(w.filter) /\ w.left = {} /\ w.page = {} /\ w.seen = {}
  BY BeginStep
<1>2. client'[c] = w /\ UNCHANGED <<inserted, selected>>
  BY <1>1 DEF Step, table, Ground, TypeOK
<1>3. Matching(w.filter)' = Matching(w.filter)
  BY <1>2 DEF Matching
<1> QED
  BY <1>1, <1>2, <1>3 DEF Shown

LEMMA CountShown ==
  ASSUME Ground, Ground', NEW c \in Client, Shown(c), Count(c)
  PROVE  \E w \in ClientType : Step(c, w) /\ Shown(c)'
<1>1. client[c].pc = "counting"
  BY CountStep
<1>2. PICK w \in ClientType :
        /\ Step(c, w) /\ Kept(c, w) /\ w.pc = "answered"
        /\ w.offset = client[c].offset /\ w.seen = client[c].seen
        /\ w.page = client[c].page
  BY CountStep
<1>3. client'[c] = w /\ UNCHANGED <<stamp, inserted, selected>>
  BY <1>2 DEF Step, table, Ground, TypeOK
<1>4. Matching(w.filter)' = Matching(client[c].filter)
  BY <1>2, <1>3 DEF Matching, Kept
<1>5. \A r : Untouched(c, r)' = Untouched(c, r)
  BY <1>2, <1>3 DEF Untouched, Kept
<1> QED
  BY <1>1, <1>2, <1>3, <1>4, <1>5 DEF Shown, Kept

\* The places of a page are behind the next.
LEMMA NextPageShown ==
  ASSUME Ground, Ground', NEW c \in Client, Shown(c), NextPage(c)
  PROVE  \E w \in ClientType : Step(c, w) /\ Shown(c)'
<1> DEFINE o == client[c].offset
           l == client[c].limit
<1>1. client[c].pc = "answered" /\ l >= 0
  BY NextPageStep
<1>2. PICK w \in ClientType :
        /\ Step(c, w) /\ Kept(c, w) /\ w.pc \in {"done", "asking"}
        /\ w.offset = o + l /\ w.seen = client[c].seen \cup client[c].page /\ w.page = {}
  BY NextPageStep
<1>3. /\ client'[c] = w /\ UNCHANGED <<stamp, inserted, selected>> /\ o \in Nat /\ l \in Nat
      /\ client[c].due \subseteq inserted /\ inserted \subseteq Row
  <2>1. client \in [Client -> ClientType] /\ client[c] \in ClientType /\ l \in Int
    BY PagingAssumption, ClientTyped DEF Ground, ClientType, Int32
  <2>2. client[c].due \subseteq inserted /\ inserted \subseteq Row
    BY DEF Ground, RowInv, TypeOK
  <2> QED
    BY <1>1, <1>2, <2>1, <2>2 DEF Step, table, ClientType
<1>4. Matching(w.filter)' = Matching(client[c].filter)
  BY <1>2, <1>3 DEF Matching, Kept
<1>5. \A r : Untouched(c, r)' = Untouched(c, r)
  BY <1>2, <1>3 DEF Untouched, Kept
<1>6. ASSUME NEW r \in w.seen PROVE Cardinality(Untouched(c, r)) < o + l
  <2>1. Untouched(c, r) \in SUBSET Row
    BY <1>3 DEF Untouched
  <2>2. Cardinality(Untouched(c, r)) \in Nat
    BY <2>1, FiniteRows
  <2>3. CASE r \in client[c].seen
    <3>1. Cardinality(Untouched(c, r)) < o
      BY <1>1, <2>3 DEF Shown
    <3> QED
      BY <1>3, <2>2, <3>1
  <2>4. CASE r \in client[c].page
    BY <1>1, <2>4 DEF Shown
  <2> QED
    BY <1>2, <2>3, <2>4
<1>7. w.due \ w.left \subseteq Matching(client[c].filter) /\ w.seen \subseteq inserted
  BY <1>1, <1>2 DEF Shown, Kept
<1> QED
  BY <1>2, <1>3, <1>4, <1>5, <1>6, <1>7 DEF Shown

\* Each step keeps what was shown behind the place a client reads on from.
LEMMA NextShown == Ground /\ ShownInv /\ [Next]_vars => ShownInv'
<1> SUFFICES ASSUME Ground, ShownInv, [Next]_vars PROVE ShownInv'
  OBVIOUS
<1>0. Ground' /\ client \in [Client -> ClientType] /\ \A c \in Client : Shown(c)
  BY NextGround, ClientTyped DEF Ground, ShownInv
<1>1. CASE UNCHANGED vars
  BY <1>1 DEF vars, table, ShownInv, Shown, Untouched, Matching
<1>2. ASSUME UNCHANGED <<client, selected>>, inserted \subseteq inserted',
             \A r \in inserted : stamp'[r] = stamp[r]
      PROVE  ShownInv'
  <2>1. ASSUME NEW c \in Client, NEW r \in Matching(client[c].filter)
        PROVE  r \in Matching(client[c].filter)'
    BY <1>2, <2>1 DEF Matching
  <2> QED
    BY <1>0, <1>2, <2>1, ShownFrame DEF ShownInv
<1>3. CASE Tick
  BY <1>2, <1>3 DEF Tick
<1>4. ASSUME NEW r \in Row, BeginInsert(r) PROVE ShownInv'
  <2>1. r \notin inserted
    BY <1>4 DEF BeginInsert, Ground, RowInv
  <2> QED
    BY <1>2, <1>4, <2>1 DEF BeginInsert, Ground, TypeOK
<1>5. ASSUME NEW r \in Row, CommitInsert(r) PROVE ShownInv'
  BY <1>2, <1>5 DEF CommitInsert
<1>6. ASSUME NEW r \in Row, UpdateStatus(r) PROVE ShownInv'
  <2> SUFFICES ASSUME NEW c \in Client PROVE Shown(c)'
    BY DEF ShownInv
  <2>1. /\ UNCHANGED <<stamp, inserted>>
        /\ client'[c].pc = client[c].pc /\ client'[c].filter = client[c].filter
        /\ client'[c].limit = client[c].limit /\ client'[c].offset = client[c].offset
        /\ client'[c].page = client[c].page /\ client'[c].seen = client[c].seen
        /\ client'[c].due = client[c].due /\ client[c].left \subseteq client'[c].left
        /\ \A q \in Matching(client[c].filter) :
             q \in Matching(client[c].filter)' \/ q \in client'[c].left
    BY <1>0, <1>6, UpdateLeaves
  <2> QED
    BY <1>0, <2>1, ShownFrame
<1>7. ASSUME NEW c \in Client, Begin(c) PROVE ShownInv'
  BY <1>0, <1>7, BeginShown, OtherShown
<1>8. ASSUME NEW c \in Client, ListFails(c) \/ CountFails(c) PROVE ShownInv'
  <2>1. PICK w \in ClientType : Step(c, w) /\ w.pc = "failed"
    BY <1>8, FailStep
  <2>2. Shown(c)'
    BY <1>0, <2>1 DEF Step, Shown
  <2> QED
    BY <1>0, <2>1, <2>2, OtherShown
<1>9. ASSUME NEW c \in Client, List(c) PROVE ShownInv'
  BY <1>0, <1>9, ListShown, OtherShown
<1>10. ASSUME NEW c \in Client, Count(c) PROVE ShownInv'
  BY <1>0, <1>10, CountShown, OtherShown
<1>11. ASSUME NEW c \in Client, NextPage(c) PROVE ShownInv'
  BY <1>0, <1>11, NextPageShown, OtherShown
<1> QED
  BY <1>1, <1>3, <1>4, <1>5, <1>6, <1>7, <1>8, <1>9, <1>10, <1>11 DEF Next

\* Only List puts rows on a page.
LEMMA PagesListed ==
  ASSUME Ground, [Next]_vars, NEW c \in Client, NEW r \in client'[c].page, r \notin client[c].page
  PROVE  List(c)
<1>0. client \in [Client -> ClientType]
  BY ClientTyped DEF Ground
<1>1. ASSUME NEW d \in Client, NEW w \in ClientType, Step(d, w), w.page \subseteq client[d].page
      PROVE  FALSE
  BY <1>0, <1>1 DEF Step
<1>2. CASE UNCHANGED client
  BY <1>2
<1>3. ASSUME NEW q \in Row, UpdateStatus(q) PROVE FALSE
  <2>1. client'[c].page = client[c].page
    BY <1>0, <1>3, UpdateLeaves
  <2> QED
    BY <2>1
<1>4. ASSUME NEW d \in Client,
             Begin(d) \/ ListFails(d) \/ CountFails(d) \/ Count(d) \/ NextPage(d)
      PROVE  FALSE
  <2>1. CASE Begin(d)
    BY <1>1, <2>1, BeginStep
  <2>2. CASE ListFails(d) \/ CountFails(d)
    BY <1>1, <2>2, FailStep
  <2>3. CASE Count(d)
    BY <1>1, <2>3, CountStep
  <2>4. CASE NextPage(d)
    BY <1>1, <2>4, NextPageStep
  <2> QED
    BY <1>4, <2>1, <2>2, <2>3, <2>4
<1>5. ASSUME NEW d \in Client, List(d) PROVE List(c)
  <2>1. PICK w \in ClientType : Step(d, w)
    BY <1>5, ListStep
  <2>2. c = d
    BY <1>0, <2>1 DEF Step
  <2> QED
    BY <1>5, <2>2
<1> QED
  BY <1>2, <1>3, <1>4, <1>5 DEF Next, vars, Tick, BeginInsert, CommitInsert

\* A row on a page has as many rows before it as places were read, and if it was seen then
\* fewer of those were there all along.
LEMMA ListRepeats ==
  ASSUME Ground, NEW c \in Client, Shown(c), List(c),
         NEW r \in client'[c].page, r \in client[c].seen
  PROVE  Repeat(c, r)
<1> DEFINE M == Matching(client[c].filter)
           o == client[c].offset
           l == client[c].limit
<1>1. client[c].pc = "asking"
  BY ListStep
<1>2. PICK w \in ClientType, rank \in Ranks(M) : Step(c, w) /\ w.page = Window(rank, o, l)
  BY ListStep
<1>3. /\ client'[c] = w /\ o \in Nat /\ client[c].filter \in BOOLEAN
      /\ stamp \in [Row -> Nat] /\ M \in SUBSET Row
  <2>1. client \in [Client -> ClientType] /\ stamp \in [Row -> Nat] /\ client[c] \in ClientType
    BY ClientTyped DEF Ground
  <2>2. client[c].filter \in BOOLEAN
    BY <2>1 DEF ClientType
  <2> QED
    BY <1>2, <2>1, <2>2, MatchingRows DEF Step, ClientType
<1>4. r \in M /\ rank[r] > o
  BY <1>2, <1>3 DEF Window, Ranks
<1> SUFFICES ASSUME ~Repeat(c, r) PROVE FALSE
  OBVIOUS
<1>5. \A q \in M \ {r} : stamp[q] # stamp[r]
  BY DEF Repeat
<1>6. Cardinality(Before(M, r)) >= o
  BY <1>3, <1>4, <1>5, OnlyNewerBefore
<1>7. Before(M, r) \in SUBSET Untouched(c, r)
  <2> SUFFICES ASSUME NEW q \in Before(M, r) PROVE q \in Untouched(c, r)
    OBVIOUS
  <2>1. q \in M /\ stamp[q] > stamp[r] /\ q # r
    BY <1>3, <1>4 DEF Before
  <2> QED
    BY <2>1 DEF Repeat, Untouched
<1>8. Untouched(c, r) \in SUBSET Row
  BY <1>1, <1>3 DEF Shown, Untouched
<1>9. /\ Cardinality(Before(M, r)) <= Cardinality(Untouched(c, r))
      /\ Cardinality(Before(M, r)) \in Nat /\ Cardinality(Untouched(c, r)) \in Nat
  BY <1>7, <1>8, FiniteRows
<1>10. Cardinality(Untouched(c, r)) < o
  BY <1>1 DEF Shown
<1> QED
  BY <1>3, <1>6, <1>9, <1>10

\* A listing repeats a row only for the causes the property lists, though its pages are read
\* one by one from a table that is written to.
THEOREM RepeatsCaused == Spec => RepeatedForCause
<1> DEFINE A == \A c \in Client :
             \A r \in (client'[c].page \ client[c].page) \cap client[c].seen : Repeat(c, r)
<1>1. Init => Ground /\ ShownInv
  BY InitGround DEF Init, ShownInv, Shown, NoClient
<1>2. Ground /\ ShownInv /\ [Next]_vars => (Ground /\ ShownInv)'
  BY NextGround, NextShown
<1>3. Ground /\ ShownInv /\ [Next]_vars => A
  BY PagesListed, ListRepeats DEF ShownInv
<1>4. Ground /\ ShownInv /\ [Next]_vars => [A]_vars
  BY <1>3
<1> QED
  BY <1>1, <1>2, <1>4, PTL DEF Spec, RepeatedForCause

=============================================================================
