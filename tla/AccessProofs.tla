---------------------------- MODULE AccessProofs -----------------------------
(***************************************************************************)
(* Who a request is from, for any numbers of requests, keys, tokens and    *)
(* cases, any life of a key set and any time a lookup may take.            *)
(***************************************************************************)
EXTENDS Access, TLAPS

RequestRecord ==
  [pc : Progress, op : Operation \cup {"none"}, token : Token \cup {None}, begun : Nat,
   at : Nat, keys : SUBSET Key, error : BOOLEAN, sub : Sub \cup {None}, role : Role,
   claims : Sub \cup {None}, case : Case \cup {None}]

\* The small facts about the constants that the steps need.
LEMMA Constants ==
  /\ Staff # Resident /\ None \notin Sub /\ TTL \in Nat /\ TTL > 0 /\ Delay \in Nat
  /\ Overlap \in Nat /\ Overlap >= Delay + Delay /\ Overlap >= Delay + TTL - 1 /\ Never \in Int
  /\ \A t \in Token : /\ t.key \in Key /\ t.sub \in Sub /\ t.role \in Role
                      /\ t.issuer = Staff => t.role # "resident"
<1>1. /\ Staff # Resident /\ None \notin Sub /\ TTL \in Nat /\ TTL > 0 /\ Delay \in Nat
      /\ Overlap \in Nat /\ Overlap >= Delay + Delay /\ Overlap >= Delay + TTL - 1 /\ Never \in Int
  BY AccessAssumption DEF Overlap, Never
<1>2. \A t \in Token : /\ t.key \in Key /\ t.sub \in Sub /\ t.role \in Role
                       /\ t.issuer = Staff => t.role # "resident"
  BY AccessAssumption
<1> QED
  BY <1>1, <1>2

-----------------------------------------------------------------------------
(* The inductive invariant, in its parts.                                    *)

\* A cached key is published, or was when the answer it came with was given; and a
\* published key that is not cached is younger than that answer, or an error has been
\* stored in its place.
CacheInv ==
  \A i \in Issuer :
    /\ cache[i].keys \subseteq KeysOf(i) /\ cache[i].fetchedAt <= clock /\ blank[i] <= clock
    /\ \A k \in cache[i].keys : k \in published \/ until[k] >= cache[i].fetchedAt - Delay
    /\ \A k \in published \cap KeysOf(i) : \/ k \in cache[i].keys
                                           \/ since[k] >= cache[i].fetchedAt - Delay
                                           \/ blank[i] >= cache[i].fetchedAt

\* A case has the sub of the resident who submitted it.
CaseInv ==
  \A c \in Case : resident[c] # Absent =>
    /\ submitted[c] \in Token
    /\ resident[c] = IF submitted[c].issuer = Resident THEN submitted[c].sub ELSE None

\* What one request may rely on.
TimeInv(r) ==
  /\ request[r].begun <= clock /\ request[r].at <= clock
  /\ InLookup(r) => clock - request[r].begun <= Delay

TokenInv(r) ==
  \/ request[r].pc \in {"new", "done"}
  \/ request[r].pc \in {"proxied", "serving"} /\ request[r].op = "status"
  \/ request[r].token \in Token

AnswerInv(r) == request[r].pc = "answered" =>
  /\ request[r].keys \subseteq KeysOf(Verifier(r))
  /\ \A k \in request[r].keys : k \in published \/ until[k] >= request[r].begun
  /\ \A k \in published \cap KeysOf(Verifier(r)) :
       k \in request[r].keys \/ since[k] >= request[r].begun \/ request[r].error

StoredInv(r) == request[r].pc = "stored" => cache[Verifier(r)].fetchedAt >= request[r].begun

VerifiedInv(r) == request[r].pc = "verified" =>
  LET k == request[r].token.key
  IN k \in KeysOf(Verifier(r)) /\ (k \in published \/ request[r].at - until[k] <= Overlap)

UnknownInv(r) == request[r].pc = "unknown" =>
  LET k == request[r].token.key
      i == Verifier(r)
  IN \/ k \notin KeysOf(i)
     \/ k \notin published
     \/ since[k] >= request[r].begun - Delay
     \/ blank[i] >= request[r].begun

IdentityInv(r) == (request[r].pc \in {"proxied", "serving"} /\ request[r].op # "status") =>
  /\ request[r].token \in Token /\ request[r].token.issuer \in Issuer
  /\ request[r].sub = request[r].token.sub
  /\ request[r].role = "resident" <=> request[r].token.issuer = Resident

ShownInv(r) == request[r].pc \in {"shown", "forbidden"} =>
  LET t == request[r].token
      s == submitted[request[r].case]
      own == s.issuer = Resident /\ s.sub = t.sub
  IN /\ request[r].case \in Case /\ resident[request[r].case] # Absent
     /\ request[r].pc = "shown" => t.issuer = Staff \/ own
     /\ request[r].pc = "forbidden" => t.issuer = Resident /\ ~own

RequestInv(r) ==
  /\ TimeInv(r) /\ TokenInv(r) /\ AnswerInv(r) /\ StoredInv(r)
  /\ VerifiedInv(r) /\ UnknownInv(r) /\ IdentityInv(r) /\ ShownInv(r)

IInv == TypeOK /\ CacheInv /\ CaseInv /\ \A r \in Request : RequestInv(r)

LEMMA RequestType == TypeOK => request \in [Request -> RequestRecord]
BY DEF TypeOK, RequestRecord

-----------------------------------------------------------------------------
(* Types.                                                                    *)

LEMMA TypeInit == Init => TypeOK
<1> SUFFICES ASSUME Init PROVE TypeOK
  OBVIOUS
<1>1. NoRequest \in RequestRecord
  BY DEF NoRequest, RequestRecord, Progress, Role
<1>2. request \in [Request -> RequestRecord]
  BY <1>1 DEF Init
<1>3. cache \in [Issuer -> [keys : SUBSET Key, fetchedAt : Nat]]
  BY DEF Init
<1>4. since \in [Key -> Int] /\ until \in [Key -> Int] /\ blank \in [Issuer -> Int]
  BY Constants DEF Init
<1>5. resident \in [Case -> Sub \cup {None, Absent}] /\ submitted \in [Case -> Token \cup {None}]
  BY DEF Init
<1>6. published \subseteq Key
  BY AccessAssumption DEF Init
<1> QED
  BY <1>2, <1>3, <1>4, <1>5, <1>6 DEF Init, TypeOK, RequestRecord

\* Where a request may go: the fields the actions change, one form at a time.
LEMMA MoveType ==
  ASSUME NEW q \in RequestRecord
  PROVE  /\ \A pc \in Progress : [q EXCEPT !.pc = pc] \in RequestRecord
         /\ \A pc \in Progress, n \in Nat, b \in Nat :
              [q EXCEPT !.pc = pc, !.at = n, !.begun = b, !.keys = {}, !.error = FALSE] \in RequestRecord
         /\ \A pc \in Progress, K \in SUBSET Key, e \in BOOLEAN :
              [q EXCEPT !.pc = pc, !.keys = K, !.error = e] \in RequestRecord
         /\ \A c \in Case, pc \in Progress : [q EXCEPT !.case = c, !.pc = pc] \in RequestRecord
         /\ [q EXCEPT !.pc = "serving", !.claims = None] \in RequestRecord
         /\ \A s \in Sub, x \in Role :
              [q EXCEPT !.pc = "proxied", !.at = 0, !.sub = s, !.role = x, !.claims = s]
                \in RequestRecord
<1> USE DEF RequestRecord
<1>1. \A pc \in Progress : [q EXCEPT !.pc = pc] \in RequestRecord
  OBVIOUS
<1>2. \A pc \in Progress, n \in Nat, b \in Nat :
        [q EXCEPT !.pc = pc, !.at = n, !.begun = b, !.keys = {}, !.error = FALSE] \in RequestRecord
  OBVIOUS
<1>3. \A pc \in Progress, K \in SUBSET Key, e \in BOOLEAN :
        [q EXCEPT !.pc = pc, !.keys = K, !.error = e] \in RequestRecord
  OBVIOUS
<1>4. \A c \in Case, pc \in Progress : [q EXCEPT !.case = c, !.pc = pc] \in RequestRecord
  OBVIOUS
<1>5. [q EXCEPT !.pc = "serving", !.claims = None] \in RequestRecord
  BY DEF Progress
<1>6. \A s \in Sub, x \in Role :
        [q EXCEPT !.pc = "proxied", !.at = 0, !.sub = s, !.role = x, !.claims = s]
          \in RequestRecord
  BY DEF Progress
<1> QED
  BY <1>1, <1>2, <1>3, <1>4, <1>5, <1>6

LEMMA TypeEnds == Done \in RequestRecord
BY DEF Done, NoRequest, RequestRecord, Progress, Role

\* The record a step leaves for the request that takes it.
LEMMA TypeRequest ==
  ASSUME TypeOK, NEW r \in Request, TokenInv(r), RequestStep(r)
  PROVE  request' \in [Request -> RequestRecord]
<1>1. request[r] \in RequestRecord /\ request \in [Request -> RequestRecord] /\ clock \in Nat
  BY RequestType DEF TypeOK
<1>2. ASSUME NEW op \in Operation, NEW t \in Token, Arrive(r, op, t)
      PROVE  request' \in [Request -> RequestRecord]
  <2> DEFINE public == [NoRequest EXCEPT !.pc = "proxied", !.op = op]
             private == [NoRequest EXCEPT !.pc = "lookup", !.op = op, !.token = t, !.begun = clock]
  <2>1. public \in RequestRecord
    BY DEF NoRequest, RequestRecord, Role, Progress
  <2>2. private \in RequestRecord
    BY <1>1 DEF NoRequest, RequestRecord, Role, Progress
  <2>3. request' = [request EXCEPT ![r] = IF op = "status" THEN public ELSE private]
    BY <1>2 DEF Arrive
  <2> HIDE DEF public, private
  <2> QED
    BY <1>1, <2>1, <2>2, <2>3
<1>3. ASSUME NEW pc \in Progress, Goes(r, pc) PROVE request' \in [Request -> RequestRecord]
  BY <1>1, <1>3, MoveType DEF Goes
<1>4. ASSUME NEW pc \in Progress, Returns(r, pc) PROVE request' \in [Request -> RequestRecord]
  <2> DEFINE n == IF pc = "verified" THEN clock ELSE 0
             b == IF pc = "verified" THEN 0 ELSE request[r].begun
  <2>1. request' = [request EXCEPT ![r] =
          [request[r] EXCEPT !.pc = pc, !.at = n, !.begun = b, !.keys = {}, !.error = FALSE]]
    BY <1>1, <1>4 DEF Returns
  <2>2. n \in Nat /\ b \in Nat
    BY <1>1 DEF RequestRecord
  <2> HIDE DEF n, b
  <2> QED
    BY <1>1, <2>1, <2>2, MoveType
<1>5. ASSUME Ends(r) PROVE request' \in [Request -> RequestRecord]
  BY <1>1, <1>5, TypeEnds DEF Ends
<1>6. ASSUME NEW K \in SUBSET Key, NEW e \in BOOLEAN, Receives(r, K, e)
      PROVE  request' \in [Request -> RequestRecord]
  <2>1. request' = [request EXCEPT ![r] =
                      [request[r] EXCEPT !.pc = "answered", !.keys = K, !.error = e]]
    BY <1>1, <1>6 DEF Receives
  <2>2. "answered" \in Progress
    BY DEF Progress
  <2> QED
    BY <1>1, <2>1, <2>2, MoveType
<1>7. CASE LookupHit(r) \/ FindKey(r)
  <2>1. "verified" \in Progress /\ "unknown" \in Progress
    BY DEF Progress
  <2> QED
    BY <1>4, <1>7, <2>1 DEF LookupHit, FindKey
<1>8. CASE LookupMiss(r) \/ Store(r) \/ GetMe(r)
  <2>1. "refreshing" \in Progress /\ "stored" \in Progress /\ "developer" \in Progress
    BY DEF Progress
  <2> QED
    BY <1>3, <1>5, <1>8, <2>1 DEF LookupMiss, Store, GetMe
<1>9. CASE Answer(r) \/ AnswerError(r)
  BY <1>6, <1>9 DEF Answer, AnswerError, TypeOK
<1>10. CASE NoBearer(r) \/ FetchFails(r) \/ ClaimsFail(r) \/ NotEnabled(r) \/ ServiceFails(r) \/ NoRoute(r)
  BY <1>5, <1>10 DEF NoBearer, Ends, FetchFails, ClaimsFail, NotEnabled, ServiceFails, NoRoute
<1>11. CASE Identify(r)
  <2>1. request[r].token.sub \in Sub /\ ForwardedRole(r) \in Role
    BY <1>11, Constants DEF Identify, TokenInv, ForwardedRole, Claims, Role
  <2>2. request' = [request EXCEPT ![r] =
          [request[r] EXCEPT !.pc = "proxied", !.at = 0, !.sub = request[r].token.sub,
                             !.role = ForwardedRole(r), !.claims = request[r].token.sub]]
    BY <1>1, <1>11 DEF Identify, Claims
  <2> QED
    BY <1>1, <2>1, <2>2, MoveType
<1>12. CASE Proxy(r)
  <2>1. request' = [request EXCEPT ![r] = [request[r] EXCEPT !.pc = "serving", !.claims = None]]
    BY <1>1, <1>12 DEF Proxy
  <2> QED
    BY <1>1, <2>1, MoveType
<1>13. ASSUME NEW c \in Case, CreateCase(r, c)
       PROVE  request' \in [Request -> RequestRecord]
  BY <1>5, <1>13 DEF CreateCase
<1>14. ASSUME NEW c \in Case, CaseForbidden(r, c) \/ GetCase(r, c)
       PROVE  request' \in [Request -> RequestRecord]
  <2>1. PICK pc \in {"shown", "forbidden"} :
               request' = [request EXCEPT ![r] = [@ EXCEPT !.case = c, !.pc = pc]]
    BY <1>14 DEF CaseForbidden, GetCase
  <2>2. request' = [request EXCEPT ![r] = [request[r] EXCEPT !.case = c, !.pc = pc]]
    BY <1>1, <2>1
  <2>3. pc \in Progress
    BY DEF Progress
  <2> QED
    BY <1>1, <2>2, <2>3, MoveType
<1> QED
  BY <1>2, <1>7, <1>8, <1>9, <1>10, <1>11, <1>12, <1>13, <1>14 DEF RequestStep

\* What a step leaves of everything else.
LEMMA TypeShared ==
  ASSUME TypeOK, NEW r \in Request, TokenInv(r), RequestStep(r)
  PROVE  /\ UNCHANGED <<clock, published, since, until, rotations>>
         /\ cache' \in [Issuer -> [keys : SUBSET Key, fetchedAt : Nat]]
         /\ blank' \in [Issuer -> Int]
         /\ resident' \in [Case -> Sub \cup {None, Absent}]
         /\ submitted' \in [Case -> Token \cup {None}]
<1> USE DEF issuers, cases
<1>1. ASSUME Store(r)
      PROVE  /\ UNCHANGED <<clock, published, since, until, rotations, resident, submitted>>
             /\ cache' \in [Issuer -> [keys : SUBSET Key, fetchedAt : Nat]]
             /\ blank' \in [Issuer -> Int]
  <2>1. [keys |-> request[r].keys, fetchedAt |-> clock] \in [keys : SUBSET Key, fetchedAt : Nat]
    BY DEF TypeOK
  <2>2. cache' \in [Issuer -> [keys : SUBSET Key, fetchedAt : Nat]]
    BY <1>1, <2>1 DEF Store, TypeOK
  <2>3. blank' = blank \/ blank' = [blank EXCEPT ![Verifier(r)] = clock]
    BY <1>1, Zenon DEF Store
  <2>4. blank' \in [Issuer -> Int]
    BY <2>3 DEF TypeOK
  <2> QED
    BY <1>1, <2>2, <2>4 DEF Store
<1>2. ASSUME NEW c \in Case, CreateCase(r, c)
      PROVE  /\ UNCHANGED <<clock, published, since, until, rotations, cache, blank>>
             /\ resident' \in [Case -> Sub \cup {None, Absent}]
             /\ submitted' \in [Case -> Token \cup {None}]
  <2>1. residentSubFromRequest(r) \in Sub \cup {None} /\ request[r].token \in Token \cup {None}
    BY DEF residentSubFromRequest, TypeOK
  <2> QED
    BY <1>2, <2>1 DEF CreateCase, TypeOK
<1>3. ASSUME ~Store(r), ~\E c \in Case : CreateCase(r, c)
      PROVE  UNCHANGED <<clock, published, since, until, rotations, cache, blank, resident, submitted>>
  BY <1>3 DEF RequestStep, Arrive, NoBearer, LookupHit, LookupMiss, Answer, AnswerError, FetchFails, FindKey,
              ClaimsFail, Identify, Proxy, NotEnabled, ServiceFails, CaseForbidden, GetCase,
              GetMe, NoRoute
<1> QED
  BY <1>1, <1>2, <1>3 DEF TypeOK

LEMMA TypeNext ==
  ASSUME TypeOK, \A r \in Request : TokenInv(r), [Next]_vars
  PROVE  TypeOK'
<1>1. CASE UNCHANGED vars
  BY <1>1 DEF vars, issuers, cases, TypeOK
<1>2. CASE Tick
  BY <1>2 DEF Tick, issuers, cases, TypeOK
<1>3. ASSUME NEW k \in Key, Publish(k) \/ Withdraw(k) PROVE TypeOK'
  BY <1>3 DEF Publish, Withdraw, cases, TypeOK
<1>4. ASSUME NEW r \in Request, RequestStep(r) PROVE TypeOK'
  <2>1. request' \in [Request -> RequestRecord]
    BY <1>4, TypeRequest
  <2> QED
    BY <1>4, <2>1, TypeShared DEF TypeOK, RequestRecord
<1> QED
  BY <1>1, <1>2, <1>3, <1>4 DEF Next

-----------------------------------------------------------------------------
(* What a step may do to the things a request relies on, seen from any       *)
(* request that does not take it.                                            *)

Onward ==
  /\ clock' >= clock
  /\ \A k \in Key : /\ k \in published => k \in published' \/ until'[k] >= clock
                    /\ until'[k] = until[k] \/ until'[k] >= clock
                    /\ k \in published' => k \in published \/ since'[k] >= clock
                    /\ since'[k] = since[k] \/ since'[k] >= clock
  /\ \A i \in Issuer : /\ cache'[i].fetchedAt >= cache[i].fetchedAt
                       /\ blank'[i] >= blank[i]
  /\ \A c \in Case : resident[c] # Absent =>
       resident'[c] = resident[c] /\ submitted'[c] = submitted[c]

Later(r) == Onward /\ (InLookup(r) => clock' - request[r].begun <= Delay)

LEMMA VerifierType == ASSUME NEW r PROVE Verifier(r) \in Issuer
BY DEF Verifier, Issuer

\* A request keeps all it relies on while others step.
LEMMA Kept ==
  ASSUME TypeOK, TypeOK', NEW r \in Request, RequestInv(r), request'[r] = request[r], Later(r)
  PROVE  RequestInv(r)'
<1>1. Verifier(r)' = Verifier(r) /\ InLookup(r)' = InLookup(r) /\ Verifier(r) \in Issuer
  BY VerifierType DEF Verifier, peekIssuer, InLookup
<1>2. /\ request[r].begun \in Nat /\ request[r].at \in Nat /\ clock \in Nat /\ clock' \in Nat
      /\ request[r].keys \in SUBSET Key
      /\ \A k \in Key : since[k] \in Int /\ until[k] \in Int /\ since'[k] \in Int /\ until'[k] \in Int
      /\ \A i \in Issuer : /\ cache[i].fetchedAt \in Nat /\ cache'[i].fetchedAt \in Nat
                           /\ blank[i] \in Int /\ blank'[i] \in Int
  BY DEF TypeOK
<1>3. TimeInv(r)' /\ TokenInv(r)'
  BY <1>1, <1>2 DEF Later, Onward, RequestInv, TimeInv, TokenInv
<1>4. AnswerInv(r)'
  <2> SUFFICES ASSUME request[r].pc = "answered" PROVE AnswerInv(r)'
    BY DEF AnswerInv
  <2>1. request[r].begun <= clock
    BY DEF RequestInv, TimeInv
  <2>2. \A k \in request[r].keys : k \in published' \/ until'[k] >= request[r].begun
    BY <1>2, <2>1 DEF Later, Onward, RequestInv, AnswerInv
  <2>3. ASSUME NEW k \in published' \cap KeysOf(Verifier(r))
        PROVE  k \in request[r].keys \/ since'[k] >= request[r].begun \/ request[r].error
    <3>1. k \in Key
      BY DEF TypeOK
    <3>2. k \in published \/ since'[k] >= clock
      BY <3>1 DEF Later, Onward
    <3>3. since'[k] = since[k] \/ since'[k] >= clock
      BY <3>1 DEF Later, Onward
    <3> QED
      BY <1>2, <2>1, <3>1, <3>2, <3>3 DEF RequestInv, AnswerInv
  <2>4. request[r].keys \subseteq KeysOf(Verifier(r))
    BY DEF RequestInv, AnswerInv
  <2> QED
    BY <1>1, <2>2, <2>3, <2>4 DEF AnswerInv
<1>5. StoredInv(r)'
  BY <1>1, <1>2 DEF Later, Onward, RequestInv, StoredInv
<1>6. VerifiedInv(r)'
  <2> SUFFICES ASSUME request[r].pc = "verified" PROVE VerifiedInv(r)'
    BY DEF VerifiedInv
  <2> DEFINE k == request[r].token.key
  <2>1. k \in KeysOf(Verifier(r)) /\ (k \in published \/ request[r].at - until[k] <= Overlap)
    BY DEF RequestInv, VerifiedInv
  <2>2. request[r].at <= clock /\ k \in Key
    BY Constants DEF RequestInv, TimeInv, TokenInv
  <2>3. k \in published' \/ request[r].at - until'[k] <= Overlap
    <3>1. until'[k] >= clock => request[r].at - until'[k] <= Overlap
      BY <1>2, <2>2, Constants
    <3> QED
      BY <2>1, <2>2, <3>1 DEF Later, Onward
  <2> QED
    BY <1>1, <2>1, <2>3 DEF VerifiedInv
<1>7. UnknownInv(r)'
  <2> SUFFICES ASSUME request[r].pc = "unknown" PROVE UnknownInv(r)'
    BY DEF UnknownInv
  <2> DEFINE k == request[r].token.key
             i == Verifier(r)
  <2>1. \/ k \notin KeysOf(i) \/ k \notin published
        \/ since[k] >= request[r].begun - Delay \/ blank[i] >= request[r].begun
    BY DEF RequestInv, UnknownInv
  <2>2. request[r].begun <= clock /\ k \in Key /\ Delay \in Nat
    BY Constants DEF RequestInv, TimeInv, TokenInv
  <2>3. since'[k] >= clock => since'[k] >= request[r].begun - Delay
    BY <1>2, <2>2
  <2>4. blank[i] >= request[r].begun => blank'[i] >= request[r].begun
    BY <1>1, <1>2 DEF Later, Onward
  <2>5. \/ k \notin KeysOf(i) \/ k \notin published'
        \/ since'[k] >= request[r].begun - Delay \/ blank'[i] >= request[r].begun
    BY <2>1, <2>2, <2>3, <2>4 DEF Later, Onward
  <2> QED
    BY <1>1, <2>5 DEF UnknownInv
<1>8. IdentityInv(r)'
  BY DEF RequestInv, IdentityInv
<1>9. ShownInv(r)'
  <2> SUFFICES ASSUME request[r].pc \in {"shown", "forbidden"} PROVE ShownInv(r)'
    BY DEF ShownInv
  <2>1. /\ request[r].case \in Case /\ resident[request[r].case] # Absent
        /\ resident'[request[r].case] = resident[request[r].case]
        /\ submitted'[request[r].case] = submitted[request[r].case]
    BY DEF Later, Onward, RequestInv, ShownInv
  <2> QED
    BY <2>1 DEF RequestInv, ShownInv
<1> QED
  BY <1>3, <1>4, <1>5, <1>6, <1>7, <1>8, <1>9 DEF RequestInv

\* The cache keeps its promise while keys come and go and time passes.
LEMMA CacheKept ==
  ASSUME TypeOK, TypeOK', CacheInv, UNCHANGED <<cache, blank>>, Onward
  PROVE  CacheInv'
<1> SUFFICES ASSUME NEW i \in Issuer
             PROVE  /\ cache[i].keys \subseteq KeysOf(i) /\ cache[i].fetchedAt <= clock'
                    /\ blank[i] <= clock'
                    /\ \A k \in cache[i].keys : k \in published' \/ until'[k] >= cache[i].fetchedAt - Delay
                    /\ \A k \in published' \cap KeysOf(i) : \/ k \in cache[i].keys
                                                            \/ since'[k] >= cache[i].fetchedAt - Delay
                                                            \/ blank[i] >= cache[i].fetchedAt
  BY DEF CacheInv
<1>1. /\ clock \in Nat /\ clock' \in Nat /\ clock' >= clock /\ Delay \in Nat
      /\ cache[i].fetchedAt \in Nat /\ cache[i].keys \subseteq Key /\ blank[i] \in Int
      /\ \A k \in Key : since[k] \in Int /\ until[k] \in Int /\ since'[k] \in Int /\ until'[k] \in Int
      /\ published' \subseteq Key
  BY Constants DEF TypeOK, Onward
<1>2. cache[i].keys \subseteq KeysOf(i) /\ cache[i].fetchedAt <= clock /\ blank[i] <= clock
  BY DEF CacheInv
<1>3. \A k \in Key : /\ until'[k] >= clock => until'[k] >= cache[i].fetchedAt - Delay
                     /\ since'[k] >= clock => since'[k] >= cache[i].fetchedAt - Delay
  BY <1>1, <1>2
<1>4. ASSUME NEW k \in cache[i].keys
      PROVE  k \in published' \/ until'[k] >= cache[i].fetchedAt - Delay
  BY <1>1, <1>3 DEF CacheInv, Onward
<1>5. ASSUME NEW k \in published' \cap KeysOf(i)
      PROVE  \/ k \in cache[i].keys \/ since'[k] >= cache[i].fetchedAt - Delay
             \/ blank[i] >= cache[i].fetchedAt
  BY <1>1, <1>3 DEF CacheInv, Onward
<1> QED
  BY <1>1, <1>2, <1>4, <1>5

\* Time and the issuers: what happens outside the requests.
LEMMA OnwardOutside ==
  ASSUME IInv, Tick \/ \E k \in Key : Publish(k) \/ Withdraw(k)
  PROVE  Onward /\ UNCHANGED <<cache, blank, request, resident, submitted>>
<1> USE DEF cases, issuers
<1>1. /\ clock \in Nat /\ since \in [Key -> Int] /\ until \in [Key -> Int]
      /\ \A i \in Issuer : cache[i].fetchedAt \in Nat /\ blank[i] \in Int
  BY DEF IInv, TypeOK
<1>2. CASE Tick
  BY <1>1, <1>2 DEF Tick, Onward
<1>3. ASSUME NEW k \in Key, Publish(k)
      PROVE  Onward /\ UNCHANGED <<cache, blank, request, resident, submitted>>
  <2>1. published' = published \cup {k} /\ since' = [since EXCEPT ![k] = clock]
        /\ UNCHANGED <<clock, until, cache, blank, request, resident, submitted>>
    BY <1>3 DEF Publish
  <2>2. since'[k] = clock /\ \A j \in Key : j # k => since'[j] = since[j]
    BY <1>1, <2>1
  <2> QED
    BY <1>1, <2>1, <2>2 DEF Onward
<1>4. ASSUME NEW k \in Key, Withdraw(k)
      PROVE  Onward /\ UNCHANGED <<cache, blank, request, resident, submitted>>
  <2>1. published' = published \ {k} /\ until' = [until EXCEPT ![k] = clock]
        /\ UNCHANGED <<clock, since, cache, blank, request, resident, submitted>>
    BY <1>4 DEF Withdraw
  <2>2. until'[k] = clock /\ \A j \in Key : j # k => until'[j] = until[j]
    BY <1>1, <2>1
  <2> QED
    BY <1>1, <2>1, <2>2 DEF Onward
<1> QED
  BY <1>2, <1>3, <1>4

LEMMA LaterOutside ==
  ASSUME IInv, NEW r \in Request, Tick \/ \E k \in Key : Publish(k) \/ Withdraw(k)
  PROVE  Later(r)
<1>1. InLookup(r) => clock - request[r].begun <= Delay
  BY DEF IInv, RequestInv, TimeInv
<1>2. clock \in Nat /\ Delay \in Nat /\ request[r].begun \in Nat
  BY Constants DEF IInv, TypeOK
<1>3. InLookup(r) => clock' - request[r].begun <= Delay
  BY <1>1, <1>2 DEF Tick, Publish, Withdraw, InLookup
<1> QED
  BY <1>3, OnwardOutside DEF Later

LEMMA LaterRequest ==
  ASSUME IInv, NEW q \in Request, RequestStep(q), NEW r \in Request
  PROVE  /\ Later(r) /\ (r # q => request'[r] = request[r])
         /\ Store(q) \/ UNCHANGED <<cache, blank>>
         /\ (\E c \in Case : CreateCase(q, c)) \/ UNCHANGED <<resident, submitted>>
<1> USE DEF IInv, cases, issuers, InLookup
<1>1. request[r].begun \in Nat /\ clock \in Nat
      /\ (\A i \in Issuer : /\ cache[i].fetchedAt \in Nat /\ blank[i] \in Int
                            /\ cache[i].fetchedAt <= clock /\ blank[i] <= clock)
      /\ (InLookup(r) => clock - request[r].begun <= Delay)
  BY DEF TypeOK, RequestInv, TimeInv, CacheInv
<1>2. UNCHANGED <<clock, published, since, until>>
  BY TypeShared DEF RequestInv
<1>3. r # q => request'[r] = request[r]
  BY DEF TypeOK, RequestStep, Arrive, NoBearer, LookupHit, LookupMiss, Answer, AnswerError, FetchFails, Store,
         FindKey, ClaimsFail, Identify, Proxy, NotEnabled, ServiceFails, CreateCase, CaseForbidden,
         GetCase, GetMe, NoRoute,
         Goes, Returns, Receives, Ends
<1>4. \/ Store(q) /\ UNCHANGED <<resident, submitted>>
      \/ (\E c \in Case : CreateCase(q, c)) /\ UNCHANGED <<cache, blank>>
      \/ UNCHANGED <<cache, blank, resident, submitted>>
  BY DEF RequestStep, Arrive, NoBearer, LookupHit, LookupMiss, Answer, AnswerError, FetchFails, Store,
         FindKey, ClaimsFail, Identify, Proxy, NotEnabled, ServiceFails, CreateCase, CaseForbidden,
         GetCase, GetMe, NoRoute
<1>5. \A i \in Issuer : cache'[i].fetchedAt >= cache[i].fetchedAt /\ blank'[i] >= blank[i]
  <2>1. CASE UNCHANGED <<cache, blank>>
    BY <1>1, <2>1
  <2>2. CASE Store(q)
    <3>1. cache' = [cache EXCEPT ![Verifier(q)] = [keys |-> request[q].keys, fetchedAt |-> clock]]
      BY <2>2 DEF Store
    <3>2. blank' = blank \/ blank' = [blank EXCEPT ![Verifier(q)] = clock]
      BY <2>2, Zenon DEF Store
    <3>3. \A i \in Issuer : cache'[i].fetchedAt >= cache[i].fetchedAt
      BY <1>1, <3>1 DEF TypeOK
    <3>4. \A i \in Issuer : blank'[i] >= blank[i]
      BY <1>1, <3>2 DEF TypeOK
    <3> QED
      BY <3>3, <3>4
  <2> QED
    BY <1>4, <2>1, <2>2
<1>6. \A c \in Case : resident[c] # Absent => resident'[c] = resident[c] /\ submitted'[c] = submitted[c]
  <2>1. ASSUME NEW d \in Case, CreateCase(q, d), NEW c \in Case, resident[c] # Absent
        PROVE  resident'[c] = resident[c] /\ submitted'[c] = submitted[c]
    BY <2>1 DEF CreateCase, TypeOK
  <2> QED
    BY <1>4, <2>1
<1>7. Later(r)
  BY <1>1, <1>2, <1>5, <1>6 DEF Later, Onward
<1> QED
  BY <1>3, <1>4, <1>7

-----------------------------------------------------------------------------
(* The request that takes the step.                                          *)

\* The parts that speak of one stage each.
Stages(r) == /\ AnswerInv(r) /\ StoredInv(r) /\ VerifiedInv(r) /\ UnknownInv(r)
             /\ IdentityInv(r) /\ ShownInv(r)

\* In the remaining stages there is nothing to show.
LEMMA Plain ==
  ASSUME NEW r, request[r].pc \in {"new", "lookup", "refreshing", "developer", "done"}
  PROVE  Stages(r)
BY DEF Stages, AnswerInv, StoredInv, VerifiedInv, UnknownInv, IdentityInv, ShownInv

LEMMA EndsInv ==
  ASSUME TypeOK, TypeOK', NEW r \in Request, Ends(r)
  PROVE  RequestInv(r)'
<1>1. request'[r] = Done
  BY DEF Ends, TypeOK
<1>2. request'[r].pc = "done" /\ request'[r].begun = 0 /\ request'[r].at = 0
  BY <1>1 DEF Done, NoRequest
<1>3. TimeInv(r)' /\ TokenInv(r)'
  BY <1>2 DEF TimeInv, TokenInv, InLookup, TypeOK
<1>4. Stages(r)'
  BY <1>2, Plain DEF Stages, AnswerInv, StoredInv, VerifiedInv, UnknownInv, IdentityInv, ShownInv
<1> QED
  BY <1>3, <1>4 DEF RequestInv, Stages

LEMMA ArriveInv ==
  ASSUME IInv, TypeOK', NEW r \in Request, NEW op \in Operation, NEW t \in Token, Arrive(r, op, t)
  PROVE  RequestInv(r)'
<1>1. clock' = clock /\ clock \in Nat /\ Delay \in Nat
  BY Constants DEF Arrive, IInv, TypeOK
<1>2. CASE op = "status"
  <2>1. request'[r] = [NoRequest EXCEPT !.pc = "proxied", !.op = op]
    BY <1>2 DEF Arrive, IInv, TypeOK
  <2>2. /\ request'[r].pc = "proxied" /\ request'[r].op = "status"
        /\ request'[r].begun = 0 /\ request'[r].at = 0
    BY <1>2, <2>1 DEF NoRequest
  <2> QED
    BY <1>1, <2>2 DEF RequestInv, TimeInv, TokenInv, InLookup, AnswerInv, StoredInv, VerifiedInv,
                      UnknownInv, IdentityInv, ShownInv
<1>3. CASE op # "status"
  <2>1. request'[r] = [NoRequest EXCEPT !.pc = "lookup", !.op = op, !.token = t, !.begun = clock]
    BY <1>3 DEF Arrive, IInv, TypeOK
  <2>2. /\ request'[r].pc = "lookup" /\ request'[r].token = t
        /\ request'[r].begun = clock /\ request'[r].at = 0
    BY <2>1 DEF NoRequest
  <2> QED
    BY <1>1, <2>2 DEF RequestInv, TimeInv, TokenInv, AnswerInv, StoredInv, VerifiedInv, UnknownInv,
                      IdentityInv, ShownInv
<1> QED
  BY <1>2, <1>3

\* Within a lookup the operation, the token and the time it began stay.
LEMMA Moved ==
  ASSUME TypeOK, NEW r \in Request, NEW pc, Goes(r, pc)
  PROVE  /\ request'[r].pc = pc /\ request'[r].op = request[r].op
         /\ request'[r].token = request[r].token /\ request'[r].begun = request[r].begun
         /\ request'[r].at = request[r].at /\ Verifier(r)' = Verifier(r)
BY DEF TypeOK, Goes, Verifier, peekIssuer

LEMMA Returned ==
  ASSUME TypeOK, NEW r \in Request, NEW pc, Returns(r, pc)
  PROVE  /\ request'[r].pc = pc /\ request'[r].op = request[r].op
         /\ request'[r].token = request[r].token
         /\ request'[r].begun = (IF pc = "verified" THEN 0 ELSE request[r].begun)
         /\ request'[r].at = (IF pc = "verified" THEN clock ELSE 0) /\ Verifier(r)' = Verifier(r)
BY DEF TypeOK, Returns, Verifier, peekIssuer

LEMMA LookupHitInv ==
  ASSUME IInv, TypeOK', NEW r \in Request, LookupHit(r)
  PROVE  RequestInv(r)'
<1> DEFINE i == Verifier(r)
           k == request[r].token.key
<1>1. /\ request[r].pc = "lookup" /\ k \in cache[i].keys /\ clock - cache[i].fetchedAt < TTL
      /\ UNCHANGED <<clock, published, until>> /\ Returns(r, "verified")
  BY DEF LookupHit, Found, Fresh, issuers
<1>2. /\ request'[r].pc = "verified" /\ request'[r].op = request[r].op
      /\ request'[r].token = request[r].token /\ request'[r].begun = 0
      /\ request'[r].at = clock /\ Verifier(r)' = i
  BY <1>1, Returned DEF IInv
<1>3. TimeInv(r)' /\ TokenInv(r)'
  <2>1. clock \in Nat /\ request[r].token \in Token
    BY <1>1 DEF IInv, TypeOK, RequestInv, TokenInv
  <2> QED
    BY <1>1, <1>2, <2>1 DEF TimeInv, TokenInv, InLookup
<1>4. i \in Issuer /\ cache[i].fetchedAt \in Nat /\ k \in Key /\ until[k] \in Int /\ clock \in Nat
  BY <1>1, VerifierType DEF IInv, TypeOK
<1>5. k \in KeysOf(i) /\ (k \in published \/ until[k] >= cache[i].fetchedAt - Delay)
  BY <1>1, <1>4 DEF IInv, CacheInv
<1>6. until[k] >= cache[i].fetchedAt - Delay => clock - until[k] <= Overlap
  BY <1>1, <1>4, Constants
<1>7. VerifiedInv(r)'
  BY <1>1, <1>2, <1>5, <1>6 DEF VerifiedInv
<1> QED
  BY <1>2, <1>3, <1>7 DEF RequestInv, AnswerInv, StoredInv, UnknownInv, IdentityInv, ShownInv

LEMMA LookupMissInv ==
  ASSUME IInv, TypeOK', NEW r \in Request, LookupMiss(r)
  PROVE  RequestInv(r)'
<1>1. request[r].pc = "lookup" /\ UNCHANGED clock /\ Goes(r, "refreshing")
  BY DEF LookupMiss
<1>2. /\ request'[r].pc = "refreshing" /\ request'[r].token = request[r].token
      /\ request'[r].begun = request[r].begun /\ request'[r].at = request[r].at
  BY <1>1, Moved DEF IInv
<1>3. TimeInv(r)' /\ TokenInv(r)'
  BY <1>1, <1>2 DEF IInv, RequestInv, TimeInv, TokenInv, InLookup
<1> QED
  BY <1>2, <1>3 DEF RequestInv, AnswerInv, StoredInv, VerifiedInv, UnknownInv, IdentityInv, ShownInv

LEMMA AnswerInvariant ==
  ASSUME IInv, TypeOK', NEW r \in Request, Answer(r) \/ AnswerError(r)
  PROVE  RequestInv(r)'
<1>1. request[r].pc = "refreshing" /\ UNCHANGED <<clock, published, since, until>>
  BY DEF Answer, AnswerError, issuers
<1>2. /\ request'[r].pc = "answered" /\ request'[r].op = request[r].op
      /\ request'[r].token = request[r].token
      /\ request'[r].begun = request[r].begun /\ request'[r].at = request[r].at
      /\ \/ request'[r].keys = published \cap KeysOf(Verifier(r))
         \/ request'[r].keys = {} /\ request'[r].error = TRUE
  <2>1. request \in [Request -> RequestRecord]
    BY RequestType DEF IInv
  <2>2. PICK K, e : /\ request' = [request EXCEPT ![r] =
                                    [@ EXCEPT !.pc = "answered", !.keys = K, !.error = e]]
                    /\ K = published \cap KeysOf(Verifier(r)) \/ (K = {} /\ e = TRUE)
    BY DEF Answer, AnswerError, Receives
  <2> QED
    BY <2>1, <2>2 DEF RequestRecord
<1>3. Verifier(r)' = Verifier(r)
  BY <1>2 DEF Verifier, peekIssuer
<1>4. TimeInv(r)' /\ TokenInv(r)'
  BY <1>1, <1>2 DEF IInv, RequestInv, TimeInv, TokenInv, InLookup
<1>5. AnswerInv(r)'
  BY <1>1, <1>2, <1>3 DEF AnswerInv
<1> QED
  BY <1>2, <1>4, <1>5 DEF RequestInv, StoredInv, VerifiedInv, UnknownInv, IdentityInv, ShownInv

LEMMA StoreInv ==
  ASSUME IInv, TypeOK', NEW r \in Request, Store(r)
  PROVE  RequestInv(r)'
<1>1. request[r].pc = "answered" /\ UNCHANGED clock /\ Goes(r, "stored")
  BY DEF Store
<1>2. /\ request'[r].pc = "stored" /\ request'[r].op = request[r].op
      /\ request'[r].token = request[r].token /\ Verifier(r)' = Verifier(r)
      /\ request'[r].begun = request[r].begun /\ request'[r].at = request[r].at
  BY <1>1, Moved DEF IInv
<1>3. TimeInv(r)' /\ TokenInv(r)'
  BY <1>1, <1>2 DEF IInv, RequestInv, TimeInv, TokenInv, InLookup
<1>4. cache'[Verifier(r)].fetchedAt = clock
  BY VerifierType DEF Store, IInv, TypeOK
<1>5. StoredInv(r)'
  BY <1>2, <1>4 DEF StoredInv, IInv, RequestInv, TimeInv
<1> QED
  BY <1>2, <1>3, <1>5 DEF RequestInv, AnswerInv, VerifiedInv, UnknownInv, IdentityInv, ShownInv

LEMMA FindKeyInv ==
  ASSUME IInv, TypeOK', NEW r \in Request, FindKey(r)
  PROVE  RequestInv(r)'
<1> DEFINE i == Verifier(r)
           k == request[r].token.key
<1>1. /\ request[r].pc = "stored" /\ UNCHANGED <<clock, published, since, until, blank>>
      /\ Returns(r, IF Found(r) THEN "verified" ELSE "unknown")
  BY DEF FindKey, issuers
<1>2. /\ request'[r].pc = IF Found(r) THEN "verified" ELSE "unknown"
      /\ request'[r].op = request[r].op /\ request'[r].token = request[r].token
      /\ request'[r].begun = (IF Found(r) THEN 0 ELSE request[r].begun)
      /\ request'[r].at = (IF Found(r) THEN clock ELSE 0) /\ Verifier(r)' = i
  BY <1>1, Returned DEF IInv
<1>3. TimeInv(r)' /\ TokenInv(r)'
  BY <1>1, <1>2 DEF IInv, RequestInv, TimeInv, TokenInv, InLookup, TypeOK
<1>4. /\ i \in Issuer /\ cache[i].fetchedAt \in Nat /\ clock \in Nat /\ request[r].begun \in Nat
      /\ k \in Key /\ until[k] \in Int /\ since[k] \in Int /\ blank[i] \in Int
  BY <1>1, VerifierType, Constants DEF IInv, TypeOK, RequestInv, TokenInv
<1>5. cache[i].fetchedAt >= request[r].begun /\ clock - request[r].begun <= Delay
  BY <1>1 DEF IInv, RequestInv, StoredInv, TimeInv, InLookup
<1>6. CASE Found(r)
  <2>1. k \in KeysOf(i) /\ (k \in published \/ until[k] >= cache[i].fetchedAt - Delay)
    BY <1>4, <1>6 DEF IInv, CacheInv, Found
  <2>2. until[k] >= cache[i].fetchedAt - Delay => clock - until[k] <= Overlap
    BY <1>4, <1>5, Constants
  <2>3. VerifiedInv(r)'
    BY <1>1, <1>2, <2>1, <2>2 DEF VerifiedInv
  <2>4. request'[r].pc = "verified"
    BY <1>2, <1>6
  <2> QED
    BY <1>3, <2>3, <2>4 DEF RequestInv, AnswerInv, StoredInv, UnknownInv, IdentityInv, ShownInv
<1>7. CASE ~Found(r)
  <2>1. k \in published \cap KeysOf(i) =>
           since[k] >= cache[i].fetchedAt - Delay \/ blank[i] >= cache[i].fetchedAt
    BY <1>4, <1>7 DEF IInv, CacheInv, Found
  <2>2. /\ since[k] >= cache[i].fetchedAt - Delay => since[k] >= request[r].begun - Delay
        /\ blank[i] >= cache[i].fetchedAt => blank[i] >= request[r].begun
    BY <1>4, <1>5, Constants
  <2>3. UnknownInv(r)'
    BY <1>1, <1>2, <1>7, <2>1, <2>2 DEF UnknownInv
  <2>4. request'[r].pc = "unknown"
    BY <1>2, <1>7
  <2> QED
    BY <1>3, <2>3, <2>4 DEF RequestInv, AnswerInv, StoredInv, VerifiedInv, IdentityInv, ShownInv
<1> QED
  BY <1>6, <1>7

\* The token's issuer is the one whose keys verified it, so whoever is called a resident
\* has a token of the residents' issuer.
LEMMA IdentifyInv ==
  ASSUME IInv, TypeOK', NEW r \in Request, Identify(r)
  PROVE  RequestInv(r)'
<1> DEFINE t == request[r].token
<1>1. request[r].pc = "verified" /\ t \in Token
  BY DEF Identify, IInv, RequestInv, TokenInv
<1>2. t.issuer = Verifier(r) /\ t.issuer \in Issuer
  BY VerifierType DEF Identify
<1>3. /\ request'[r].pc = "proxied" /\ request'[r].token = t
      /\ request'[r].sub = t.sub /\ request'[r].role = ForwardedRole(r)
      /\ request'[r].begun = request[r].begun /\ request'[r].at = 0
  <2>1. request \in [Request -> RequestRecord]
    BY RequestType DEF IInv
  <2>2. request'[r] = [request[r] EXCEPT !.pc = "proxied", !.at = 0, !.sub = Claims(r).sub,
                                         !.role = ForwardedRole(r), !.claims = Claims(r).sub]
    BY <2>1 DEF Identify
  <2>3. request[r] \in RequestRecord /\ Claims(r).sub = t.sub
    BY <2>1 DEF Claims
  <2> QED
    BY <2>2, <2>3 DEF RequestRecord
<1>4. ForwardedRole(r) = "resident" <=> t.issuer = Resident
  <2>1. CASE Verifier(r) = Resident
    BY <1>2, <2>1 DEF ForwardedRole
  <2>2. CASE Verifier(r) = Staff
    BY <1>1, <1>2, <2>2, Constants DEF ForwardedRole, Claims
  <2> QED
    BY <2>1, <2>2, VerifierType DEF Issuer
<1>5. TimeInv(r)' /\ TokenInv(r)'
  BY <1>1, <1>3 DEF Identify, IInv, RequestInv, TimeInv, TokenInv, InLookup, TypeOK
<1>6. IdentityInv(r)'
  BY <1>1, <1>2, <1>3, <1>4 DEF IdentityInv
<1> QED
  BY <1>3, <1>5, <1>6 DEF RequestInv, AnswerInv, StoredInv, VerifiedInv, UnknownInv, ShownInv

LEMMA ProxyInv ==
  ASSUME IInv, TypeOK', NEW r \in Request, Proxy(r)
  PROVE  RequestInv(r)'
<1>1. /\ request[r].pc = "proxied" /\ UNCHANGED clock
      /\ request'[r].pc = "serving" /\ request'[r].op = request[r].op
      /\ request'[r].token = request[r].token /\ request'[r].begun = request[r].begun
      /\ request'[r].sub = request[r].sub /\ request'[r].role = request[r].role
      /\ request'[r].at = request[r].at
  BY DEF Proxy, IInv, TypeOK
<1>2. TimeInv(r)' /\ TokenInv(r)'
  BY <1>1 DEF IInv, RequestInv, TimeInv, TokenInv, InLookup
<1>3. IdentityInv(r)'
  BY <1>1 DEF IInv, RequestInv, IdentityInv
<1> QED
  BY <1>1, <1>2, <1>3 DEF RequestInv, AnswerInv, StoredInv, VerifiedInv, UnknownInv, ShownInv

\* What staff and residents are shown follows from the sub the case was submitted with.
LEMMA GetCaseInv ==
  ASSUME IInv, TypeOK', NEW r \in Request, NEW c \in Case,
         CaseForbidden(r, c) \/ GetCase(r, c)
  PROVE  RequestInv(r)'
<1> DEFINE t == request[r].token
           s == submitted[c]
           sub == residentSubFromRequest(r)
<1>1. /\ request[r].pc = "serving" /\ request[r].op = "get" /\ resident[c] # Absent
      /\ UNCHANGED <<clock, resident, submitted>>
  BY DEF CaseForbidden, GetCase, cases
<1>2. t \in Token /\ request[r].sub = t.sub /\ (request[r].role = "resident" <=> t.issuer = Resident)
  BY <1>1 DEF IInv, RequestInv, IdentityInv
<1>3. /\ t.sub # None /\ (t.issuer = Staff \/ t.issuer = Resident) /\ Staff # Resident
  BY <1>1, <1>2, Constants DEF IInv, RequestInv, IdentityInv, Issuer
<1>4. sub = IF t.issuer = Resident THEN t.sub ELSE None
  BY <1>2 DEF residentSubFromRequest
<1>5. PICK pc : /\ pc = IF Forbidden(r, c) THEN "forbidden" ELSE "shown"
                /\ request' = [request EXCEPT ![r] = [@ EXCEPT !.case = c, !.pc = pc]]
  BY DEF CaseForbidden, GetCase
<1>6. /\ request'[r].pc = pc /\ request'[r].case = c /\ request'[r].token = t
      /\ request'[r].begun = request[r].begun /\ request'[r].at = request[r].at
  BY <1>5 DEF IInv, TypeOK
<1>7. TimeInv(r)' /\ TokenInv(r)'
  BY <1>1, <1>2, <1>5, <1>6 DEF IInv, RequestInv, TimeInv, TokenInv, InLookup
<1>8. s \in Token /\ resident[c] = IF s.issuer = Resident THEN s.sub ELSE None
  BY <1>1 DEF IInv, CaseInv
<1>9. ShownInv(r)'
  BY <1>1, <1>3, <1>4, <1>5, <1>6, <1>8 DEF ShownInv, Forbidden
<1> QED
  BY <1>5, <1>6, <1>7, <1>9 DEF RequestInv, AnswerInv, StoredInv, VerifiedInv, UnknownInv, IdentityInv

LEMMA GetMeInv ==
  ASSUME IInv, TypeOK', NEW r \in Request, GetMe(r)
  PROVE  RequestInv(r)'
<1>1. CASE Ends(r)
  BY <1>1, EndsInv DEF IInv
<1>2. CASE Goes(r, "developer")
  <2>1. request[r].pc = "serving" /\ request[r].op = "me" /\ UNCHANGED clock
    BY DEF GetMe
  <2>2. /\ request'[r].pc = "developer" /\ request'[r].token = request[r].token
        /\ request'[r].begun = request[r].begun /\ request'[r].at = request[r].at
    BY <1>2, Moved DEF IInv
  <2>3. TimeInv(r)' /\ TokenInv(r)'
    BY <2>1, <2>2 DEF IInv, RequestInv, TimeInv, TokenInv, InLookup
  <2> QED
    BY <2>2, <2>3 DEF RequestInv, AnswerInv, StoredInv, VerifiedInv, UnknownInv, IdentityInv, ShownInv
<1> QED
  BY <1>1, <1>2 DEF GetMe

LEMMA ActorInv ==
  ASSUME IInv, TypeOK', NEW r \in Request, RequestStep(r)
  PROVE  RequestInv(r)'
<1>1. CASE \/ NoBearer(r) \/ FetchFails(r) \/ ClaimsFail(r) \/ NotEnabled(r) \/ ServiceFails(r) \/ NoRoute(r)
           \/ \E c \in Case : CreateCase(r, c)
  <2>1. Ends(r)
    BY <1>1 DEF NoBearer, Ends, FetchFails, ClaimsFail, NotEnabled, ServiceFails, NoRoute, CreateCase
  <2> QED
    BY <2>1, EndsInv DEF IInv
<1> QED
  BY <1>1, ArriveInv, LookupHitInv, LookupMissInv, AnswerInvariant, StoreInv, FindKeyInv, IdentifyInv,
     ProxyInv, GetCaseInv, GetMeInv DEF RequestStep

-----------------------------------------------------------------------------
(* What a step does to the caches and the cases.                             *)

\* A key set is stored at most Delay after the answer it came with, whatever was stored
\* in the meantime.
LEMMA CacheStore ==
  ASSUME IInv, NEW r \in Request, Store(r)
  PROVE  CacheInv'
<1> DEFINE v == Verifier(r)
<1>1. /\ request[r].pc = "answered" /\ UNCHANGED <<clock, published, since, until>>
      /\ cache' = [cache EXCEPT ![v] = [keys |-> request[r].keys, fetchedAt |-> clock]]
      /\ blank' = IF request[r].error THEN [blank EXCEPT ![v] = clock] ELSE blank
  BY DEF Store, issuers
<1>2. /\ v \in Issuer /\ clock \in Nat /\ Delay \in Nat /\ request[r].begun \in Nat
      /\ request[r].keys \subseteq Key /\ request[r].error \in BOOLEAN
      /\ published \subseteq Key
      /\ \A k \in Key : since[k] \in Int /\ until[k] \in Int
  BY VerifierType, Constants DEF IInv, TypeOK
<1>3. clock - request[r].begun <= Delay
  BY <1>1 DEF IInv, RequestInv, TimeInv, InLookup
<1>4. /\ request[r].keys \subseteq KeysOf(v)
      /\ \A k \in request[r].keys : k \in published \/ until[k] >= request[r].begun
      /\ \A k \in published \cap KeysOf(v) :
           k \in request[r].keys \/ since[k] >= request[r].begun \/ request[r].error
  BY <1>1 DEF IInv, RequestInv, AnswerInv
<1>5. \A k \in Key : /\ until[k] >= request[r].begun => until[k] >= clock - Delay
                     /\ since[k] >= request[r].begun => since[k] >= clock - Delay
  BY <1>2, <1>3
<1>6. /\ cache'[v].keys = request[r].keys /\ cache'[v].fetchedAt = clock
      /\ request[r].error => blank'[v] = clock
      /\ blank'[v] <= clock
  BY <1>1, <1>2 DEF IInv, TypeOK, CacheInv
<1>7. \A i \in Issuer : i # v => cache'[i] = cache[i] /\ blank'[i] = blank[i]
  BY <1>1 DEF IInv, TypeOK
<1> SUFFICES ASSUME NEW i \in Issuer
    PROVE  /\ cache'[i].keys \subseteq KeysOf(i) /\ cache'[i].fetchedAt <= clock' /\ blank'[i] <= clock'
           /\ \A k \in cache'[i].keys : k \in published' \/ until'[k] >= cache'[i].fetchedAt - Delay
           /\ \A k \in published' \cap KeysOf(i) : \/ k \in cache'[i].keys
                                                   \/ since'[k] >= cache'[i].fetchedAt - Delay
                                                   \/ blank'[i] >= cache'[i].fetchedAt
  BY DEF CacheInv
<1>8. CASE i = v
  <2>1. ASSUME NEW k \in request[r].keys PROVE k \in published \/ until[k] >= clock - Delay
    BY <1>2, <1>4, <1>5
  <2>2. ASSUME NEW k \in published \cap KeysOf(v)
        PROVE  k \in request[r].keys \/ since[k] >= clock - Delay \/ blank'[v] >= clock
    BY <1>2, <1>4, <1>5, <1>6
  <2> QED
    BY <1>1, <1>2, <1>4, <1>6, <1>8, <2>1, <2>2
<1>9. CASE i # v
  BY <1>1, <1>7, <1>9 DEF IInv, CacheInv
<1> QED
  BY <1>8, <1>9

LEMMA CaseCreate ==
  ASSUME IInv, NEW r \in Request, NEW c \in Case, CreateCase(r, c)
  PROVE  CaseInv'
<1> DEFINE t == request[r].token
<1>1. /\ request[r].pc = "serving" /\ request[r].op = "create"
      /\ resident' = [resident EXCEPT ![c] = residentSubFromRequest(r)]
      /\ submitted' = [submitted EXCEPT ![c] = t]
  BY DEF CreateCase
<1>2. t \in Token /\ request[r].sub = t.sub /\ (request[r].role = "resident" <=> t.issuer = Resident)
  BY <1>1 DEF IInv, RequestInv, TokenInv, IdentityInv
<1>3. resident'[c] = (IF t.issuer = Resident THEN t.sub ELSE None) /\ submitted'[c] = t
  BY <1>1, <1>2 DEF IInv, TypeOK, residentSubFromRequest
<1>4. \A d \in Case : d # c => resident'[d] = resident[d] /\ submitted'[d] = submitted[d]
  BY <1>1 DEF IInv, TypeOK
<1> QED
  BY <1>2, <1>3, <1>4 DEF IInv, CaseInv

LEMMA IInvInit == Init => IInv
<1> SUFFICES ASSUME Init PROVE IInv
  OBVIOUS
<1>1. CacheInv
  BY Constants DEF Init, CacheInv, Never
<1>2. CaseInv
  BY DEF Init, CaseInv
<1>3. ASSUME NEW r \in Request PROVE RequestInv(r)
  <2>1. request[r].pc = "new" /\ request[r].begun = 0 /\ request[r].at = 0 /\ clock = 0
    BY DEF Init, NoRequest
  <2>2. TimeInv(r) /\ TokenInv(r)
    BY <2>1 DEF TimeInv, TokenInv, InLookup
  <2> QED
    BY <2>1, <2>2, Plain DEF RequestInv, Stages
<1> QED
  BY <1>1, <1>2, <1>3, TypeInit DEF IInv

LEMMA IInvNext == IInv /\ [Next]_vars => IInv'
<1> SUFFICES ASSUME IInv, [Next]_vars PROVE IInv'
  OBVIOUS
<1>1. TypeOK'
  BY TypeNext DEF IInv, RequestInv
<1>2. CASE UNCHANGED vars
  BY <1>1, <1>2 DEF vars, issuers, cases, IInv, CacheInv, CaseInv, RequestInv, TimeInv, TokenInv,
     AnswerInv, StoredInv, VerifiedInv, UnknownInv, IdentityInv, ShownInv, Verifier, peekIssuer, InLookup
<1>3. CASE Tick \/ \E k \in Key : Publish(k) \/ Withdraw(k)
  <2>1. Onward /\ UNCHANGED <<cache, blank, request, resident, submitted>>
    BY <1>3, OnwardOutside
  <2>2. \A r \in Request : RequestInv(r)'
    BY <1>1, <1>3, <2>1, LaterOutside, Kept DEF IInv
  <2>4. CaseInv'
    BY <2>1 DEF IInv, CaseInv
  <2>5. CacheInv'
    BY <1>1, <2>1, CacheKept DEF IInv
  <2> QED
    BY <1>1, <2>2, <2>4, <2>5 DEF IInv
<1>4. ASSUME NEW q \in Request, RequestStep(q) PROVE IInv'
  <2>1. \A r \in Request : /\ Later(r) /\ (r # q => request'[r] = request[r])
                           /\ Store(q) \/ UNCHANGED <<cache, blank>>
                           /\ (\E c \in Case : CreateCase(q, c)) \/ UNCHANGED <<resident, submitted>>
    BY <1>4, LaterRequest
  <2>2. \A r \in Request : r # q => RequestInv(r)'
    BY <1>1, <2>1, Kept DEF IInv
  <2>3. RequestInv(q)'
    BY <1>1, <1>4, ActorInv
  <2>4. CacheInv'
    BY <1>1, <1>4, <2>1, CacheStore, CacheKept DEF IInv, Later
  <2>5. CaseInv'
    <3>1. CASE \E c \in Case : CreateCase(q, c)
      BY <3>1, CaseCreate
    <3>2. CASE UNCHANGED <<resident, submitted>>
      BY <3>2 DEF IInv, CaseInv
    <3> QED
      BY <2>1, <3>1, <3>2
  <2> QED
    BY <1>1, <2>2, <2>3, <2>4, <2>5 DEF IInv
<1> QED
  BY <1>2, <1>3, <1>4 DEF Next

LEMMA Invariance == Spec => []IInv
BY IInvInit, IInvNext, PTL DEF Spec

-----------------------------------------------------------------------------
(* What follows.                                                             *)

\* Requests, caches and cases keep their types.
THEOREM AccessTypeCorrect == Spec => []TypeOK
<1>1. IInv => TypeOK
  BY DEF IInv
<1> QED
  BY <1>1, Invariance, PTL

\* A token is verified with a published key, or one withdrawn at most Overlap before the
\* key set was read.
THEOREM KeysExpire == Spec => []WithdrawnKeysExpire
<1>1. IInv => WithdrawnKeysExpire
  BY DEF IInv, RequestInv, VerifiedInv, WithdrawnKeysExpire
<1> QED
  BY <1>1, Invariance, PTL

\* A request is told that its key is unknown only if it is, or is too young, or an error
\* document was stored while it looked.
THEOREM RefusalsCaused == Spec => []RefusedForCause
<1>1. IInv => RefusedForCause
  BY DEF IInv, RequestInv, UnknownInv, RefusedForCause
<1> QED
  BY <1>1, Invariance, PTL

\* A resident is shown exactly the cases a resident with his sub submitted.
THEOREM OwnCasesOnly == Spec => []ResidentsReadTheirOwn
<1>1. IInv => ResidentsReadTheirOwn
  BY DEF IInv, RequestInv, ShownInv, ResidentsReadTheirOwn
<1> QED
  BY <1>1, Invariance, PTL
=============================================================================
