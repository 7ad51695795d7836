------------------------------ MODULE Access --------------------------------
(***************************************************************************)
(* Who a request is from: the gateway's cache of the signing keys of each  *)
(* issuer (auth.JWKSCache), the middleware that turns a token into headers *)
(* (auth.Middleware), and the services that decide by those headers which  *)
(* cases a resident may read.                                              *)
(*                                                                         *)
(* A lookup reads the cache under a read lock, fetches the issuer's keys   *)
(* without a lock, and then replaces the whole map under the lock; lookups *)
(* overlap, and an older answer may be stored over a newer one.  refresh   *)
(* does not look at the status of the answer: an error document is decoded *)
(* as a key set without keys.                                              *)
(*                                                                         *)
(* Decoding and signatures are abstracted: a token names the key it was    *)
(* signed with and the issuer it says it is from, which may be neither of  *)
(* the two.                                                                *)
(***************************************************************************)
EXTENDS Integers

CONSTANTS Request, Key, Sub, Case,
          Staff, Resident, (* the two issuers                                            *)
          Owner,           (* the issuer of each key                                     *)
          Token,           (* records of a claimed issuer, a key, a sub and a role       *)
          None,
          FirstKeys,       (* bound: the sets of keys there may be at the gateway's start *)
          TTL,             (* life of a fetched key set (5 min in the code)              *)
          Delay,           (* ticks a lookup may take: the code sets no limit            *)
          MaxClock,        (* bound: ticks                                               *)
          MaxRotations     (* bound: publications and withdrawals of keys                *)

Issuer == {Staff, Resident}
Role == {"resident", "clerk", "none"}

\* The staff issuer does not hand out the role the middleware gives to residents.
ASSUME AccessAssumption ==
  /\ Staff # Resident
  /\ None \notin Sub
  /\ None \notin Issuer
  /\ Owner \in [Key -> Issuer]
  /\ Token \subseteq [issuer : Issuer \cup {None}, key : Key, sub : Sub, role : Role]
  /\ \A t \in Token : t.issuer = Staff => t.role # "resident"
  /\ FirstKeys \subseteq SUBSET Key
  /\ TTL \in Nat \ {0}
  /\ Delay \in Nat

KeysOf(i) == {k \in Key : Owner[k] = i}

VARIABLES
  clock,     (* time                                                                      *)
  published, (* the keys the issuers publish                                              *)
  since,     (* history: when each key was published                                      *)
  until,     (* history: when each key that was published before was withdrawn            *)
  cache,     (* JWKSCache of each issuer: its keys, and when they were stored             *)
  rotations, (* publications and withdrawals so far                                       *)
  blank,     (* history: when an error document was last stored in each cache             *)
  request,   (* each request's progress: headers, claims in its context, local variables  *)
  resident,  (* column resident_id of each case; "absent" before the INSERT               *)
  submitted  (* history: the token each case was submitted with                           *)

issuers == <<published, since, until, rotations>>
cases == <<resident, submitted>>
vars == <<clock, issuers, cache, blank, request, cases>>

Absent == "absent"
Never == 0 - (Delay + 1)

NoRequest == [pc |-> "new", op |-> "none", token |-> None, begun |-> 0, at |-> 0,
              keys |-> {}, error |-> FALSE, sub |-> None, role |-> "none", claims |-> None,
              case |-> None]
Done == [NoRequest EXCEPT !.pc = "done"]

\* The gateway does not start before every issuer has answered it, be it with an error
\* document.
Init ==
  /\ clock = 0
  /\ published \in FirstKeys
  /\ since = [k \in Key |-> Never]
  /\ until = [k \in Key |-> Never]
  /\ cache \in [Issuer -> [keys : SUBSET Key, fetchedAt : {0}]]
  /\ \A i \in Issuer : cache[i].keys \in {published \cap KeysOf(i), {}}
  /\ rotations = 0
  /\ blank = [i \in Issuer |-> IF cache[i].keys = published \cap KeysOf(i) THEN Never ELSE 0]
  /\ request = [r \in Request |-> NoRequest]
  /\ resident = [c \in Case |-> Absent]
  /\ submitted = [c \in Case |-> None]

InLookup(r) == request[r].pc \in {"lookup", "refreshing", "answered", "stored"}

Tick ==
  /\ clock < MaxClock
  /\ \A r \in Request : InLookup(r) => clock - request[r].begun < Delay
  /\ clock' = clock + 1
  /\ UNCHANGED <<issuers, cache, blank, request, cases>>

\* The issuers rotate their keys; a withdrawn key does not come back.
Publish(k) ==
  /\ rotations < MaxRotations
  /\ k \notin published
  /\ until[k] = Never
  /\ published' = published \cup {k}
  /\ since' = [since EXCEPT ![k] = clock]
  /\ rotations' = rotations + 1
  /\ UNCHANGED <<clock, until, cache, blank, request, cases>>

Withdraw(k) ==
  /\ rotations < MaxRotations
  /\ k \in published
  /\ published' = published \ {k}
  /\ until' = [until EXCEPT ![k] = clock]
  /\ rotations' = rotations + 1
  /\ UNCHANGED <<clock, since, cache, blank, request, cases>>

-----------------------------------------------------------------------------
(* The gateway.                                                              *)

(* Definitions named ..._Mutant stand for a plausible bug in the definition  *)
(* that follows them; no behaviour of the specification uses them.           *)

\* The route groups: public, for residents and staff, for staff only.
Operation == {"status", "create", "get", "me"}
ForResidents == {"create", "get"}

\* stripInternalHeaders leaves no identity on a request; a public route asks for none.
Arrive(r, op, t) ==
  /\ request[r].pc = "new"
  /\ request' = [request EXCEPT ![r] =
       IF op = "status" THEN [NoRequest EXCEPT !.pc = "proxied", !.op = op]
       ELSE [NoRequest EXCEPT !.pc = "lookup", !.op = op, !.token = t, !.begun = clock]]
  /\ UNCHANGED <<clock, issuers, cache, blank, cases>>

\* extractBearer finds no token: 401.
NoBearer(r) ==
  /\ request[r].pc = "new"
  /\ request' = [request EXCEPT ![r] = Done]
  /\ UNCHANGED <<clock, issuers, cache, blank, cases>>

\* peekIssuer: the issuer the token says it is from, before anything is verified.
peekIssuer(r) == request[r].token.issuer

\* The configuration a token is verified with: the residents' issuer is known only to the
\* middleware of the routes they may use.
Verifier(r) ==
  IF request[r].op \in ForResidents /\ peekIssuer(r) = Resident
  THEN Resident ELSE Staff

Goes(r, pc) == request' = [request EXCEPT ![r].pc = pc]

\* GetKey is done: at the time a key was taken, or with none.  When the request came is kept
\* only for a refusal.
Returns(r, pc) ==
  LET at == IF pc = "verified" THEN clock ELSE 0
      begun == IF pc = "verified" THEN 0 ELSE request[r].begun
  IN request' = [request EXCEPT ![r] =
       [@ EXCEPT !.pc = pc, !.at = at, !.begun = begun, !.keys = {}, !.error = FALSE]]

\* 401, or a response of which nothing more is of interest.
Ends(r) == request' = [request EXCEPT ![r] = Done]

\* The age of the key set is not looked at.
Fresh_Mutant(i) == TRUE

Fresh(i) == clock - cache[i].fetchedAt < TTL

Found(r) == request[r].token.key \in cache[Verifier(r)].keys

\* GetKey: a key of a fresh set is taken, ...
LookupHit(r) ==
  /\ request[r].pc = "lookup"
  /\ Found(r) /\ Fresh(Verifier(r))
  /\ Returns(r, "verified")
  /\ UNCHANGED <<clock, issuers, cache, blank, cases>>

\* A key that a fresh set does not have is taken for one that does not exist.
LookupMiss_Mutant(r) ==
  /\ request[r].pc = "lookup"
  /\ ~(Found(r) /\ Fresh(Verifier(r)))
  /\ IF Fresh(Verifier(r)) THEN Returns(r, "unknown") ELSE Goes(r, "refreshing")
  /\ UNCHANGED <<clock, issuers, cache, blank, cases>>

\* ... and otherwise, also for a key never heard of, the set is fetched.
LookupMiss(r) ==
  /\ request[r].pc = "lookup"
  /\ ~(Found(r) /\ Fresh(Verifier(r)))
  /\ Goes(r, "refreshing")
  /\ UNCHANGED <<clock, issuers, cache, blank, cases>>

Receives(r, keys, error) ==
  request' = [request EXCEPT ![r] = [@ EXCEPT !.pc = "answered", !.keys = keys, !.error = error]]

\* The issuer answers with its keys ...
Answer(r) ==
  /\ request[r].pc = "refreshing"
  /\ Receives(r, published \cap KeysOf(Verifier(r)), FALSE)
  /\ UNCHANGED <<clock, issuers, cache, blank, cases>>

\* ... or with an error document, which has none ...
AnswerError(r) ==
  /\ request[r].pc = "refreshing"
  /\ Receives(r, {}, TRUE)
  /\ UNCHANGED <<clock, issuers, cache, blank, cases>>

\* ... or not at all, or with something that is not JSON: 401, although the cache may hold
\* the key.
FetchFails(r) ==
  /\ request[r].pc \in {"refreshing", "answered"}
  /\ Ends(r)
  /\ UNCHANGED <<clock, issuers, cache, blank, cases>>

\* refresh: the whole map is replaced, whatever has been stored in the meantime.
Store(r) ==
  LET i == Verifier(r) IN
  /\ request[r].pc = "answered"
  /\ cache' = [cache EXCEPT ![i] = [keys |-> request[r].keys, fetchedAt |-> clock]]
  /\ blank' = IF request[r].error THEN [blank EXCEPT ![i] = clock] ELSE blank
  /\ Goes(r, "stored")
  /\ UNCHANGED <<clock, issuers, cases>>

\* A key that is still missing is fetched again, in a state no action knows.
FindKey_Mutant(r) ==
  /\ request[r].pc = "stored"
  /\ Returns(r, IF Found(r) THEN "verified" ELSE "retrying")
  /\ UNCHANGED <<clock, issuers, cache, blank, cases>>

\* GetKey reads the map again.
FindKey(r) ==
  /\ request[r].pc = "stored"
  /\ Returns(r, IF Found(r) THEN "verified" ELSE "unknown")
  /\ UNCHANGED <<clock, issuers, cache, blank, cases>>

\* parseToken refuses: the token is from another issuer, has expired, or is for another
\* audience.
ClaimsFail(r) ==
  /\ request[r].pc = "verified"
  /\ Ends(r)
  /\ UNCHANGED <<clock, issuers, cache, blank, cases>>

\* parseToken: what is taken over from a verified token.
Claims(r) == [sub |-> request[r].token.sub, role |-> request[r].token.role]

\* The roles are taken from the token, whoever issued it.
ForwardedRole_Mutant(r) == Claims(r).role

\* Whoever the residents' issuer vouches for is a resident.
ForwardedRole(r) ==
  IF Verifier(r) = Resident THEN "resident" ELSE Claims(r).role

\* Middleware: the identity goes into the headers, and into the context of the request.
Identify(r) ==
  /\ request[r].pc = "verified"
  /\ request[r].token.issuer = Verifier(r)
  /\ request' = [request EXCEPT ![r] =
       [@ EXCEPT !.pc = "proxied", !.at = 0, !.sub = Claims(r).sub, !.role = ForwardedRole(r),
                 !.claims = Claims(r).sub]]
  /\ UNCHANGED <<clock, issuers, cache, blank, cases>>

\* The proxy sends the headers on; a context does not leave the process.
Proxy(r) ==
  /\ request[r].pc = "proxied"
  /\ request' = [request EXCEPT ![r] = [@ EXCEPT !.pc = "serving", !.claims = None]]
  /\ UNCHANGED <<clock, issuers, cache, blank, cases>>

\* 503: services.yaml does not enable the service, or has no entry for it.
NotEnabled(r) ==
  /\ request[r].pc = "proxied"
  /\ Ends(r)
  /\ UNCHANGED <<clock, issuers, cache, blank, cases>>

-----------------------------------------------------------------------------
(* The services.                                                             *)

\* The sub of a resident, and None for staff.
residentSubFromRequest(r) ==
  IF request[r].role = "resident" THEN request[r].sub ELSE None

\* CreatePermit, CreateRequest, CreateFOIARequest.
CreateCase(r, c) ==
  /\ request[r].pc = "serving" /\ request[r].op = "create"
  /\ resident[c] = Absent
  /\ resident' = [resident EXCEPT ![c] = residentSubFromRequest(r)]
  /\ submitted' = [submitted EXCEPT ![c] = request[r].token]
  /\ Ends(r)
  /\ UNCHANGED <<clock, issuers, cache, blank>>

\* Any of the handlers may answer with an error and have done nothing: the identifier or the
\* body is malformed, there is no such row, the database fails.
ServiceFails(r) ==
  /\ request[r].pc = "serving"
  /\ Ends(r)
  /\ UNCHANGED <<clock, issuers, cache, blank, cases>>

\* GetPermit, GetRequest, GetFOIARequest: a resident may not be the one the row names ...
Forbidden(r, c) ==
  LET sub == residentSubFromRequest(r) IN sub # None /\ resident[c] # sub

CaseForbidden(r, c) ==
  /\ request[r].pc = "serving" /\ request[r].op = "get"
  /\ resident[c] # Absent /\ Forbidden(r, c)
  /\ request' = [request EXCEPT ![r] = [@ EXCEPT !.case = c, !.pc = "forbidden"]]
  /\ UNCHANGED <<clock, issuers, cache, blank, cases>>

\* ... and staff is shown every case, a resident those that have his sub.
GetCase(r, c) ==
  /\ request[r].pc = "serving" /\ request[r].op = "get"
  /\ resident[c] # Absent /\ ~Forbidden(r, c)
  /\ request' = [request EXCEPT ![r] = [@ EXCEPT !.case = c, !.pc = "shown"]]
  /\ UNCHANGED <<clock, issuers, cache, blank, cases>>

\* identity's GetMe asks the context; without claims it answers with the user it has made
\* up for development.
GetMe(r) ==
  /\ request[r].pc = "serving" /\ request[r].op = "me"
  /\ IF request[r].claims = None THEN Goes(r, "developer") ELSE Ends(r)
  /\ UNCHANGED <<clock, issuers, cache, blank, cases>>

\* The permits service has no GET for the public route.
NoRoute(r) ==
  /\ request[r].pc = "serving" /\ request[r].op = "status"
  /\ Ends(r)
  /\ UNCHANGED <<clock, issuers, cache, blank, cases>>

RequestStep(r) ==
  \/ \E op \in Operation, t \in Token : Arrive(r, op, t)
  \/ NoBearer(r)
  \/ LookupHit(r) \/ LookupMiss(r) \/ Answer(r) \/ AnswerError(r) \/ FetchFails(r)
  \/ Store(r) \/ FindKey(r) \/ ClaimsFail(r) \/ Identify(r) \/ Proxy(r)
  \/ NotEnabled(r)
  \/ \E c \in Case : CreateCase(r, c) \/ CaseForbidden(r, c) \/ GetCase(r, c)
  \/ ServiceFails(r) \/ GetMe(r) \/ NoRoute(r)

Next ==
  \/ Tick
  \/ \E k \in Key : Publish(k) \/ Withdraw(k)
  \/ \E r \in Request : RequestStep(r)

Spec == Init /\ [][Next]_vars

-----------------------------------------------------------------------------

Progress == {"new", "lookup", "refreshing", "answered", "stored", "verified", "proxied", "serving",
             "unknown", "forbidden", "shown", "developer", "done"}

TypeOK ==
  /\ clock \in Nat
  /\ published \subseteq Key
  /\ since \in [Key -> Int] /\ until \in [Key -> Int]
  /\ cache \in [Issuer -> [keys : SUBSET Key, fetchedAt : Nat]]
  /\ rotations \in Nat
  /\ blank \in [Issuer -> Int]
  /\ request \in [Request ->
       [pc : Progress, op : Operation \cup {"none"}, token : Token \cup {None}, begun : Nat,
        at : Nat, keys : SUBSET Key, error : BOOLEAN, sub : Sub \cup {None}, role : Role,
        claims : Sub \cup {None}, case : Case \cup {None}]]
  /\ resident \in [Case -> Sub \cup {None, Absent}]
  /\ submitted \in [Case -> Token \cup {None}]

\* How long after its withdrawal a key may still be taken: a set was answered Delay before
\* it was stored, and is read less than TTL later, or within the same lookup.
Overlap == Delay + (IF TTL > Delay THEN TTL - 1 ELSE Delay)

\* A token is verified with a key the issuer publishes, or has withdrawn at most Overlap
\* ago, however lookups and refreshes overlap.
WithdrawnKeysExpire ==
  \A r \in Request : request[r].pc = "verified" =>
    LET k == request[r].token.key IN k \in published \/ request[r].at - until[k] <= Overlap

\* A key that has been published since before Delay before a request is not unknown to it, unless
\* an error document was stored during the request: neither a cached set from before the
\* key's publication nor an older answer that is stored late gets it refused.
RefusedForCause ==
  \A r \in Request : request[r].pc = "unknown" =>
    LET k == request[r].token.key
        i == Verifier(r)
    IN \/ k \notin KeysOf(i)
       \/ k \notin published
       \/ since[k] >= request[r].begun - Delay
       \/ blank[i] >= request[r].begun

\* Whoever the residents' issuer vouches for is shown the cases submitted with his own sub
\* by a resident, and no others; staff is shown all.
ResidentsReadTheirOwn ==
  \A r \in Request :
    LET t == request[r].token
        s == submitted[request[r].case]
        own == s.issuer = Resident /\ s.sub = t.sub
    IN /\ request[r].pc = "shown" => t.issuer = Staff \/ own
       /\ request[r].pc = "forbidden" => t.issuer = Resident /\ ~own

\* "Returns the staff user record matching the JWT subject claim."
MeIsTheCaller ==
  \A r \in Request : request[r].pc # "developer"
=============================================================================
