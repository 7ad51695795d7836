-------------------------- MODULE DeliveryPromise ---------------------------
(***************************************************************************)
(* What the webhooks service promises the server behind an endpoint: of an *)
(* event it wants it sees a bounded number of attempts, one of which at    *)
(* most it accepts; with that one, or the last, the delivery is over for   *)
(* good.  Consumer, goroutines and workflows do not show, nor how often    *)
(* each of them has seen the event.                                        *)
(***************************************************************************)
EXTENDS Naturals

CONSTANTS Pair,      (* an endpoint and an event: a delivery          *)
          Wanted,    (* those the endpoint's owner asked for          *)
          Attempts   (* attempts before a delivery is given up        *)

VARIABLES attempts,  (* attempts made at each delivery                                *)
          received,  (* those that reached the server, whatever became of the answer  *)
          outcome    (* of each delivery: "open", "delivered" or "given_up"           *)

promise == <<attempts, received, outcome>>

Init ==
  /\ attempts = [x \in Pair |-> 0]
  /\ received = [x \in Pair |-> 0]
  /\ outcome = [x \in Pair |-> "open"]

Attempt(x) ==
  /\ attempts'[x] = attempts[x] + 1
  /\ attempts' = [attempts EXCEPT ![x] = attempts'[x]]
  /\ outcome[x] = "open" /\ attempts[x] < Attempts
  /\ x \in Wanted

\* The server gets the request and accepts it.
Accepted(x) ==
  /\ Attempt(x)
  /\ received' = [received EXCEPT ![x] = @ + 1]
  /\ outcome' = [outcome EXCEPT ![x] = "delivered"]

\* It gets the request or not, and no acceptance comes back.
Refused(x) ==
  /\ Attempt(x)
  /\ received' \in {received, [received EXCEPT ![x] = @ + 1]}
  /\ outcome' = IF attempts'[x] = Attempts THEN [outcome EXCEPT ![x] = "given_up"] ELSE outcome

Next == \E x \in Pair : Accepted(x) \/ Refused(x)

Spec == Init /\ [][Next]_promise
=============================================================================
