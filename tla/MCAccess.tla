------------------------------ MODULE MCAccess ------------------------------
EXTENDS Access, TLC

CONSTANTS r1, s1, ann, bob

MCOwner == r1 :> Resident @@ s1 :> Staff

\* The staff's key is there from the start; the residents' may be, or appear later.
MCFirstKeys == {{r1, s1}, {s1}}

\* Two residents, one of them with a role of the issuer's own, and a clerk with a sub that a
\* resident has too.
MCToken == {[issuer |-> Resident, key |-> r1, sub |-> ann, role |-> "clerk"],
            [issuer |-> Resident, key |-> r1, sub |-> bob, role |-> "none"],
            [issuer |-> Staff, key |-> s1, sub |-> ann, role |-> "clerk"]}

\* Nothing tells two requests apart.
Symmetry == Permutations(Request)
=============================================================================
