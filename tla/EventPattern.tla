---------------------------- MODULE EventPattern ----------------------------
(***************************************************************************)
(* The event patterns of the webhooks service: a subject is the sequence   *)
(* of its tokens, and a pattern such a sequence in which "*" stands for    *)
(* one token and ">" for all that remain.                                  *)
(***************************************************************************)
EXTENDS Naturals, Sequences

(* Definitions named ..._Mutant stand for a plausible bug in the definition    *)
(* that follows them; no behaviour of the specification uses them.             *)

\* The loop over the pattern's tokens: the first ">" decides, and until then each token
\* needs one of the subject.  Without a ">" the lengths must agree.
matchPattern(pattern, subject) ==
  LET tails == {i \in DOMAIN pattern : pattern[i] = ">"}
      Matches(i) == i \in DOMAIN subject /\ pattern[i] \in {"*", subject[i]}
  IN  /\ \A i \in DOMAIN pattern : (\A t \in tails : i < t) => Matches(i)
      /\ tails # {} \/ Len(pattern) = Len(subject)

\* Every pattern has to match.
matchesAny_Mutant(patterns, subject) == \A p \in patterns : matchPattern(p, subject)

matchesAny(patterns, subject) == \E p \in patterns : matchPattern(p, subject)
=============================================================================
