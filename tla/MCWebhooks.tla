----------------------------- MODULE MCWebhooks -----------------------------
(* Model checking of the webhooks service: one endpoint, an event it wants,  *)
(* an event it does not, and test events.                                    *)
EXTENDS WebhookDelivery, TLC

CONSTANTS p1, created, other, ping

\* All events of permits, those of one kind, and a pattern too short to match any.
Subscriptions == p1 :> {<<"permits", ">">>, <<"*", "closed">>, <<"requests">>}
Subjects == created :> <<"permits", "created">> @@ other :> <<"requests", "created">>

\* Every pattern and subject of up to three tokens, those at whose end a ">" finds nothing
\* left and those with a ">" in the middle included.
SeqsTo(n, S) == UNION {[1..k -> S] : k \in 1..n}
ASSUME PatternsAgree ==
  \A pattern \in SeqsTo(3, {"a", "*", ">"}), subject \in SeqsTo(3, {"a", "b"}) :
    matchPattern(pattern, subject) <=> Means(pattern, subject) \/ Lenient(pattern, subject)

\* Examples of the documentation, and the two cases it does not speak of.
ASSUME PatternsDocumented ==
  /\ Means(<<"a", ">">>, <<"a", "b">>) /\ Means(<<"a", ">">>, <<"a", "b", "b">>)
  /\ Means(<<"a", "*">>, <<"a", "b">>) /\ ~Means(<<"a", "*">>, <<"a", "b", "b">>)
  /\ ~Means(<<"a", ">">>, <<"a">>) /\ matchPattern(<<"a", ">">>, <<"a">>)
  /\ ~Means(<<">", "a">>, <<"b">>) /\ matchPattern(<<">", "a">>, <<"b">>)
=============================================================================
