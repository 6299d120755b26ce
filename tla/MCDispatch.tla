----------------------------- MODULE MCDispatch -----------------------------
(* Model values and bounds for the runs of JobDispatch. *)
EXTENDS JobDispatch, TLC

CONSTANTS s1, s2, m1, m2, m3, m4, a

Services1 == {s1}
Services2 == {s1, s2}
Msgs2 == {m1, m2}
Msgs4 == {m1, m2, m3, m4}

\* All publications are of one job (retries, or a user asking again) ...
SameJob == [m \in Msgs |-> a]
\* ... or of different ones.
Jobs4 == {m1, m2, m3, m4}
Distinct == [m \in Msgs |-> m]
SymMsgs == Permutations(Msgs)

\* Bounds on the publishers and on the network, neither of which is fair: of
\* messages that are alike one order of publication stands for all, and at
\* most one is missed by a service, published while it is not subscribed or
\* lost with its connection.
Sent(m) == \E s \in Services : stage[s][m] # "unsent"
SentInOrder == /\ Sent(m3) => Sent(m2)
               /\ Sent(m2) => Sent(m4)
               /\ Sent(m4) => Sent(m1)
MissedOnce == \A s \in Services : Cardinality(At(s, {"missed"})) <= 1

=============================================================================
