-------------------------- MODULE MCReasoningReplay --------------------------
\* Three requests of two conversations or of none, over both protocols,
\* streamed or not; a table that is unlimited or holds one session.
EXTENDS ReasoningReplay, TLC
CONSTANTS r1, r2, r3, k1, k2

MCRequests == {r1, r2, r3}
MCKeys == {k1, k2}
MCSessions == 1 .. 9

Turn(k, p, s, a) == [key |-> k, protocol |-> p, stream |-> s, after |-> a]

\* r1 is a first turn of any kind, r2 a stream of the same conversation or of
\* another, r3 the turn that the client of r1 sends once it is answered, in the other
\* mode than r1.
MCPlans ==
    { r1 :> a @@ r2 :> b @@ r3 :> Turn(k1, "chat", ~a.stream, {r1}) :
        a \in { Turn(k1, p, TRUE, {}) : p \in Protocols } \cup { Turn(k1, "chat", FALSE, {}) },
        b \in { Turn(k, p, TRUE, {}) : k \in MCKeys, p \in Protocols } }
    \cup
    { r1 :> a @@ r2 :> Turn(k1, q, TRUE, {}) @@ r3 :> Turn(NoKey, "chat", FALSE, {r1}) :
        a \in { Turn(NoKey, p, TRUE, {}) : p \in Protocols } \cup { Turn(NoKey, "chat", FALSE, {}) },
        q \in Protocols }
=============================================================================
