---------------------------- MODULE MCConfigStore ----------------------------
\* Two requests to the management API, two providers of which one is in the
\* configuration file, one model, one route, and three changes in all.
EXTENDS ConfigStore, TLC
CONSTANTS a1, a2, p1, p2, m1, r1, d1

MCAdmins == {a1, a2}
MCYAML == [provider |-> p1 :> d1, model |-> m1 :> TRUE,
           offer |-> <<p1, m1>> :> TRUE, route |-> r1 :> p1]
MCImports == { <<Put("provider", p2, d1), Put("offer", <<p2, m1>>, TRUE), Put("model", m1, TRUE)>> }
Symmetry == Permutations(MCAdmins)
=============================================================================
