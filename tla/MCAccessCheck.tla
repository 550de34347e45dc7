--------------------------- MODULE MCAccessCheck ---------------------------
(* Model values for AccessCheck: two checkers racing one credential change. *)
EXTENDS AccessCheck

CONSTANTS k1, k2, q1, q2, alice, bob, tenantA

MCCheckers == {k1, k2}
MCQuestions == {q1, q2}
MCPrincipals == {alice, bob}
MCTenants == {tenantA}

\* The principals, the checkers and the questions are interchangeable: one of
\* each stands for whichever comes first.
MCInit == Init /\ jar = alice

FirstAsked == checks = 0 /\ checks' = 1 => op'[k1].key # <<>> /\ op'[k1].key[1] = q1

MCNext == Next /\ FirstAsked

MCSpec == MCInit /\ [][MCNext]_vars

MCFairSpec == MCSpec /\ \A c \in Checkers : WF_vars(Step(c))
=============================================================================
