----------------------------- MODULE MCFlights -----------------------------
(* What a caller waits for together with others or again and again: the      *)
(* session's refresh flight, the OIDC refresh flights and the polling        *)
(* grants, checked side by side.  Each behaviour exercises the one MCInit    *)
(* picks.                                                                    *)
EXTENDS RefreshGuard, OidcRefresh, GrantPolling

CONSTANTS c1, c2, c3, a1, a2, a3

MCCallers == {c1, c2, c3}
MCAskers == {a1, a2, a3}

VARIABLE part

mcVars == <<part, vars, oidcVars, pollingVars>>

\* A lifetime that is negative, one too short for a second poll, one with room
\* for several; an interval the server left out or made nonsense of, the default
\* and a slow one.
MCLifetimes == {-1, 2, 9}
MCServerIntervals == {-1, 0, 1, 2}

RefreshTurn(A) == part = "refresh" /\ A /\ UNCHANGED <<part, oidcVars, pollingVars>>
OidcTurn(A) == part = "oidc" /\ A /\ UNCHANGED <<part, vars, pollingVars>>
PollingTurn(A) == part = "polling" /\ A /\ UNCHANGED <<part, vars, oidcVars>>

MCInit ==
    /\ part \in {"refresh", "oidc", "polling"}
    /\ Init /\ OidcInit /\ PollingInit
    /\ part # "polling" => grant = "ciba" /\ lifetime = 2 /\ interval = 2

\* Callers are interchangeable before their first call, and askers whenever they
\* are idle: one order of them stands for all.
Fresh(c) == pc[c] = Idle /\ mine[c] = 0
CallersInOrder ==
    /\ Fresh(c1) => pc'[c2] = Idle
    /\ Fresh(c2) => pc'[c3] = Idle

AskersInOrder ==
    /\ opc[a1] = "idle" /\ opc[a2] = "idle" => opc'[a2] = "idle"
    /\ "idle" \in {opc[a1], opc[a2]} /\ opc[a3] = "idle" => opc'[a3] = "idle"

MCNext ==
    \/ RefreshTurn(Next) /\ CallersInOrder
    \/ OidcTurn(OidcNext) /\ AskersInOrder
    \/ PollingTurn(PollingNext)

\* A refreshing thread runs and so does a polling one; sleeps end, and the
\* transport's timeout ends an exchange.  Nobody is obliged to approve or deny.
Fairness ==
    /\ \A c \in Callers : WF_mcVars(RefreshTurn(Step(c)))
    /\ \A c \in Askers : WF_mcVars(OidcTurn(OidcStep(c)))
    /\ WF_mcVars(PollingTurn(Loop))

MCSpec == MCInit /\ [][MCNext]_mcVars

MCFairSpec == MCSpec /\ Fairness

\* A refresh hears an outcome and a polling call ends, whatever the server
\* answers and for how long.
EveryGrantCallEnds == EveryRefreshReturns /\ (part = "polling" => FlowEnds)
=============================================================================
