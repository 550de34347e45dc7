---------------------------- MODULE OidcRefresh ----------------------------
(***************************************************************************)
(* Client::oidc_refresh (src/src/oidc.cpp): concurrent callers holding one *)
(* refresh token share one grant.  A flight is linked under the token's    *)
(* digest while it is in the air; its leader unlinks it and publishes the  *)
(* outcome in one section of oidc_refresh_mtx, then wakes the followers.   *)
(*                                                                         *)
(* The server rotates: a grant spends its token, and a token spent already *)
(* is refused.                                                             *)
(***************************************************************************)
EXTENDS Naturals

CONSTANTS
    Askers,
    Tokens,     \* refresh tokens
    Scopes,     \* what a caller asks the grant to be narrowed to
    MaxAsks    \* bound: calls made

VARIABLES
    flights,    \* oidc_refresh_flights: the flight of each token, or NoFlight
    scopeAsked, \* the scope the leader of each flight asked for
    flightOutcome, \* each flight's published outcome, "none" before
    opc,        \* where each caller is
    ride,       \* its token, scope and flight, and whether it came too late
    spent,      \* the tokens the server has rotated
    asks       \* calls so far

oidcVars == <<flights, scopeAsked, flightOutcome, opc, ride, spent, asks>>

NoFlight == 0
NotCalling == [token |-> "none", scope |-> "none", flight |-> NoFlight, late |-> FALSE]

OidcInit ==
    /\ flights = [k \in Tokens |-> NoFlight]
    /\ scopeAsked = [f \in 1..MaxAsks |-> "none"] /\ flightOutcome = [f \in 1..MaxAsks |-> "none"]
    /\ opc = [c \in Askers |-> "idle"] /\ ride = [c \in Askers |-> NotCalling]
    /\ spent = {} /\ asks = 0

Turn(c, from, to) == opc[c] = from /\ opc' = [opc EXCEPT ![c] = to]

\* Any token, also one an earlier grant spent.
RefreshCall(c) ==
    /\ Turn(c, "idle", "calling")
    /\ asks < MaxAsks /\ asks' = asks + 1
    /\ \E k \in Tokens, s \in Scopes :
          ride' = [ride EXCEPT ![c] = [token |-> k, scope |-> s, flight |-> asks',
                                       late |-> FALSE]]
    /\ UNCHANGED <<flights, scopeAsked, flightOutcome, spent>>

\* Mutant: a caller with another scope does not share the flight.
SharedForScope(k, s) == flights[k] # NoFlight /\ scopeAsked[flights[k]] = s

\* Whatever scope or tenant the leader asked for.
Shared(k, s) == flights[k] # NoFlight

Follow(c) ==
    /\ Turn(c, "calling", "waiting")
    /\ Shared(ride[c].token, ride[c].scope)
    /\ ride' = [ride EXCEPT ![c].flight = flights[ride[c].token]]
    /\ UNCHANGED <<flights, scopeAsked, flightOutcome, spent, asks>>

Lead(c) ==
    /\ Turn(c, "calling", "granting")
    /\ ~Shared(ride[c].token, ride[c].scope)
    /\ flights' = [flights EXCEPT ![ride[c].token] = ride[c].flight]
    /\ scopeAsked' = [scopeAsked EXCEPT ![ride[c].flight] = ride[c].scope]
    /\ ride' = [ride EXCEPT ![c].late = ride[c].token \in spent]
    /\ UNCHANGED <<flightOutcome, spent, asks>>

\* token_grant, sent once: the server answers a fresh token.
Granted(c) ==
    /\ Turn(c, "granting", "granted")
    /\ ride[c].token \notin spent
    /\ spent' = spent \cup {ride[c].token}
    /\ UNCHANGED <<flights, scopeAsked, flightOutcome, ride, asks>>

\* Discovery, the exchange or the checks on its answer fail; the server may have
\* spent the token all the same, or have found it spent.
GrantFails(c) ==
    /\ Turn(c, "granting", "failed")
    /\ spent' \in {spent, spent \cup {ride[c].token}}
    /\ UNCHANGED <<flights, scopeAsked, flightOutcome, ride, asks>>

\* Mutant: only a success is published.
PublishedOnSuccess(c, result) ==
    IF result = "ok" THEN [flightOutcome EXCEPT ![ride[c].flight] = result] ELSE flightOutcome

Published(c, result) == [flightOutcome EXCEPT ![ride[c].flight] = result]

Settle(c, from, result) ==
    /\ Turn(c, from, "idle")
    /\ flights' = [flights EXCEPT ![ride[c].token] = NoFlight]
    /\ flightOutcome' = Published(c, result)
    /\ ride' = [ride EXCEPT ![c] = NotCalling]
    /\ UNCHANGED <<scopeAsked, spent, asks>>

\* The leader's outcome, an error as well as a token set.
Heard(c) ==
    /\ Turn(c, "waiting", "idle")
    /\ flightOutcome[ride[c].flight] # "none"
    /\ ride' = [ride EXCEPT ![c] = NotCalling]
    /\ UNCHANGED <<flights, scopeAsked, flightOutcome, spent, asks>>

OidcStep(c) ==
    \/ Follow(c) \/ Lead(c) \/ Granted(c) \/ GrantFails(c)
    \/ Settle(c, "granted", "ok") \/ Settle(c, "failed", "error") \/ Heard(c)

OidcNext == \E c \in Askers : RefreshCall(c) \/ OidcStep(c)

OidcSpec == OidcInit /\ [][OidcNext]_oidcVars


-----------------------------------------------------------------------------
\* §9 rule 2: a spent token is presented only by a caller that took the lock
\* after the server had spent it and the flight had ended: of callers racing on
\* one token, none is the loser who sees invalid_grant.
OnlyLateCallersPresentSpent ==
    \A c \in Askers :
        opc[c] = "granting" /\ ride[c].token \in spent => ride[c].late

\* Every caller hears an outcome, a failed grant's as well.
EveryRefreshReturns == \A c \in Askers : opc[c] # "idle" ~> opc[c] = "idle"
=============================================================================
