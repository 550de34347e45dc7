------------------------------ MODULE MCShared ------------------------------
(* What the threads of a process share behind a mutex: the transport's       *)
(* handles, the issuer's keys and its revoked sessions, checked side by      *)
(* side.  Each behaviour exercises the one MCInit picks.                     *)
EXTENDS HandlePool, JwksCache, RevocationFeed

VARIABLE part

mcVars == <<part, vars, jwksVars, feedVars>>

\* Three requests: a read of the session, a WebAuthn setup exchange
\* (no_stored_cookies) and an /oauth2/ write that nobody flagged.
Get == NoRequest
Setup == [NoRequest EXCEPT !.write = TRUE, !.no_stored_cookies = TRUE]
OAuth2 == [NoRequest EXCEPT !.write = TRUE, !.oauth2 = TRUE]

MCRequests == {Get, Setup, OAuth2}

JwksRests == UNCHANGED <<issuerVars, cacheVars, holder, vpc, ver, bounds>>
FeedRests == UNCHANGED <<revokedAt, cachedVars, poll, checks>>

PoolTurn(A) == part = "pool" /\ A /\ UNCHANGED <<part, now>> /\ JwksRests /\ FeedRests
JwksTurn(A) == part = "keys" /\ A /\ UNCHANGED <<part, vars>> /\ FeedRests
FeedTurn(A) == part = "feed" /\ A /\ UNCHANGED <<part, vars>> /\ JwksRests

\* The keys are interchangeable: one stands for whichever is published first.
MCInit ==
    /\ part \in {"pool", "keys", "feed"}
    /\ Init /\ JwksInit /\ FeedInit
    /\ published = {CHOOSE k \in Kids : TRUE}

MCNext == PoolTurn(Next) \/ JwksTurn(JwksNext) \/ FeedTurn(FeedNext)

\* A performing thread runs, and the transport's timeout ends its request.
Fairness == \A t \in Workers : WF_mcVars(PoolTurn(Step(t)))

MCSpec == MCInit /\ [][MCNext]_mcVars

MCFairSpec == MCSpec /\ Fairness
=============================================================================
