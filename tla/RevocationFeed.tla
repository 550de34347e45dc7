--------------------------- MODULE RevocationFeed ---------------------------
(***************************************************************************)
(* RevocationFeed (src/src/revocation.cpp): the set of revoked sessions a  *)
(* guard polls, at most every PollInterval.                                *)
(*                                                                         *)
(* A check is stale or not under mtx_, waits for fetch_mtx_ if it is, and  *)
(* reads the set under mtx_.  The server reads its list some time before   *)
(* its answer arrives.                                                     *)
(***************************************************************************)
EXTENDS SteadyClock

CONSTANTS
    Guards,            \* threads calling is_revoked()
    Sids,              \* sessions
    RequestedInterval, \* the poll interval that was configured
    MinPollInterval,   \* kMinRevocationPollInterval
    MaxChecks          \* bound: sessions checked

ASSUME FeedAssumption ==
    /\ RequestedInterval \in Int /\ MinPollInterval \in Nat \ {0}
    /\ "no guard" \notin Guards

VARIABLES
    revokedAt,     \* when the server's feed began to name each session
    entries,       \* entries_: a set in a set, or the empty set when disengaged
    lastAttempt,   \* last_attempt_
    fetcher,       \* the thread holding fetch_mtx_
    fpc,           \* where each check is
    chk,           \* its locals: the session, and the document on its way
    poll,          \* for the properties: when the last poll that brought a
                   \* set began, and whether one has failed since
    checks         \* checks made so far

cachedVars == <<entries, lastAttempt, fetcher, fpc, chk>>
feedVars == <<now, revokedAt, cachedVars, poll, checks>>

Never == -1
NoGuard == "no guard"
NoChk == [sid |-> "", doc |-> {}, at |-> 0]

revoked == {s \in Sids : revokedAt[s] # Never}

\* RevocationFeed::RevocationFeed
PollInterval ==
    IF RequestedInterval < MinPollInterval THEN MinPollInterval ELSE RequestedInterval

FeedInit ==
    /\ now = 0 /\ checks = 0
    /\ revokedAt = [s \in Sids |-> Never] /\ poll = [from |-> Never, ok |-> TRUE] /\ entries = {} /\ lastAttempt = Never
    /\ fetcher = NoGuard
    /\ fpc = [g \in Guards |-> "idle"] /\ chk = [g \in Guards |-> NoChk]

FGoto(g, from, to) == fpc[g] = from /\ fpc' = [fpc EXCEPT ![g] = to]

\* A session ends at the server, whose feed names it from then on.
Revoke ==
    /\ \E s \in Sids \ revoked : revokedAt' = [revokedAt EXCEPT ![s] = now]
    /\ UNCHANGED <<now, cachedVars, poll, checks>>

\* Mutant: one poll is enough.
StaleUntilPolled == lastAttempt = Never

Stale == lastAttempt = Never \/ now - lastAttempt >= PollInterval

\* is_revoked and the staleness check of refresh_if_stale.
CheckSession(g, s) ==
    /\ checks < MaxChecks /\ checks' = checks + 1
    /\ FGoto(g, "idle", IF Stale THEN "queue" ELSE "read")
    /\ chk' = [chk EXCEPT ![g] = [sid |-> s, doc |-> {}, at |-> now]]
    /\ UNCHANGED <<now, revokedAt, entries, lastAttempt, fetcher, poll>>

\* refresh(): fetch_mtx_, then the request.
Fetch(g) ==
    /\ FGoto(g, "queue", "asking")
    /\ fetcher = NoGuard /\ fetcher' = g
    /\ chk' = [chk EXCEPT ![g].at = now]
    /\ UNCHANGED <<revokedAt, entries, lastAttempt, poll>>

FeedAnswers(g) ==
    /\ FGoto(g, "asking", "answered")
    /\ chk' = [chk EXCEPT ![g].doc = revoked]
    /\ UNCHANGED <<revokedAt, entries, lastAttempt, fetcher, poll>>

EndAttempt(g, from) ==
    /\ FGoto(g, from, "read")
    /\ lastAttempt' = now /\ fetcher' = NoGuard
    /\ chk' = [chk EXCEPT ![g].doc = {}, ![g].at = now]
    /\ UNCHANGED revokedAt

FeedArrives(g) ==
    /\ EndAttempt(g, "answered")
    /\ entries' = {chk[g].doc}
    /\ poll' = [from |-> IF chk[g].at > poll.from THEN chk[g].at ELSE poll.from, ok |-> TRUE]

\* Mutant: a failed poll forgets what the last good one said.
FeedFailsForgetting(g) ==
    /\ \E from \in {"asking", "answered"} : EndAttempt(g, from)
    /\ entries' = {} /\ poll' = [poll EXCEPT !.ok = FALSE]

\* Unreachable, a foreign digest, no list, or a list beyond the cap.
FeedFails(g) ==
    /\ \E from \in {"asking", "answered"} : EndAttempt(g, from)
    /\ poll' = [poll EXCEPT !.ok = FALSE]
    /\ UNCHANGED entries

\* The second half of is_revoked.
Named(s) == \E set \in entries : s \in set

ReadSession(g) ==
    /\ FGoto(g, "read", IF Named(chk[g].sid) THEN "revoked" ELSE "live")
    /\ UNCHANGED <<revokedAt, entries, lastAttempt, fetcher, chk, poll>>

Answer(g) ==
    /\ fpc[g] \in {"revoked", "live"}
    /\ fpc' = [fpc EXCEPT ![g] = "idle"]
    /\ chk' = [chk EXCEPT ![g] = NoChk]
    /\ UNCHANGED <<revokedAt, entries, lastAttempt, fetcher, poll>>

FeedSection(g) ==
    \/ Fetch(g) \/ FeedAnswers(g) \/ FeedArrives(g) \/ FeedFails(g)
    \/ ReadSession(g) \/ Answer(g)

FeedStep(g) == FeedSection(g) /\ UNCHANGED <<now, checks>>

FeedTime == Tick /\ UNCHANGED <<revokedAt, cachedVars, poll, checks>>

FeedDone ==
    /\ checks = MaxChecks /\ revoked = Sids /\ now = MaxNow
    /\ \A g \in Guards : fpc[g] = "idle"
    /\ UNCHANGED feedVars

FeedNext ==
    \/ FeedDone \/ FeedTime \/ Revoke
    \/ \E g \in Guards : FeedStep(g) \/ \E s \in Sids : CheckSession(g, s)

FeedSpec == FeedInit /\ [][FeedNext]_feedVars

-----------------------------------------------------------------------------
\* src/src/revocation.cpp:100-101: a session the guard knows to be revoked stays so while
\* the server names it, through failed polls and through polls that overlap.
KnownRevocationHolds ==
    [][\A s \in revoked : Named(s) => Named(s)']_feedVars

\* src/src/revocation.cpp:91-93 as it stands: guards that find the cache stale together
\* cause one fetch, so a fetch starts only on a cache that is still stale.
BurstFetchesOnce ==
    [][\A g \in Guards : fpc[g] = "queue" /\ fpc'[g] = "asking" => Stale]_feedVars

\* §10.4: a revocation is heard within a poll interval and the time of a poll.
\* A check that finds a revoked session live read a set whose last poll ended
\* less than an interval before the check decided to rely on it, and the
\* session was revoked after the newest poll began, unless a poll has failed.
RevocationHeard ==
    [][\A g \in Guards :
          fpc[g] = "read" /\ fpc'[g] = "live" =>
              /\ chk[g].at - lastAttempt < PollInterval
              /\ chk[g].sid \in revoked =>
                    ~poll.ok \/ revokedAt[chk[g].sid] >= poll.from]_feedVars
=============================================================================
