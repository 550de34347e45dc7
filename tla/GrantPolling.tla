---------------------------- MODULE GrantPolling ----------------------------
(***************************************************************************)
(* The two polling grants of src/src/oidc.cpp: device_login (RFC 8628,     *)
(* section 14 of the contract) and ciba_await (section 33).  A person      *)
(* approves or denies elsewhere while the client polls the token endpoint  *)
(* at the server's interval, retries inside a poll, and stops at the       *)
(* deadline of the grant.                                                  *)
(*                                                                         *)
(* A tick is five seconds: the default interval and what one slow_down     *)
(* adds.  Sleeps may overrun, answers take time, and an answer may be lost *)
(* after the server has acted on the request.                              *)
(***************************************************************************)
EXTENDS Integers

CONSTANTS
    Lifetimes,        \* values of expires_in the server may send
    ServerIntervals,  \* values of interval it may send, 0 for none
    Hints,            \* values of Retry-After it may send, 0 for none
    MaxAttempts,      \* kRetryMaxAttempts: sends within one poll
    MaxJitter,        \* bound on the backoff between two of them
    MaxLag            \* bound on an oversleep, on an answer, on display()

ASSUME PollingAssumption ==
    /\ Lifetimes \subseteq Int /\ ServerIntervals \subseteq Int
    /\ Hints \subseteq Nat
    /\ MaxAttempts \in Nat \ {0}
    /\ MaxJitter \in Nat /\ MaxLag \in Nat

VARIABLES
    grant,      \* "device" or "ciba"
    now,        \* the clock, from the arrival of the authorization response
    lifetime,   \* expires_in of that response
    deadline,   \* deadline: the time from which nothing may be sent
    interval,   \* interval: the wait between two polls
    floor,      \* retry_floor_ms: a 429's Retry-After, for the next wait
    attempt,    \* sends so far in this poll
    gpc,        \* where the loop is
    atServer,   \* what has become of the grant at the server
    ending,     \* how the call ended
    asked,      \* history: the interval the server asked for first
    slowdowns,  \* history: slow_down answers so far
    shown,      \* history: when display() and discovery were over
    due,        \* history: the earliest time the loop may send again
    wished,     \* history: the Retry-After of the last answer, as a time
    heed        \* history: that answer's Retry-After is "heeded" or "ignored"

clocks  == <<grant, lifetime, deadline>>
history == <<asked, slowdowns, shown, due, wished, heed>>
pollingVars == <<clocks, now, interval, floor, attempt, gpc, atServer, ending, history>>

DefaultInterval == 1       \* kDeviceDefaultIntervalSeconds, kCiba...
SlowDownIncrement == 1     \* kDeviceSlowDownIncrementSeconds, kCiba...

Larger(a, b) == IF a > b THEN a ELSE b

\* device_authorize, ciba_initiate: a positive interval of the response's.
StartInterval(s) == IF s > 0 THEN s ELSE DefaultInterval

\* What the server has asked for by now.
Owed == asked + slowdowns * SlowDownIncrement

PollingInit ==
    /\ grant \in {"device", "ciba"}
    /\ now = 0 /\ deadline = 0
    /\ lifetime \in Lifetimes
    /\ \E s \in ServerIntervals :
          /\ interval = StartInterval(s)
          /\ asked = IF s > 0 THEN s ELSE DefaultInterval
    /\ floor = 0 /\ attempt = 0
    /\ gpc = "display"
    /\ atServer = "pending" /\ ending = "none"
    /\ slowdowns = 0 /\ shown = 0 /\ due = 0 /\ wished = 0 /\ heed = "heeded"

Stop(how) == gpc' = "done" /\ ending' = how

\* device_login counts expires_in from the return of display() and discovery;
\* ciba_await from received_at.  A negative expires_in is clamped to 0.
Deadline(t) == Larger(lifetime, 0) + IF grant = "device" THEN t ELSE 0

\* display() and discovery run; or the caller gets round to ciba_await.
Arm ==
    /\ gpc = "display"
    /\ \E lag \in 0..MaxLag :
          /\ now' = now + lag
          /\ deadline' = Deadline(now + lag)
          /\ shown' = now + lag
          /\ due' = now + lag + asked
    /\ gpc' = "decide"
    /\ UNCHANGED <<grant, lifetime, interval, floor, attempt, atServer, ending,
                   asked, slowdowns, wished, heed>>

\* retry_floor_ms lengthens one wait and is consumed by it.
Wait == Larger(interval, floor)

\* The next attempt would fall at the deadline or past it.
GiveUp ==
    /\ gpc = "decide"
    /\ now + Wait >= deadline
    /\ floor' = 0
    /\ Stop("expired")
    /\ UNCHANGED <<clocks, now, interval, attempt, atServer, history>>

SleepInterval ==
    /\ gpc = "decide"
    /\ now + Wait < deadline
    /\ \E over \in 0..MaxLag : now' = now + Wait + over
    /\ floor' = 0
    /\ attempt' = 0
    /\ gpc' = "slept"
    /\ UNCHANGED <<clocks, interval, atServer, ending, history>>

\* Mutant: the clock is not read again after the sleep.
SendAnyway ==
    /\ gpc = "slept"
    /\ attempt' = attempt + 1
    /\ gpc' = "wire"
    /\ UNCHANGED <<clocks, now, interval, floor, atServer, ending, history>>

\* After a sleep, between polls or within one, the clock is read again.
Send ==
    /\ gpc = "slept"
    /\ now < deadline
    /\ attempt' = attempt + 1
    /\ gpc' = "wire"
    /\ UNCHANGED <<clocks, now, interval, floor, atServer, ending, history>>

Overslept ==
    /\ gpc = "slept"
    /\ now >= deadline
    /\ Stop("expired")
    /\ UNCHANGED <<clocks, now, interval, floor, attempt, atServer, history>>

-----------------------------------------------------------------------------
\* The person asked decides; the server lets the grant die of age.
Approve ==
    /\ atServer = "pending" /\ gpc # "done"
    /\ atServer' = "approved"
    /\ UNCHANGED <<clocks, now, interval, floor, attempt, gpc, ending, history>>

Deny ==
    /\ atServer = "pending" /\ gpc # "done"
    /\ atServer' = "denied"
    /\ UNCHANGED <<clocks, now, interval, floor, attempt, gpc, ending, history>>

\* An answer reaches the client some time after the request left.
Arrives(t) == gpc = "wire" /\ t \in now..(now + MaxLag)
Answered(t) == Arrives(t) /\ now' = t

\* The loop goes round: nothing before the interval, or the hint if it is heeded
\* and longer.
PollAgain(t, hint, h) ==
    /\ gpc' = "decide"
    /\ due' = t + Larger(asked + slowdowns' * SlowDownIncrement, IF h = "heeded" THEN hint ELSE 0)
    /\ wished' = t + hint /\ heed' = h
    /\ UNCHANGED ending

AnswersPending(t) ==
    /\ Answered(t) /\ atServer = "pending"
    /\ slowdowns' = slowdowns /\ PollAgain(t, 0, "heeded")
    /\ UNCHANGED <<clocks, interval, floor, attempt, atServer, asked, shown>>

\* Mutant: the slower pace is for one round.
SlowDownOnce(t) ==
    /\ Answered(t) /\ atServer \in {"pending", "approved"}
    /\ interval' = StartInterval(asked) + SlowDownIncrement
    /\ slowdowns' = slowdowns + 1 /\ PollAgain(t, 0, "heeded")
    /\ UNCHANGED <<clocks, floor, attempt, atServer, asked, shown>>

\* slow_down: cumulative, never reset.
AnswersSlowDown(t) ==
    /\ Answered(t) /\ atServer \in {"pending", "approved"}
    /\ interval' = interval + SlowDownIncrement
    /\ slowdowns' = slowdowns + 1 /\ PollAgain(t, 0, "heeded")
    /\ UNCHANGED <<clocks, floor, attempt, atServer, asked, shown>>

\* access_denied, invalid_grant and the server's own expired_token end the call.
AnswersTerminal(t) ==
    /\ Answered(t)
    /\ \/ atServer = "denied" /\ Stop("denied") /\ UNCHANGED atServer
       \/ atServer = "spent" /\ Stop("invalid_grant") /\ UNCHANGED atServer
       \/ t >= lifetime /\ Stop("expired") /\ atServer' = "gone"
    /\ UNCHANGED <<clocks, interval, floor, attempt, history>>

AnswersTokens(t) ==
    /\ Answered(t) /\ atServer = "approved"
    /\ atServer' = "spent"
    /\ Stop("tokens")
    /\ UNCHANGED <<clocks, interval, floor, attempt, history>>

\* A 200 without an access token: parse_token_set throws NetworkError, which
\* device_login takes for a failed poll and ciba_poll_once lets through.
AnswersMalformed(t) ==
    /\ Answered(t) /\ atServer = "approved"
    /\ atServer' = "spent"
    /\ \/ /\ grant = "device"
          /\ slowdowns' = slowdowns /\ PollAgain(t, 0, "heeded")
       \/ /\ grant = "ciba"
          /\ Stop("malformed") /\ UNCHANGED <<slowdowns, due, wished, heed>>
    /\ UNCHANGED <<clocks, interval, floor, attempt, asked, shown>>

\* A 3xx, or a 4xx that names no error and is not a 401, 403 or 409: a
\* NetworkError, once more the end of ciba_await and not of device_login.
AnswersOdd(t) ==
    /\ Answered(t)
    /\ \/ /\ grant = "device"
          /\ slowdowns' = slowdowns /\ PollAgain(t, 0, "heeded")
       \/ /\ grant = "ciba"
          /\ Stop("refused") /\ UNCHANGED <<slowdowns, due, wished, heed>>
    /\ UNCHANGED <<clocks, interval, floor, attempt, atServer, asked, shown>>

\* A 429, of any state of the grant and never retried inside the poll: the
\* interval is unchanged.  device_login makes its Retry-After the floor of the
\* next wait; ciba_await, told rate_limit_exceeded, waits the bare interval.
AnswersLimited(t, hint) ==
    /\ Answered(t)
    /\ floor' = IF grant = "device" THEN hint ELSE 0
    /\ slowdowns' = slowdowns /\ PollAgain(t, hint, IF grant = "device" THEN "heeded" ELSE "ignored")
    /\ UNCHANGED <<clocks, interval, attempt, atServer, asked, shown>>

\* The request fails: it never arrived, or was answered 5xx or 408 (to CIBA, a
\* bodiless 429), or it was served and the answer is lost.
FailedAtServer == atServer' = atServer \/ (atServer = "approved" /\ atServer' = "spent")

\* retry_delay: full jitter, with the hint for a floor.
RetryDelay(jitter, hint) == Larger(jitter, hint)

BudgetLeft == attempt < MaxAttempts

\* Within the budget, a failed send is repeated after a delay, unless the delay
\* reaches the deadline: then nothing more is sent.
RetryLater(t, jitter, hint) ==
    /\ Arrives(t) /\ FailedAtServer /\ BudgetLeft
    /\ t + RetryDelay(jitter, hint) < deadline
    /\ \E over \in 0..MaxLag : now' = t + RetryDelay(jitter, hint) + over
    /\ gpc' = "slept"
    /\ due' = t + hint /\ wished' = t + hint /\ heed' = "heeded"
    /\ UNCHANGED <<clocks, interval, floor, attempt, ending, asked, slowdowns,
                   shown>>

RetryTooLate(t, jitter, hint) ==
    /\ Answered(t) /\ FailedAtServer /\ BudgetLeft
    /\ t + RetryDelay(jitter, hint) >= deadline
    /\ Stop("expired")
    /\ due' = t + hint /\ wished' = t + hint /\ heed' = "heeded"
    /\ UNCHANGED <<clocks, interval, floor, attempt, asked, slowdowns, shown>>

\* Mutant: a failure that outlives the budget ends the call.
FailureIsTerminal(t, hint) ==
    /\ Answered(t) /\ FailedAtServer /\ ~BudgetLeft
    /\ Stop("refused")
    /\ UNCHANGED <<clocks, interval, floor, attempt, history>>

\* The budget is spent: the failure is not terminal, the loop goes round, and
\* the Retry-After of the last answer is not read.
BudgetSpent(t, hint) ==
    /\ Answered(t) /\ FailedAtServer /\ ~BudgetLeft
    /\ slowdowns' = slowdowns /\ PollAgain(t, hint, "ignored")
    /\ UNCHANGED <<clocks, interval, floor, attempt, asked, shown>>

Done == gpc = "done" /\ UNCHANGED pollingVars

Answer(t) ==
    \/ AnswersPending(t) \/ AnswersSlowDown(t) \/ AnswersTerminal(t)
    \/ AnswersTokens(t) \/ AnswersMalformed(t) \/ AnswersOdd(t)
    \/ \E hint \in Hints :
          \/ AnswersLimited(t, hint) \/ BudgetSpent(t, hint)
          \/ \E jitter \in 0..MaxJitter :
                RetryLater(t, jitter, hint) \/ RetryTooLate(t, jitter, hint)

Loop ==
    \/ Arm \/ GiveUp \/ SleepInterval \/ Send \/ Overslept
    \/ \E t \in now..(now + MaxLag) : Answer(t)

PollingNext == Loop \/ Approve \/ Deny \/ Done

PollingSpec == PollingInit /\ [][PollingNext]_pollingVars

\* The polling thread runs, its sleeps end and its requests are answered or
\* time out.  Nobody is obliged to approve or deny.
PollingFairSpec == PollingSpec /\ WF_pollingVars(Loop)

-----------------------------------------------------------------------------
PollingTypeOK ==
    /\ grant \in {"device", "ciba"}
    /\ now \in Nat /\ deadline \in Nat /\ lifetime \in Lifetimes
    /\ interval \in Nat \ {0} /\ floor \in Hints \cup {0}
    /\ attempt \in 0..MaxAttempts
    /\ gpc \in {"display", "decide", "slept", "wire", "done"}
    /\ atServer \in {"pending", "approved", "denied", "spent", "gone"}
    /\ ending \in {"none", "tokens", "malformed", "denied", "invalid_grant",
                    "refused", "expired"}
    /\ asked \in Nat \ {0} /\ slowdowns \in Nat
    /\ shown \in Nat /\ due \in Nat /\ wished \in Nat /\ heed \in {"heeded", "ignored"}

\* Contract 14.2 rule 4 and 33.7 rule 4: nothing is sent once expires_in has
\* passed, through any mix of polls, retries, hints and overrun sleeps.  For the
\* device grant the code counts expires_in from the return of display().
NoRequestPastDeadline ==
    gpc = "wire" =>
        now < lifetime + IF grant = "device" THEN shown ELSE 0

\* RFC 8628 3.5 and contract 14.2 rules 1, 2 and 9: a poll comes no sooner than
\* the server's interval plus every slow_down after the last answer.  Nor does
\* one come before the Retry-After of that answer, a retry within a poll
\* included, but for the two answers whose Retry-After the code does not read:
\* CIBA's rate_limit_exceeded and the last failure of a spent retry budget.
PollsSpaced == gpc = "wire" => now >= due /\ (heed = "heeded" => now >= wished)

\* Contract 14.2 rule 6: a grant the server would still honour is given up only
\* when no request fits before the deadline, however many polls failed and
\* whatever waits were asked for on the way.
GrantNotGivenUpEarly ==
    gpc = "done" /\ atServer \in {"pending", "approved"} =>
        \/ ending = "expired" /\ (now >= deadline \/ due + MaxJitter >= deadline)
        \/ ending = "refused" /\ grant = "ciba"

\* Every polling call ends, whatever the server answers and for how long.
FlowEnds == <>(gpc = "done")
=============================================================================
