-------------------------- MODULE GrantPollingProofs --------------------------
(***************************************************************************)
(* The pace and the deadline of the polling grants, for every lifetime,    *)
(* interval, hint, retry budget and lag.                                   *)
(***************************************************************************)
EXTENDS GrantPolling, TLAPS

\* What the loop's own variables say of the grant: the interval is the server's
\* plus its slow_downs, a floor is only ever pending at the top of the loop, the
\* deadline is the one of the contract, the next request is due exactly when the
\* next wait ends, and that is no sooner than the Retry-After the loop has read.
Schedule ==
    /\ interval = asked + slowdowns
    /\ gpc = "display" => slowdowns = 0 /\ wished = 0
    /\ gpc \in {"display", "slept", "wire"} => floor = 0
    /\ gpc = "slept" => attempt < MaxAttempts
    /\ gpc # "display" =>
          /\ deadline = Deadline(shown)
          /\ now >= shown
    /\ gpc = "decide" => due = now + Wait
    /\ gpc \in {"slept", "wire"} => now >= due
    /\ gpc = "wire" => now < deadline
    /\ heed = "heeded" => wished <= due

IInv == PollingTypeOK /\ Schedule /\ GrantNotGivenUpEarly

\* Sums and maxima of times are times.
LEMMA Sums ==
    ASSUME NEW a \in Nat, NEW b \in Nat
    PROVE  /\ a + b \in Nat
           /\ a > 0 => a + b \in Nat \ {0}
           /\ a + b * SlowDownIncrement = a + b
           /\ Larger(a, b) \in Nat
           /\ Larger(a, 0) = a
  BY DEF Larger, SlowDownIncrement

LEMMA InitIInv == PollingInit => IInv
  <1> SUFFICES ASSUME PollingInit PROVE IInv
    OBVIOUS
  <1>1. PICK s \in ServerIntervals :
            /\ interval = StartInterval(s)
            /\ asked = IF s > 0 THEN s ELSE DefaultInterval
    BY DEF PollingInit
  <1>2. s \in Int /\ lifetime \in Int
    BY <1>1, PollingAssumption DEF PollingInit
  <1>3. interval \in Nat \ {0} /\ asked = interval
    BY <1>1, <1>2 DEF StartInterval, DefaultInterval
  <1> QED
    BY <1>3, PollingAssumption
    DEF PollingInit, IInv, PollingTypeOK, Schedule, GrantNotGivenUpEarly

\* The moment an answer arrives is a moment of the clock.
LEMMA ArrivalTime ==
    ASSUME PollingTypeOK, NEW t \in now..(now + MaxLag)
    PROVE  t \in Nat /\ t >= now
  BY PollingAssumption DEF PollingTypeOK

-----------------------------------------------------------------------------
LEMMA ArmStep == IInv /\ Arm => IInv'
  <1> SUFFICES ASSUME IInv, Arm PROVE IInv'
    OBVIOUS
  <1>1. PICK lag \in 0..MaxLag :
            /\ now' = now + lag
            /\ deadline' = Deadline(now + lag)
            /\ shown' = now + lag
            /\ due' = now + lag + asked
    BY DEF Arm
  <1>2. lag \in Nat /\ lifetime \in Int /\ now + lag \in Nat
    BY PollingAssumption DEF IInv, PollingTypeOK
  <1>3. Deadline(now + lag) \in Nat
    BY <1>2 DEF IInv, PollingTypeOK, Deadline, Larger
  <1>4. PollingTypeOK'
    <2>1. now' \in Nat /\ shown' \in Nat
      BY <1>1, <1>2
    <2>2. due' \in Nat
      BY <1>1, <1>2, Sums DEF IInv, PollingTypeOK
    <2>3. deadline' \in Nat
      BY <1>1, <1>3
    <2> QED
      BY <2>1, <2>2, <2>3 DEF Arm, IInv, PollingTypeOK
  <1>5. Deadline(now + lag) = Deadline(shown)'
    BY <1>1 DEF Arm, Deadline, Larger
  <1>6. Schedule'
    BY <1>1, <1>2, <1>5 DEF Arm, IInv, PollingTypeOK, Schedule, Wait, Larger
  <1>7. GrantNotGivenUpEarly'
    BY DEF Arm, GrantNotGivenUpEarly
  <1> QED
    BY <1>4, <1>6, <1>7 DEF IInv

LEMMA WaitStep == IInv /\ (GiveUp \/ SleepInterval) => IInv'
  <1> USE PollingAssumption
  <1> SUFFICES ASSUME IInv, GiveUp \/ SleepInterval PROVE IInv'
    OBVIOUS
  <1>0. Wait \in Nat /\ lifetime \in Int /\ due = now + Wait
    BY DEF GiveUp, SleepInterval, IInv, PollingTypeOK, Schedule, Wait, Larger
  <1>1. CASE GiveUp
    <2>1. PollingTypeOK' /\ Schedule'
      BY <1>1 DEF GiveUp, Stop, IInv, PollingTypeOK, Schedule, Deadline, Larger,
                  clocks, history
    <2>2. GrantNotGivenUpEarly'
      BY <1>0, <1>1 DEF GiveUp, Stop, IInv, PollingTypeOK, GrantNotGivenUpEarly,
                        clocks, history
    <2> QED BY <2>1, <2>2 DEF IInv
  <1>2. CASE SleepInterval
    <2>1. PICK over \in 0..MaxLag : now' = now + Wait + over
      BY <1>2 DEF SleepInterval
    <2>2. now' \in Nat /\ now' >= due /\ now' >= now
      BY <1>0, <2>1 DEF IInv, PollingTypeOK
    <2>3. PollingTypeOK'
      BY <1>2, <2>2 DEF SleepInterval, IInv, PollingTypeOK, clocks, history
    <2>4. Schedule'
      BY <1>2, <2>2 DEF SleepInterval, IInv, PollingTypeOK, Schedule, Deadline, Larger,
                        clocks, history
    <2>5. GrantNotGivenUpEarly'
      BY <1>2 DEF SleepInterval, GrantNotGivenUpEarly
    <2> QED BY <2>3, <2>4, <2>5 DEF IInv
  <1> QED BY <1>1, <1>2

LEMMA SendStep == IInv /\ (Send \/ Overslept) => IInv'
  <1> SUFFICES ASSUME IInv, Send \/ Overslept PROVE IInv'
    OBVIOUS
  <1>1. PollingTypeOK'
    BY PollingAssumption
    DEF Send, Overslept, Stop, IInv, PollingTypeOK, Schedule, clocks, history
  <1>2. Schedule'
    BY DEF Send, Overslept, Stop, IInv, PollingTypeOK, Schedule, Deadline, Larger,
           clocks, history
  <1>3. GrantNotGivenUpEarly'
    BY DEF Send, Overslept, Stop, GrantNotGivenUpEarly, clocks, history
  <1> QED
    BY <1>1, <1>2, <1>3 DEF IInv

LEMMA DecisionStep == IInv /\ (Approve \/ Deny) => IInv'
  <1> SUFFICES ASSUME IInv, Approve \/ Deny PROVE IInv'
    OBVIOUS
  <1>1. PollingTypeOK'
    BY DEF Approve, Deny, IInv, PollingTypeOK, clocks, history
  <1>2. Schedule'
    BY DEF Approve, Deny, IInv, Schedule, Wait, Deadline, clocks, history
  <1>3. GrantNotGivenUpEarly'
    BY DEF Approve, Deny, GrantNotGivenUpEarly
  <1> QED
    BY <1>1, <1>2, <1>3 DEF IInv

-----------------------------------------------------------------------------
\* Round the loop: the wait from here ends when the next request is due.
LEMMA PollAgainStep ==
    ASSUME IInv, NEW t \in Nat, NEW hint \in Nat,
           gpc = "wire", t >= now, now' = t,
           NEW h \in {"heeded", "ignored"}, PollAgain(t, hint, h), hint \in Hints \cup {0},
           slowdowns' \in Nat, asked' = asked, shown' = shown,
           interval' = asked + slowdowns', floor' = IF h = "heeded" THEN hint ELSE 0,
           grant' = grant, lifetime' = lifetime, deadline' = deadline,
           attempt' = attempt,
           atServer' \in {"pending", "approved", "denied", "spent", "gone"}
    PROVE  IInv'
  <1>1. asked \in Nat /\ asked > 0
    BY DEF IInv, PollingTypeOK
  <1>2. interval' \in Nat \ {0}
    BY <1>1, Sums
  <1> DEFINE floored == IF h = "heeded" THEN hint ELSE 0
  <1>3. due' = t + Larger(interval', floored) /\ due' \in Nat
    <2>1. asked + slowdowns' * SlowDownIncrement = interval'
      BY <1>1, Sums
    <2>2. due' = t + Larger(interval', floored)
      BY <2>1 DEF PollAgain
    <2>3. floored \in Nat
      OBVIOUS
    <2> HIDE DEF floored
    <2> QED
      BY <1>2, <2>2, <2>3, Sums
  <1>4. PollingTypeOK'
    <2>1. wished' \in Nat /\ heed' \in {"heeded", "ignored"} /\ floor' \in Hints \cup {0}
      BY DEF PollAgain
    <2> QED
      BY <1>2, <1>3, <2>1 DEF PollAgain, IInv, PollingTypeOK
  <1>5. Schedule'
    <2>1. Deadline(shown)' = Deadline(shown)
      BY DEF Deadline
    <2>2. deadline' = Deadline(shown)' /\ now' >= shown'
      BY <2>1 DEF IInv, PollingTypeOK, Schedule
    <2>3. due' = now' + Wait'
      BY <1>3 DEF Wait
    <2>4. heed' = "heeded" => wished' <= due'
      BY <1>2, <1>3 DEF PollAgain, Larger
    <2> QED
      BY <2>2, <2>3, <2>4 DEF PollAgain, Schedule
  <1>6. GrantNotGivenUpEarly'
    BY DEF PollAgain, GrantNotGivenUpEarly
  <1> QED
    BY <1>4, <1>5, <1>6 DEF IInv

\* The call ends on an answer that settles it, or that only ciba_await stops at.
LEMMA StopStep ==
    ASSUME IInv, NEW t \in now..(now + MaxLag), NEW how,
           Answered(t), Stop(how),
           UNCHANGED <<clocks, interval, floor, attempt, history>>,
           atServer' \in {"pending", "approved", "denied", "spent", "gone"},
           how \in {"tokens", "malformed", "denied", "invalid_grant", "refused",
                    "expired"},
           \/ atServer' \in {"denied", "spent", "gone"}
           \/ how = "refused" /\ grant = "ciba"
    PROVE  IInv'
  <1>1. t \in Nat /\ t >= now /\ now' = t
    BY ArrivalTime DEF IInv, Answered
  <1>2. PollingTypeOK'
    BY <1>1 DEF Stop, IInv, PollingTypeOK, clocks, history
  <1>3. Schedule'
    BY <1>1 DEF Stop, Answered, Arrives, IInv, PollingTypeOK, Schedule, Deadline, Larger,
                clocks, history
  <1>4. GrantNotGivenUpEarly'
    BY DEF Stop, GrantNotGivenUpEarly, clocks
  <1> QED
    BY <1>2, <1>3, <1>4 DEF IInv

-----------------------------------------------------------------------------
\* Answers that send the loop round again.
LEMMA RoundStep ==
    ASSUME IInv, NEW t \in now..(now + MaxLag),
           \/ AnswersPending(t) \/ AnswersSlowDown(t)
           \/ AnswersMalformed(t) /\ grant = "device"
           \/ AnswersOdd(t) /\ grant = "device"
    PROVE  IInv'
  <1>1. t \in Nat /\ t >= now
    BY ArrivalTime DEF IInv
  <1>2. /\ interval = asked + slowdowns /\ slowdowns \in Nat
        /\ asked \in Nat /\ interval \in Nat
    BY DEF IInv, PollingTypeOK, Schedule
  <1>3. /\ gpc = "wire" /\ now' = t /\ PollAgain(t, 0, "heeded")
        /\ asked' = asked /\ shown' = shown /\ floor' = floor
        /\ grant' = grant /\ lifetime' = lifetime /\ deadline' = deadline
        /\ attempt' = attempt
    BY DEF AnswersPending, AnswersSlowDown, AnswersMalformed,
           AnswersOdd, Answered, Arrives, clocks
  <1>4. floor = 0
    BY <1>3 DEF IInv, Schedule
  <1>5. slowdowns' \in Nat /\ interval' = asked + slowdowns'
    <2>1. CASE AnswersSlowDown(t)
      <3>1. interval' = interval + 1 /\ slowdowns' = slowdowns + 1
        BY <2>1 DEF AnswersSlowDown, SlowDownIncrement
      <3> QED
        BY <1>2, <3>1
    <2>2. CASE ~AnswersSlowDown(t)
      BY <1>2, <2>2
      DEF AnswersPending, AnswersMalformed, AnswersOdd
    <2> QED
      BY <2>1, <2>2
  <1>6. atServer' \in {"pending", "approved", "denied", "spent", "gone"}
    BY DEF AnswersPending, AnswersSlowDown, AnswersMalformed,
           AnswersOdd, FailedAtServer, IInv, PollingTypeOK
  <1> QED
    BY <1>1, <1>3, <1>4, <1>5, <1>6, PollAgainStep

\* A 429 sends the loop round, device_login's with a floor; a spent budget does
\* with none.
LEMMA LimitedStep ==
    ASSUME IInv, NEW t \in now..(now + MaxLag), NEW hint \in Hints,
           AnswersLimited(t, hint) \/ BudgetSpent(t, hint)
    PROVE  IInv'
  <1>1. t \in Nat /\ t >= now /\ hint \in Nat
    BY ArrivalTime, PollingAssumption DEF IInv
  <1>2. slowdowns' \in Nat /\ interval' = asked + slowdowns'
    BY DEF AnswersLimited, BudgetSpent, IInv, PollingTypeOK, Schedule
  <1>3. atServer' \in {"pending", "approved", "denied", "spent", "gone"}
    BY DEF AnswersLimited, BudgetSpent, FailedAtServer, IInv, PollingTypeOK
  <1>4. /\ gpc = "wire" /\ now' = t
        /\ asked' = asked /\ shown' = shown
        /\ grant' = grant /\ lifetime' = lifetime /\ deadline' = deadline
        /\ attempt' = attempt
    BY DEF AnswersLimited, BudgetSpent, Answered, Arrives, clocks
  <1>5. CASE AnswersLimited(t, hint)
    <2> DEFINE h == IF grant = "device" THEN "heeded" ELSE "ignored"
    <2>1. PollAgain(t, hint, h) /\ floor' = IF h = "heeded" THEN hint ELSE 0
      BY <1>5 DEF AnswersLimited
    <2>2. h \in {"heeded", "ignored"}
      OBVIOUS
    <2> HIDE DEF h
    <2> QED
      BY <1>1, <1>2, <1>3, <1>4, <2>1, <2>2, PollAgainStep
  <1>6. CASE BudgetSpent(t, hint)
    <2>1. PollAgain(t, hint, "ignored") /\ floor' = 0
      BY <1>4, <1>6 DEF BudgetSpent, IInv, Schedule
    <2> QED
      BY <1>1, <1>2, <1>3, <1>4, <2>1, PollAgainStep
  <1> QED
    BY <1>5, <1>6

\* Answers that end the call.
LEMMA EndStep ==
    ASSUME IInv, NEW t \in now..(now + MaxLag),
           \/ AnswersTerminal(t) \/ AnswersTokens(t)
           \/ AnswersMalformed(t) /\ grant = "ciba"
           \/ AnswersOdd(t) /\ grant = "ciba"
    PROVE  IInv'
  <1>1. CASE AnswersTerminal(t)
    BY <1>1, StopStep DEF AnswersTerminal, history
  <1>2. CASE AnswersTokens(t)
    BY <1>2, StopStep DEF AnswersTokens
  <1>3. CASE AnswersMalformed(t) /\ grant = "ciba"
    BY <1>3, StopStep DEF AnswersMalformed, history
  <1>4. CASE AnswersOdd(t) /\ grant = "ciba"
    BY <1>4, StopStep DEF AnswersOdd, history, IInv, PollingTypeOK
  <1> QED
    BY <1>1, <1>2, <1>3, <1>4

\* A failed send: the retry waits, or there is no room for it.
LEMMA RetryStep ==
    ASSUME IInv, NEW t \in now..(now + MaxLag), NEW hint \in Hints,
           NEW jitter \in 0..MaxJitter,
           RetryLater(t, jitter, hint) \/ RetryTooLate(t, jitter, hint)
    PROVE  IInv'
  <1> DEFINE delay == RetryDelay(jitter, hint)
  <1>1. t \in Nat /\ t >= now /\ hint \in Nat /\ jitter \in Nat
    BY ArrivalTime, PollingAssumption DEF IInv
  <1>2. /\ delay \in Nat /\ delay >= hint
        /\ delay <= hint + MaxJitter /\ t + hint \in Nat
    BY <1>1, PollingAssumption DEF RetryDelay, Larger
  <1>3. atServer' \in {"pending", "approved", "denied", "spent", "gone"}
    BY DEF RetryLater, RetryTooLate, FailedAtServer, IInv, PollingTypeOK
  <1>4. Deadline(shown)' = Deadline(shown)
    BY DEF RetryLater, RetryTooLate, Deadline, clocks
  <1> HIDE DEF delay
  <1>5. CASE RetryLater(t, jitter, hint)
    <2>1. PICK over \in 0..MaxLag : now' = t + delay + over
      BY <1>5 DEF RetryLater, delay
    <2>2. now' \in Nat /\ now' >= t + hint /\ now' >= now
      BY <1>1, <1>2, <2>1, PollingAssumption DEF IInv, PollingTypeOK
    <2>3. PollingTypeOK'
      BY <1>2, <1>3, <1>5, <2>2 DEF RetryLater, IInv, PollingTypeOK, clocks
    <2>4. Schedule'
      BY <1>4, <1>5, <2>2
      DEF RetryLater, Arrives, BudgetLeft, IInv, PollingTypeOK, Schedule, clocks
    <2>5. GrantNotGivenUpEarly'
      BY <1>5 DEF RetryLater, GrantNotGivenUpEarly
    <2> QED
      BY <2>3, <2>4, <2>5 DEF IInv
  <1>6. CASE RetryTooLate(t, jitter, hint)
    <2>1. now' = t /\ due' = t + hint /\ t + delay >= deadline
      BY <1>6 DEF RetryTooLate, Answered, delay
    <2>2. PollingTypeOK'
      BY <1>1, <1>2, <1>3, <1>6, <2>1
      DEF RetryTooLate, Stop, IInv, PollingTypeOK, clocks
    <2>3. Schedule'
      BY <1>1, <1>4, <1>6, <2>1
      DEF RetryTooLate, Answered, Arrives, Stop, IInv, PollingTypeOK, Schedule, clocks
    <2>4. due' + MaxJitter >= deadline
      BY <1>1, <1>2, <2>1, PollingAssumption DEF IInv, PollingTypeOK
    <2>5. GrantNotGivenUpEarly'
      BY <1>6, <2>4 DEF RetryTooLate, Stop, GrantNotGivenUpEarly, clocks
    <2> QED
      BY <2>2, <2>3, <2>5 DEF IInv
  <1> QED
    BY <1>5, <1>6

-----------------------------------------------------------------------------
LEMMA AnswerStep ==
    ASSUME IInv, NEW t \in now..(now + MaxLag), Answer(t)
    PROVE  IInv'
  <1>1. CASE AnswersPending(t) \/ AnswersSlowDown(t)
    BY <1>1, RoundStep
  <1>2. CASE AnswersTerminal(t) \/ AnswersTokens(t)
    BY <1>2, EndStep
  <1>3. CASE AnswersMalformed(t) \/ AnswersOdd(t)
    <2>1. grant = "device" \/ grant = "ciba"
      BY DEF IInv, PollingTypeOK
    <2> QED
      BY <1>3, <2>1, RoundStep, EndStep
  <1>4. ASSUME NEW hint \in Hints, AnswersLimited(t, hint) \/ BudgetSpent(t, hint)
        PROVE  IInv'
    BY <1>4, LimitedStep
  <1>5. ASSUME NEW hint \in Hints, NEW jitter \in 0..MaxJitter,
               RetryLater(t, jitter, hint) \/ RetryTooLate(t, jitter, hint)
        PROVE  IInv'
    BY <1>5, RetryStep
  <1> QED
    BY <1>1, <1>2, <1>3, <1>4, <1>5 DEF Answer

LEMMA Invariance == PollingSpec => []IInv
  <1>1. IInv /\ [PollingNext]_pollingVars => IInv'
    <2> SUFFICES ASSUME IInv, [PollingNext]_pollingVars PROVE IInv'
      OBVIOUS
    <2>1. CASE Arm \/ GiveUp \/ SleepInterval \/ Send \/ Overslept
      BY <2>1, ArmStep, WaitStep, SendStep
    <2>2. ASSUME NEW t \in now..(now + MaxLag), Answer(t) PROVE IInv'
      BY <2>2, AnswerStep
    <2>3. CASE Approve \/ Deny
      BY <2>3, DecisionStep
    <2>4. CASE UNCHANGED pollingVars
      BY <2>4 DEF pollingVars, clocks, history, IInv, PollingTypeOK, Schedule, Wait, Deadline,
                  GrantNotGivenUpEarly
    <2> QED
      BY <2>1, <2>2, <2>3, <2>4 DEF PollingNext, Loop, Done
  <1> QED
    BY InitIInv, <1>1, PTL DEF PollingSpec

\* Every variable of the polling loop keeps its type.
THEOREM TypeCorrect == PollingSpec => []PollingTypeOK
  BY Invariance, PTL DEF IInv

\* device_login and ciba_await send nothing once expires_in has passed, for any
\* lifetime, hint, backoff and lag.
THEOREM SilentPastDeadline == PollingSpec => []NoRequestPastDeadline
  <1>1. IInv => NoRequestPastDeadline
    <2> SUFFICES ASSUME IInv, gpc = "wire"
                 PROVE  now < lifetime + IF grant = "device" THEN shown ELSE 0
      BY DEF NoRequestPastDeadline
    <2>1. now < Deadline(shown) /\ now >= shown
      BY DEF IInv, Schedule
    <2>2. lifetime \in Int /\ now \in Nat /\ shown \in Nat
      BY PollingAssumption DEF IInv, PollingTypeOK
    <2> QED
      BY <2>1, <2>2 DEF Deadline, Larger
  <1> QED
    BY Invariance, <1>1, PTL

\* No request of a grant leaves ahead of the interval and slow_downs the server
\* has asked for, nor of the Retry-After of the last answer, unless that answer is
\* CIBA's rate_limit_exceeded or the failure that spent a poll's retry budget:
\* of those two the code reads none.
THEOREM PaceKept == PollingSpec => []PollsSpaced
  <1>1. IInv => PollsSpaced
    BY DEF IInv, PollingTypeOK, Schedule, PollsSpaced
  <1> QED
    BY Invariance, <1>1, PTL

\* A grant the server would still honour is abandoned only when no further
\* request fits before its deadline.
THEOREM GrantKeptToTheEnd == PollingSpec => []GrantNotGivenUpEarly
  BY Invariance, PTL DEF IInv
=============================================================================
