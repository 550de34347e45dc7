---------------------------- MODULE SessionProofs ----------------------------
(***************************************************************************)
(* Whose credential a request carries, and what a refresh is sent for, for *)
(* any threads, any principals and any number of calls.  And callers       *)
(* racing on one refresh token, for any callers, tokens, scopes and number *)
(* of calls: none presents a token that another of them spent.             *)
(***************************************************************************)
EXTENDS ClientSession, OidcRefresh, TLAPS

-----------------------------------------------------------------------------
(* The client's own credential. *)

Principals == Users \cup {Device, NoUser}

Calls == [op : SessionOps \cup {"none", "request", "refresh", "enrol"}, user : Principals,
          bearer : Principals, as : Principals, crossed : BOOLEAN, again : BOOLEAN]

Places == {"idle", "asking", "applying", "built", "answered", "expired", "refreshing",
           "enrolling"}

SessionTypes ==
    /\ call \in [Threads -> Calls] /\ cpc \in [Threads -> Places]
    /\ jar \in Principals /\ device \in Principals /\ principalTenant \in Principals
    /\ presented \subseteq Principals

\* Where a call may be, by what it is.
Operating(t) == cpc[t] \in {"asking", "applying"}

Shapes ==
    \A t \in Threads :
        /\ Operating(t) => call[t].op \in SessionOps
        /\ cpc[t] \in {"built", "answered"} => call[t].op = "request"
        /\ cpc[t] \in {"expired", "refreshing"} => call[t].op \in {"request", "refresh"}
        /\ cpc[t] = "enrolling" => call[t].op = "enrol"

\* Whatever runs beside a session operation knows that it does.
Crossings ==
    \A s, t \in Threads :
        Operating(t) /\ cpc[s] # "idle" /\ ~Operating(s) => call[s].crossed

\* A refresh a 401 asked for, and nothing ran beside, still has the session.
Held == session \/ closed # "open"

Refreshes ==
    \A t \in Threads :
        /\ cpc[t] = "expired" /\ call[t].op = "request" /\ ~call[t].crossed =>
              device = NoUser /\ Held
        /\ cpc[t] = "refreshing" /\ call[t].op = "request" /\ ~call[t].crossed =>
              call[t].bearer = NoUser /\ Held

\* While nothing that writes the jar has overlapped, one thing at most does.
OneWriter ==
    ~tangled => \A s, t \in Threads : Writes(s) /\ Writes(t) => s = t

\* What a request would be taken for, unless a session operation has just
\* answered: then the jar is the new session's.
Credential == IF device = NoUser THEN jar ELSE device

Known ==
    ~tangled =>
        /\ (\A t \in Threads : cpc[t] # "applying") => Credential \in presented
        /\ \A t \in Threads :
              /\ cpc[t] = "applying" /\ call[t].op \in {"login", "sso"} => jar = call[t].user
              /\ cpc[t] = "built" /\ ~call[t].crossed => call[t].bearer = device
              /\ cpc[t] = "refreshing" /\ call[t].bearer = NoUser => call[t].as = jar

SessionInv ==
    /\ SessionTypes /\ Shapes /\ Crossings /\ Refreshes /\ OneWriter /\ Known
    /\ RequestsRunAsLastSession

LEMMA NoCallFacts ==
    /\ NoCall \in Calls
    /\ NoCall.op = "none" /\ ~NoCall.crossed /\ NoCall.bearer = NoUser
  <1>1. NoUser \in Principals /\ "none" \in SessionOps \cup {"none", "request", "refresh", "enrol"}
    BY DEF Principals
  <1>2. FALSE \in BOOLEAN
    OBVIOUS
  <1> QED
    BY <1>1, <1>2 DEF NoCall, Calls

LEMMA InitSession == SessionInit => SessionInv
  <1> SUFFICES ASSUME SessionInit PROVE SessionInv
    OBVIOUS
  <1>1. \A t \in Threads : cpc[t] = "idle"
    BY DEF SessionInit
  <1>2. SessionTypes
    BY NoCallFacts DEF SessionInit, SessionTypes, Places, Principals
  <1>3. Shapes /\ Crossings /\ Refreshes
    BY <1>1 DEF Shapes, Crossings, Refreshes, Operating
  <1>4. OneWriter
    BY <1>1 DEF OneWriter, Writes
  <1>5. Known
    BY <1>1 DEF SessionInit, Known, Credential
  <1>6. RequestsRunAsLastSession
    BY <1>1 DEF SessionInit, RequestsRunAsLastSession
  <1> QED
    BY <1>2, <1>3, <1>4, <1>5, <1>6 DEF SessionInv

-----------------------------------------------------------------------------
LEMMA Goneto ==
    ASSUME SessionTypes, NEW t \in Threads, NEW from, NEW to \in Places, Goes(t, from, to)
    PROVE  /\ cpc[t] = from /\ cpc' \in [Threads -> Places] /\ cpc'[t] = to
           /\ \A s \in Threads : s # t => cpc'[s] = cpc[s]
  BY DEF SessionTypes, Goes

LEMMA Ended ==
    ASSUME SessionTypes, NEW t \in Threads, Ends(t)
    PROVE  /\ cpc' \in [Threads -> Places] /\ cpc'[t] = "idle"
           /\ call' \in [Threads -> Calls]
           /\ \A s \in Threads : s # t => cpc'[s] = cpc[s] /\ call'[s] = call[s]
  BY NoCallFacts DEF SessionTypes, Ends, Places

\* A call that ends and leaves the credential alone, and was writing nothing that
\* is still to be applied.
LEMMA EndStep ==
    ASSUME SessionInv, NEW t \in Threads, Ends(t), cpc[t] # "applying",
           UNCHANGED <<jar, session, device, loginUser, principalTenant, closed, presented, torn, tangled>>
    PROVE  SessionInv'
  <1>1. /\ cpc' \in [Threads -> Places] /\ cpc'[t] = "idle" /\ call' \in [Threads -> Calls]
        /\ \A s \in Threads : s # t => cpc'[s] = cpc[s] /\ call'[s] = call[s]
    BY Ended DEF SessionInv
  <1>2. \A s \in Threads : cpc'[s] # "idle" => s # t
    BY <1>1
  <1>3. SessionTypes'
    BY <1>1 DEF SessionInv, SessionTypes
  <1>4. Shapes'
    BY <1>1, <1>2 DEF SessionInv, Shapes, Operating
  <1>5. Crossings'
    BY <1>1, <1>2 DEF SessionInv, Crossings, Operating
  <1>6. Refreshes'
    BY <1>1, <1>2 DEF SessionInv, Refreshes, Held
  <1>7. OneWriter'
    BY <1>1, <1>2 DEF SessionInv, OneWriter, Writes
  <1>8. Known'
    BY <1>1, <1>2 DEF SessionInv, Known, Credential
  <1>9. RequestsRunAsLastSession'
    BY <1>1, <1>2 DEF SessionInv, RequestsRunAsLastSession
  <1> QED
    BY <1>3, <1>4, <1>5, <1>6, <1>7, <1>8, <1>9 DEF SessionInv

\* The end of a session operation: nothing that ran beside it is taken for
\* whoever it left behind.
LEMMA ApplyStep ==
    ASSUME SessionInv, NEW t \in Threads, cpc[t] = "applying", Ends(t),
           UNCHANGED <<jar, closed, tangled>>,
           device' \in Principals, principalTenant' \in Principals,
           presented' \subseteq Principals, torn' \/ loginUser' \in presented' \cup {NoUser},
           ~tangled => Credential' \in presented'
    PROVE  SessionInv'
  <1>1. /\ cpc' \in [Threads -> Places] /\ cpc'[t] = "idle" /\ call' \in [Threads -> Calls]
        /\ \A s \in Threads : s # t => cpc'[s] = cpc[s] /\ call'[s] = call[s]
    BY Ended DEF SessionInv
  <1>2. \A s \in Threads : cpc'[s] # "idle" =>
            s # t /\ cpc'[s] = cpc[s] /\ call'[s] = call[s]
    BY <1>1
  <1>3. \A s \in Threads : cpc[s] # "idle" /\ ~Operating(s) => call[s].crossed
    BY DEF SessionInv, Crossings, Operating
  <1>4. SessionTypes'
    BY <1>1 DEF SessionInv, SessionTypes
  <1>5. Shapes'
    BY <1>2 DEF SessionInv, Shapes, Operating
  <1>6. Crossings'
    BY <1>2 DEF SessionInv, Crossings, Operating
  <1>7. Refreshes'
    BY <1>2, <1>3 DEF Refreshes, Operating
  <1>8. OneWriter'
    BY <1>2 DEF SessionInv, OneWriter, Writes
  <1>9. Known'
    <2> SUFFICES ASSUME ~tangled PROVE Known'
      BY DEF Known
    <2>1. Credential' \in presented'
      OBVIOUS
    <2>2. \A s \in Threads : cpc'[s] = "built" => call'[s].crossed
      BY <1>2, <1>3 DEF Operating
    <2> QED
      BY <1>2, <2>1, <2>2 DEF SessionInv, Known
  <1>10. RequestsRunAsLastSession'
    BY <1>2, <1>3 DEF RequestsRunAsLastSession, Operating
  <1> QED
    BY <1>4, <1>5, <1>6, <1>7, <1>8, <1>9, <1>10 DEF SessionInv

LEMMA ApplyingCall ==
    ASSUME SessionInv, NEW t \in Threads, cpc[t] = "applying"
    PROVE  /\ call[t].user \in Principals
           /\ ~tangled /\ call[t].op \in {"login", "sso"} => jar = call[t].user
           /\ device \in Principals /\ principalTenant \in Principals /\ jar \in Principals
           /\ Device \in Principals /\ NoUser \in Principals
  <1>1. call[t] \in Calls
    BY DEF SessionInv, SessionTypes
  <1>2. call[t].user \in Principals
    BY <1>1 DEF Calls
  <1> QED
    BY <1>2 DEF SessionInv, SessionTypes, Known, Principals

LEMMA ApplySteps ==
    ASSUME SessionInv, NEW t \in Threads,
           SignInRejected(t) \/ ApplyLogin(t) \/ ApplySso(t) \/ ApplyDevice(t)
               \/ ApplyLogout(t)
    PROVE  SessionInv'
  <1>1. CASE ApplyLogin(t) \/ ApplySso(t)
    <2>1. /\ cpc[t] = "applying" /\ call[t].op \in {"login", "sso"} /\ Ends(t)
          /\ device' = NoUser /\ presented' = {call[t].user}
          /\ UNCHANGED <<jar, closed, tangled>>
      BY <1>1 DEF ApplyLogin, ApplySso, ForgetForSso
    <2>2. /\ principalTenant' \in {call[t].user, principalTenant}
          /\ loginUser' \in {call[t].user, NoUser}
      BY <1>1 DEF ApplyLogin, ApplySso, ForgetForSso
    <2>3. ~tangled => Credential' \in presented'
      BY <2>1, ApplyingCall DEF Credential
    <2> QED
      BY <2>1, <2>2, <2>3, ApplyingCall, ApplyStep
  <1>2. CASE ApplyDevice(t)
    <2>1. /\ cpc[t] = "applying" /\ Ends(t) /\ device' = Device /\ loginUser' = NoUser
          /\ presented' = {Device} /\ UNCHANGED <<jar, closed, tangled, principalTenant>>
      BY <1>2 DEF ApplyDevice, AdoptDevice
    <2>2. Credential' \in presented'
      BY <2>1, SessionAssumption DEF Credential, NoUser
    <2> QED
      BY <2>1, <2>2, ApplyingCall, ApplyStep
  <1>3. CASE ApplyLogout(t)
    <2>1. /\ cpc[t] = "applying" /\ Ends(t) /\ device' = NoUser /\ loginUser' = NoUser
          /\ presented' = {jar} /\ UNCHANGED <<jar, closed, tangled, principalTenant>>
      BY <1>3 DEF ApplyLogout
    <2>2. Credential' \in presented'
      BY <2>1 DEF Credential
    <2> QED
      BY <2>1, <2>2, ApplyingCall, ApplyStep
  <1>4. CASE SignInRejected(t)
    <2>1. /\ cpc[t] = "applying" /\ Ends(t) /\ presented' = {Credential} /\ torn'
          /\ UNCHANGED <<jar, closed, tangled, device, principalTenant>>
      BY <1>4 DEF SignInRejected, remembered, Credential
    <2>2. Credential' = Credential /\ Credential \in Principals
      BY <2>1, ApplyingCall DEF Credential
    <2> QED
      BY <2>1, <2>2, ApplyingCall, ApplyStep
  <1> QED
    BY <1>1, <1>2, <1>3, <1>4

\* Every call under way beside the new one has crossed it; and if one of them
\* writes, no more is promised.
LEMMA SessionCallStep ==
    ASSUME SessionInv, NEW t \in Threads, NEW op \in SessionOps, NEW u \in Principals,
           SessionCall(t, op, u)
    PROVE  SessionInv'
  <1> DEFINE c == [NoCall EXCEPT !.op = op, !.user = u,
                                 !.bearer = IF op = "device" THEN NoUser ELSE device]
  <1>1. /\ Goes(t, "idle", "asking")
        /\ call' = [s \in Threads |-> IF s # t THEN [call[s] EXCEPT !.crossed = cpc[s] # "idle"]
                                      ELSE c]
        /\ tangled' = (tangled \/ \E s \in Threads : Writes(s))
        /\ UNCHANGED <<jar, session, device, loginUser, principalTenant, closed, presented, torn>>
    BY DEF SessionCall, remembered
  <1>2. /\ cpc[t] = "idle" /\ cpc' \in [Threads -> Places] /\ cpc'[t] = "asking"
        /\ \A s \in Threads : s # t => cpc'[s] = cpc[s]
    BY <1>1, Goneto DEF SessionInv, Places
  <1>3. c \in Calls /\ c.op = op
    <2>1. (IF op = "device" THEN NoUser ELSE device) \in Principals
      BY DEF SessionInv, SessionTypes, Principals
    <2> QED
      BY <2>1, NoCallFacts DEF Calls
  <1>4. ASSUME NEW s \in Threads, s # t
        PROVE  /\ call'[s] \in Calls /\ call'[s].crossed = (cpc[s] # "idle")
               /\ call'[s].op = call[s].op /\ call'[s].user = call[s].user
               /\ call'[s].bearer = call[s].bearer /\ call'[s].as = call[s].as
    <2>1. call[s] \in Calls /\ (cpc[s] # "idle") \in BOOLEAN
      BY DEF SessionInv, SessionTypes
    <2>2. call'[s] = [call[s] EXCEPT !.crossed = cpc[s] # "idle"]
      BY <1>1, <1>4
    <2> QED
      BY <2>1, <2>2 DEF Calls
  <1>5. call'[t] = c /\ call' = [s \in Threads |-> call'[s]]
    BY <1>1
  <1> HIDE DEF c
  <1>6. SessionTypes'
    <2>1. call' \in [Threads -> Calls]
      BY <1>3, <1>4, <1>5
    <2> QED
      BY <1>1, <1>2, <2>1 DEF SessionInv, SessionTypes
  <1>7. Shapes'
    BY <1>2, <1>3, <1>4, <1>5 DEF SessionInv, Shapes, Operating
  <1>8. \A s \in Threads : cpc'[s] # "idle" /\ s # t => call'[s].crossed
    BY <1>2, <1>4
  <1>9. Crossings'
    BY <1>2, <1>8 DEF Crossings, Operating
  <1>10. Refreshes'
    BY <1>2, <1>8 DEF Refreshes
  <1>11. ~tangled' => ~tangled /\ \A s \in Threads : ~Writes(s)
    BY <1>1
  <1>12. \A s \in Threads : s # t => (Writes(s)' <=> Writes(s))
    BY <1>2, <1>4 DEF Writes
  <1>13. OneWriter'
    BY <1>11, <1>12 DEF OneWriter
  <1>14. Known'
    <2> SUFFICES ASSUME ~tangled' PROVE Known'
      BY DEF Known
    <2>1. Credential' = Credential
      BY <1>1 DEF Credential
    <2>2. \A s \in Threads : cpc[s] \notin {"asking", "applying", "refreshing"}
      BY <1>11 DEF Writes, SessionInv, Shapes, Operating
    <2>3. Credential \in presented
      BY <1>11, <2>2 DEF SessionInv, Known
    <2>4. \A s \in Threads : cpc'[s] \notin {"applying", "refreshing"}
      BY <1>2, <2>2
    <2>5. \A s \in Threads : cpc'[s] = "built" => call'[s].crossed
      BY <1>2, <1>8
    <2> QED
      BY <1>1, <2>1, <2>3, <2>4, <2>5 DEF Known
  <1>15. RequestsRunAsLastSession'
    BY <1>1, <1>2, <1>8, <1>11 DEF SessionInv, RequestsRunAsLastSession
  <1> QED
    BY <1>6, <1>7, <1>9, <1>10, <1>13, <1>14, <1>15 DEF SessionInv

\* The answer to a session operation: while nothing overlaps it, the jar is its
\* own to write.
LEMMA AnsweredStep ==
    ASSUME SessionInv, NEW t \in Threads, Goes(t, "asking", "applying"), jar' \in Principals,
           call[t].op \in {"login", "sso"} => jar' = call[t].user,
           UNCHANGED <<session, device, loginUser, principalTenant, closed, call, presented,
                       torn, tangled>>
    PROVE  SessionInv'
  <1>1. /\ cpc[t] = "asking" /\ cpc' \in [Threads -> Places] /\ cpc'[t] = "applying"
        /\ \A s \in Threads : s # t => cpc'[s] = cpc[s]
    BY Goneto DEF SessionInv, Places
  <1>2. call[t].op \in SessionOps
    BY <1>1 DEF SessionInv, Shapes, Operating
  <1>3. \A s \in Threads : (Operating(s)' <=> Operating(s)) /\ (Writes(s)' <=> Writes(s))
                           /\ (cpc'[s] = "idle" <=> cpc[s] = "idle")
    BY <1>1 DEF Operating, Writes
  <1>4. SessionTypes'
    BY <1>1 DEF SessionInv, SessionTypes
  <1>5. Shapes'
    BY <1>1, <1>2 DEF SessionInv, Shapes, Operating
  <1>6. Crossings'
    BY <1>3 DEF SessionInv, Crossings
  <1>7. Refreshes'
    BY <1>1 DEF SessionInv, Refreshes, Held
  <1>8. OneWriter'
    BY <1>3 DEF SessionInv, OneWriter
  <1>9. Known'
    <2> SUFFICES ASSUME ~tangled PROVE Known'
      BY DEF Known
    <2>1. \A s \in Threads : s # t => ~Writes(s)
      BY <1>1, <1>2 DEF SessionInv, OneWriter, Writes
    <2>2. \A s \in Threads : s # t => cpc'[s] \notin {"applying", "refreshing"}
      BY <1>1, <2>1 DEF Writes, SessionInv, Shapes, Operating
    <2> QED
      BY <1>1, <2>2 DEF SessionInv, Known
  <1>10. RequestsRunAsLastSession'
    BY <1>1 DEF SessionInv, RequestsRunAsLastSession
  <1> QED
    BY <1>4, <1>5, <1>6, <1>7, <1>8, <1>9, <1>10 DEF SessionInv

\* A request or an enrolment begins, knowing what it crosses.
LEMMA BeginStep ==
    ASSUME SessionInv, NEW t \in Threads, NEW c \in Calls, NEW to \in {"built", "expired", "enrolling"},
           Goes(t, "idle", to), call' = [call EXCEPT ![t] = c],
           c.op = [built |-> "request", expired |-> "refresh", enrolling |-> "enrol"][to],
           to = "built" => c.bearer = device,
           c.crossed = Beside,
           UNCHANGED <<jar, session, device, loginUser, principalTenant, closed, presented,
                       torn, tangled>>
    PROVE  SessionInv'
  <1>1. /\ cpc[t] = "idle" /\ cpc' \in [Threads -> Places] /\ cpc'[t] = to
        /\ \A s \in Threads : s # t => cpc'[s] = cpc[s]
    BY Goneto DEF SessionInv, Places
  <1>2. /\ call' \in [Threads -> Calls] /\ call'[t] = c
        /\ \A s \in Threads : s # t => call'[s] = call[s]
    BY DEF SessionInv, SessionTypes
  <1>3. \A s \in Threads : Operating(s)' <=> s # t /\ Operating(s)
    BY <1>1 DEF Operating
  <1>4. c.op \notin SessionOps
    BY DEF SessionOps
  <1>5. \A s \in Threads : Writes(s)' => s # t /\ Writes(s)
    BY <1>1, <1>2, <1>4 DEF Writes
  <1>6. SessionTypes'
    BY <1>1, <1>2 DEF SessionInv, SessionTypes
  <1>7. Shapes'
    BY <1>1, <1>2, <1>3 DEF SessionInv, Shapes
  <1>8. Crossings'
    <2>1. \A s \in Threads : Operating(s) => cpc[s] # "idle" /\ call[s].op \in SessionOps
      BY DEF SessionInv, Shapes, Operating
    <2>2. \A s \in Threads : Operating(s)' => c.crossed
      BY <1>3, <2>1 DEF Beside
    <2> QED
      BY <1>1, <1>2, <1>3, <2>2 DEF SessionInv, Crossings
  <1>9. Refreshes'
    BY <1>1, <1>2 DEF SessionInv, Refreshes, Held
  <1>10. OneWriter'
    BY <1>5 DEF SessionInv, OneWriter
  <1>11. Known'
    <2> SUFFICES ASSUME ~tangled PROVE Known'
      BY DEF Known
    <2>1. (\A s \in Threads : cpc'[s] # "applying") => \A s \in Threads : cpc[s] # "applying"
      BY <1>1
    <2>2. Credential' = Credential
      BY DEF Credential
    <2> QED
      BY <1>1, <1>2, <2>1, <2>2 DEF SessionInv, Known
  <1>12. RequestsRunAsLastSession'
    BY <1>1, <1>2 DEF SessionInv, RequestsRunAsLastSession
  <1> QED
    BY <1>6, <1>7, <1>8, <1>9, <1>10, <1>11, <1>12 DEF SessionInv

LEMMA BeginSteps ==
    ASSUME SessionInv, NEW t \in Threads, RequestCall(t) \/ ExplicitRefresh(t) \/ EnrolSelf(t)
    PROVE  SessionInv'
  <1>1. Beside \in BOOLEAN /\ device \in Principals /\ principalTenant \in Principals
    BY DEF SessionInv, SessionTypes, Beside
  <1>2. CASE RequestCall(t)
    <2> DEFINE c == [NoCall EXCEPT !.op = "request", !.bearer = device, !.crossed = Beside]
    <2>1. /\ Goes(t, "idle", "built") /\ call' = [call EXCEPT ![t] = c]
          /\ UNCHANGED <<jar, session, device, loginUser, principalTenant, closed, presented,
                         torn, tangled>>
      BY <1>2 DEF RequestCall, remembered
    <2>2. c \in Calls /\ c.op = "request" /\ c.crossed = Beside /\ c.bearer = device
      BY <1>1, NoCallFacts DEF Calls
    <2> HIDE DEF c
    <2> QED
      BY <2>1, <2>2, BeginStep
  <1>3. CASE EnrolSelf(t)
    <2> DEFINE c == [NoCall EXCEPT !.op = "enrol", !.user = principalTenant, !.crossed = Beside]
    <2>1. /\ Goes(t, "idle", "enrolling") /\ call' = [call EXCEPT ![t] = c]
          /\ UNCHANGED <<jar, session, device, loginUser, principalTenant, closed, presented,
                         torn, tangled>>
      BY <1>3 DEF EnrolSelf, remembered
    <2>2. c \in Calls /\ c.op = "enrol" /\ c.crossed = Beside
      BY <1>1, NoCallFacts DEF Calls
    <2> HIDE DEF c
    <2> QED
      BY <2>1, <2>2, BeginStep
  <1>4. CASE ExplicitRefresh(t)
    <2> DEFINE c == [NoCall EXCEPT !.op = "refresh", !.crossed = Beside]
    <2>1. /\ Goes(t, "idle", "expired") /\ call' = [call EXCEPT ![t] = c]
          /\ UNCHANGED <<jar, session, device, loginUser, principalTenant, closed, presented,
                         torn, tangled>>
      BY <1>4 DEF ExplicitRefresh, remembered
    <2>2. c \in Calls /\ c.op = "refresh" /\ c.crossed = Beside
      BY <1>1, NoCallFacts DEF Calls
    <2> HIDE DEF c
    <2> QED
      BY <2>1, <2>2, BeginStep
  <1> QED
    BY <1>2, <1>3, <1>4

\* A call that nothing crosses runs beside no session operation.
LEMMA Uncrossed ==
    ASSUME SessionInv, NEW t \in Threads, cpc[t] # "idle", ~Operating(t), ~call[t].crossed
    PROVE  \A s \in Threads : ~Operating(s)
  BY DEF SessionInv, Crossings

LEMMA TransferStep ==
    ASSUME SessionInv, NEW t \in Threads, Transfer(t)
    PROVE  SessionInv'
  <1> DEFINE as == IF call[t].bearer = NoUser THEN jar ELSE call[t].bearer
  <1>1. /\ Goes(t, "built", "answered") /\ call' = [call EXCEPT ![t].as = as]
        /\ UNCHANGED <<jar, session, device, loginUser, principalTenant, closed, presented,
                       torn, tangled>>
    BY DEF Transfer, remembered
  <1>2. /\ cpc[t] = "built" /\ cpc' \in [Threads -> Places] /\ cpc'[t] = "answered"
        /\ \A s \in Threads : s # t => cpc'[s] = cpc[s]
    BY <1>1, Goneto DEF SessionInv, Places
  <1>3. call[t] \in Calls /\ as \in Principals
    BY DEF SessionInv, SessionTypes, Calls
  <1> HIDE DEF as
  <1>4. /\ call' \in [Threads -> Calls] /\ call'[t].as = as
        /\ call'[t].op = call[t].op /\ call'[t].crossed = call[t].crossed
        /\ \A s \in Threads : s # t => call'[s] = call[s]
    BY <1>1, <1>3 DEF SessionInv, SessionTypes, Calls
  <1>5. call[t].op = "request" /\ call[t].op \notin SessionOps
    BY <1>2 DEF SessionInv, Shapes, SessionOps
  <1>6. \A s \in Threads : (Operating(s)' <=> Operating(s)) /\ (Writes(s)' <=> Writes(s))
    BY <1>2, <1>4, <1>5 DEF Operating, Writes
  <1>7. SessionTypes'
    BY <1>1, <1>2, <1>4 DEF SessionInv, SessionTypes
  <1>8. Shapes'
    BY <1>2, <1>4, <1>5, <1>6 DEF SessionInv, Shapes
  <1>9. Crossings'
    BY <1>2, <1>4, <1>6 DEF SessionInv, Crossings
  <1>10. Refreshes'
    BY <1>1, <1>2, <1>4 DEF SessionInv, Refreshes, Held
  <1>11. OneWriter'
    BY <1>1, <1>6 DEF SessionInv, OneWriter
  <1>12. Known'
    <2> SUFFICES ASSUME ~tangled PROVE Known'
      BY <1>1 DEF Known
    <2>1. Credential' = Credential
      BY <1>1 DEF Credential
    <2>2. (\A s \in Threads : cpc'[s] # "applying") => \A s \in Threads : cpc[s] # "applying"
      BY <1>2
    <2> QED
      BY <1>1, <1>2, <1>4, <2>1, <2>2 DEF SessionInv, Known
  <1>13. ASSUME ~tangled, ~call[t].crossed
         PROVE  as \in presented
    <2>1. \A s \in Threads : cpc[s] # "applying"
      BY <1>2, <1>13, Uncrossed DEF Operating
    <2>2. as = Credential
      BY <1>2, <1>13 DEF SessionInv, Known, as, Credential
    <2> QED
      BY <1>13, <2>1, <2>2 DEF SessionInv, Known
  <1>14. RequestsRunAsLastSession'
    <2> SUFFICES ASSUME ~tangled PROVE RequestsRunAsLastSession'
      BY <1>1 DEF RequestsRunAsLastSession
    <2>1. ~call'[t].crossed => call'[t].as \in presented
      BY <1>4, <1>13
    <2>2. \A s \in Threads : s # t /\ cpc'[s] = "answered" /\ ~call'[s].crossed =>
            call'[s].as \in presented
      BY <1>2, <1>4 DEF SessionInv, RequestsRunAsLastSession
    <2>3. torn' \/ loginUser' \in presented' \cup {NoUser}
      BY <1>1 DEF SessionInv, RequestsRunAsLastSession
    <2>4. \A s \in Threads : cpc'[s] = "answered" /\ ~call'[s].crossed =>
            call'[s].as \in presented'
      <3> SUFFICES ASSUME NEW s \in Threads, cpc'[s] = "answered", ~call'[s].crossed
                   PROVE  call'[s].as \in presented'
        OBVIOUS
      <3>1. presented' = presented
        BY <1>1
      <3>2. CASE s = t
        BY <2>1, <3>1, <3>2
      <3>3. CASE s # t
        BY <2>2, <3>1, <3>3
      <3> QED
        BY <3>2, <3>3
    <2> QED
      BY <2>3, <2>4 DEF RequestsRunAsLastSession
  <1> QED
    BY <1>7, <1>8, <1>9, <1>10, <1>11, <1>12, <1>14 DEF SessionInv

LEMMA UnauthorizedStep ==
    ASSUME SessionInv, NEW t \in Threads, Unauthorized(t)
    PROVE  SessionInv'
  <1>1. /\ Goes(t, "answered", "expired") /\ session /\ device = NoUser
        /\ UNCHANGED <<jar, session, device, loginUser, principalTenant, closed, call, presented,
                       torn, tangled>>
    BY DEF Unauthorized, HaveSession, remembered
  <1>2. /\ cpc[t] = "answered" /\ cpc' \in [Threads -> Places] /\ cpc'[t] = "expired"
        /\ \A s \in Threads : s # t => cpc'[s] = cpc[s]
    BY <1>1, Goneto DEF SessionInv, Places
  <1>3. \A s \in Threads : (Operating(s)' <=> Operating(s)) /\ (Writes(s)' <=> Writes(s))
    BY <1>1, <1>2 DEF Operating, Writes
  <1>4. SessionTypes'
    BY <1>1, <1>2 DEF SessionInv, SessionTypes
  <1>5. Shapes'
    BY <1>1, <1>2, <1>3 DEF SessionInv, Shapes
  <1>6. Crossings'
    BY <1>1, <1>2, <1>3 DEF SessionInv, Crossings
  <1>7. Refreshes'
    BY <1>1, <1>2 DEF SessionInv, Refreshes, Held
  <1>8. OneWriter'
    BY <1>1, <1>3 DEF SessionInv, OneWriter
  <1>9. Known'
    <2>1. (\A s \in Threads : cpc'[s] # "applying") => \A s \in Threads : cpc[s] # "applying"
      BY <1>2
    <2> QED
      BY <1>1, <1>2, <2>1 DEF SessionInv, Known, Credential
  <1>10. RequestsRunAsLastSession'
    BY <1>1, <1>2 DEF SessionInv, RequestsRunAsLastSession
  <1> QED
    BY <1>4, <1>5, <1>6, <1>7, <1>8, <1>9, <1>10 DEF SessionInv

\* The refresh carries what the client holds now: a session still, unless an
\* operation came between the 401 and this.
LEMMA RefreshSentStep ==
    ASSUME SessionInv, NEW t \in Threads, RefreshSent(t)
    PROVE  SessionInv'
  <1> DEFINE as == IF device # NoUser THEN device ELSE jar
             c == [call[t] EXCEPT !.bearer = device, !.as = as]
  <1>1. /\ Goes(t, "expired", "refreshing") /\ call' = [call EXCEPT ![t] = c]
        /\ tangled' = (tangled \/ \E s \in Threads \ {t} : Writes(s))
        /\ UNCHANGED <<jar, session, device, loginUser, principalTenant, closed, presented, torn>>
    BY DEF RefreshSent, remembered, SessionInv, SessionTypes
  <1>2. /\ cpc[t] = "expired" /\ cpc' \in [Threads -> Places] /\ cpc'[t] = "refreshing"
        /\ \A s \in Threads : s # t => cpc'[s] = cpc[s]
    BY <1>1, Goneto DEF SessionInv, Places
  <1>3. call[t] \in Calls /\ as \in Principals /\ device \in Principals
    BY DEF SessionInv, SessionTypes
  <1>4. device = NoUser => as = jar
    OBVIOUS
  <1> HIDE DEF as
  <1>5. /\ c \in Calls /\ c.bearer = device /\ c.as = as
        /\ c.op = call[t].op /\ c.crossed = call[t].crossed
    BY <1>3 DEF Calls
  <1> HIDE DEF c
  <1>6. /\ call' \in [Threads -> Calls] /\ call'[t] = c
        /\ \A s \in Threads : s # t => call'[s] = call[s]
    BY <1>1, <1>5 DEF SessionInv, SessionTypes
  <1>7. call[t].op \in {"request", "refresh"}
    BY <1>2 DEF SessionInv, Shapes
  <1>8. \A s \in Threads : (Operating(s)' <=> Operating(s)) /\ (cpc'[s] = "idle" <=> cpc[s] = "idle")
    BY <1>2 DEF Operating
  <1>9. SessionTypes'
    BY <1>1, <1>2, <1>6 DEF SessionInv, SessionTypes
  <1>10. Shapes'
    BY <1>2, <1>5, <1>6, <1>7, <1>8 DEF SessionInv, Shapes
  <1>11. Crossings'
    BY <1>5, <1>6, <1>8 DEF SessionInv, Crossings
  <1>12. Refreshes'
    <2>1. call[t].op = "request" /\ ~call[t].crossed => device = NoUser /\ Held
      BY <1>2 DEF SessionInv, Refreshes
    <2> QED
      BY <1>1, <1>2, <1>5, <1>6, <2>1 DEF SessionInv, Refreshes, Held
  <1>13. \A s \in Threads : s # t => (Writes(s)' <=> Writes(s))
    BY <1>2, <1>6 DEF Writes
  <1>14. ~tangled' => ~tangled /\ \A s \in Threads : s # t => ~Writes(s)
    BY <1>1
  <1>15. OneWriter'
    BY <1>13, <1>14 DEF OneWriter
  <1>16. Known'
    <2> SUFFICES ASSUME ~tangled' PROVE Known'
      BY DEF Known
    <2>1. (\A s \in Threads : cpc'[s] # "applying") => \A s \in Threads : cpc[s] # "applying"
      BY <1>2
    <2>2. Credential' = Credential
      BY <1>1 DEF Credential
    <2> QED
      BY <1>1, <1>2, <1>4, <1>5, <1>6, <1>14, <2>1, <2>2 DEF SessionInv, Known
  <1>17. RequestsRunAsLastSession'
    BY <1>1, <1>2, <1>6, <1>14 DEF SessionInv, RequestsRunAsLastSession
  <1> QED
    BY <1>9, <1>10, <1>11, <1>12, <1>15, <1>16, <1>17 DEF SessionInv

\* The cookies come back rotated: the same session's, while nothing overlaps.
LEMMA RequestRefreshed ==
    ASSUME SessionInv, NEW t \in Threads, Refreshed(t), call[t].op = "request"
    PROVE  SessionInv'
  <1> DEFINE c == [call[t] EXCEPT !.bearer = device, !.again = TRUE]
  <1>1. /\ Goes(t, "refreshing", "built") /\ call' = [call EXCEPT ![t] = c]
        /\ call[t].bearer = NoUser /\ jar' = call[t].as
        /\ UNCHANGED <<session, device, loginUser, principalTenant, closed, presented, torn, tangled>>
    BY DEF Refreshed, remembered, SessionInv, SessionTypes
  <1>2. /\ cpc[t] = "refreshing" /\ cpc' \in [Threads -> Places] /\ cpc'[t] = "built"
        /\ \A s \in Threads : s # t => cpc'[s] = cpc[s]
    BY <1>1, Goneto DEF SessionInv, Places
  <1>3. call[t] \in Calls /\ call[t].as \in Principals /\ device \in Principals
    BY DEF SessionInv, SessionTypes, Calls
  <1>4. TRUE \in BOOLEAN
    OBVIOUS
  <1>5. /\ c \in Calls /\ c.bearer = device
        /\ c.op = call[t].op /\ c.crossed = call[t].crossed
    BY <1>3, <1>4 DEF Calls
  <1> HIDE DEF c
  <1>6. /\ call' \in [Threads -> Calls] /\ call'[t] = c
        /\ \A s \in Threads : s # t => call'[s] = call[s]
    BY <1>1, <1>5 DEF SessionInv, SessionTypes
  <1>7. call[t].op = "request" /\ call[t].op \notin SessionOps
    BY <1>2 DEF SessionInv, Shapes, SessionOps
  <1>8. \A s \in Threads : (Operating(s)' <=> Operating(s)) /\ (cpc'[s] = "idle" <=> cpc[s] = "idle")
    BY <1>2 DEF Operating
  <1>9. \A s \in Threads : Writes(s)' => s # t /\ Writes(s)
    BY <1>2, <1>5, <1>6, <1>7 DEF Writes
  <1>10. ~tangled => jar' = jar
    BY <1>1, <1>2 DEF SessionInv, Known
  <1>11. SessionTypes'
    BY <1>1, <1>2, <1>3, <1>6 DEF SessionInv, SessionTypes
  <1>12. Shapes'
    BY <1>2, <1>5, <1>6, <1>7, <1>8 DEF SessionInv, Shapes
  <1>13. Crossings'
    BY <1>5, <1>6, <1>8 DEF SessionInv, Crossings
  <1>14. Refreshes'
    BY <1>1, <1>2, <1>6 DEF SessionInv, Refreshes, Held
  <1>15. OneWriter'
    BY <1>1, <1>9 DEF SessionInv, OneWriter
  <1>16. Known'
    <2> SUFFICES ASSUME ~tangled PROVE Known'
      BY <1>1 DEF Known
    <2>1. (\A s \in Threads : cpc'[s] # "applying") => \A s \in Threads : cpc[s] # "applying"
      BY <1>2
    <2>2. Credential' = Credential
      BY <1>1, <1>10 DEF Credential
    <2> QED
      BY <1>1, <1>2, <1>5, <1>6, <1>10, <2>1, <2>2 DEF SessionInv, Known
  <1>17. RequestsRunAsLastSession'
    BY <1>1, <1>2, <1>6 DEF SessionInv, RequestsRunAsLastSession
  <1> QED
    BY <1>11, <1>12, <1>13, <1>14, <1>15, <1>16, <1>17 DEF SessionInv

LEMMA ExplicitlyRefreshed ==
    ASSUME SessionInv, NEW t \in Threads, Refreshed(t), call[t].op = "refresh"
    PROVE  SessionInv'
  <1>1. /\ cpc[t] = "refreshing" /\ Ends(t) /\ call[t].bearer = NoUser /\ jar' = call[t].as
        /\ UNCHANGED <<session, device, loginUser, principalTenant, closed, presented, torn, tangled>>
    BY DEF Refreshed, remembered
  <1>2. call[t].as \in Principals
    BY DEF SessionInv, SessionTypes, Calls
  <1>3. ~tangled => jar' = jar
    BY <1>1 DEF SessionInv, Known
  <1>4. /\ cpc' \in [Threads -> Places] /\ cpc'[t] = "idle" /\ call' \in [Threads -> Calls]
        /\ \A s \in Threads : s # t => cpc'[s] = cpc[s] /\ call'[s] = call[s]
    BY <1>1, Ended DEF SessionInv
  <1>5. \A s \in Threads : cpc'[s] # "idle" => s # t
    BY <1>4
  <1>6. SessionTypes'
    BY <1>1, <1>2, <1>4 DEF SessionInv, SessionTypes
  <1>7. Shapes'
    BY <1>4, <1>5 DEF SessionInv, Shapes, Operating
  <1>8. Crossings'
    BY <1>4, <1>5 DEF SessionInv, Crossings, Operating
  <1>9. Refreshes'
    BY <1>1, <1>4, <1>5 DEF SessionInv, Refreshes, Held
  <1>10. OneWriter'
    BY <1>1, <1>4, <1>5 DEF SessionInv, OneWriter, Writes
  <1>11. Known'
    <2> SUFFICES ASSUME ~tangled PROVE Known'
      BY <1>1 DEF Known
    <2>1. (\A s \in Threads : cpc'[s] # "applying") => \A s \in Threads : cpc[s] # "applying"
      BY <1>1, <1>4
    <2>2. Credential' = Credential
      BY <1>1, <1>3 DEF Credential
    <2> QED
      BY <1>1, <1>3, <1>4, <1>5, <2>1, <2>2 DEF SessionInv, Known
  <1>12. RequestsRunAsLastSession'
    BY <1>1, <1>4, <1>5 DEF SessionInv, RequestsRunAsLastSession
  <1> QED
    BY <1>6, <1>7, <1>8, <1>9, <1>10, <1>11, <1>12 DEF SessionInv

LEMMA RefreshedStep ==
    ASSUME SessionInv, NEW t \in Threads, Refreshed(t)
    PROVE  SessionInv'
  <1>1. call[t].op \in {"request", "refresh"}
    BY DEF Refreshed
  <1> QED
    BY <1>1, RequestRefreshed, ExplicitlyRefreshed

\* close() ends the session, and says so; the transport goes after it.
LEMMA CloseSteps ==
    ASSUME SessionInv, Close \/ Release
    PROVE  SessionInv'
  <1>1. /\ closed' # "open"
        /\ UNCHANGED <<jar, device, loginUser, principalTenant, cpc, call, presented, torn, tangled>>
    BY DEF Close, Release, remembered
  <1>2. SessionTypes' /\ Shapes' /\ Crossings'
    BY <1>1 DEF SessionInv, SessionTypes, Shapes, Crossings, Operating
  <1>3. Refreshes'
    BY <1>1 DEF SessionInv, Refreshes, Held
  <1>4. OneWriter'
    BY <1>1 DEF SessionInv, OneWriter, Writes
  <1>5. Known'
    BY <1>1 DEF SessionInv, Known, Credential
  <1>6. RequestsRunAsLastSession'
    BY <1>1 DEF SessionInv, RequestsRunAsLastSession
  <1> QED
    BY <1>2, <1>3, <1>4, <1>5, <1>6 DEF SessionInv

LEMMA StutterStep ==
    ASSUME SessionInv, UNCHANGED sessionVars
    PROVE  SessionInv'
  <1> USE DEF sessionVars, remembered
  <1>1. SessionTypes' /\ Shapes' /\ Crossings'
    BY DEF SessionInv, SessionTypes, Shapes, Crossings, Operating
  <1>2. Refreshes'
    BY DEF SessionInv, Refreshes, Held
  <1>3. OneWriter'
    BY DEF SessionInv, OneWriter, Writes
  <1>4. Known'
    BY DEF SessionInv, Known, Credential
  <1>5. RequestsRunAsLastSession'
    BY DEF SessionInv, RequestsRunAsLastSession
  <1> QED
    BY <1>1, <1>2, <1>3, <1>4, <1>5 DEF SessionInv

LEMMA ThreadStep ==
    ASSUME SessionInv, NEW t \in Threads, SessionStep(t)
    PROVE  SessionInv'
  <1>1. CASE SignedIn(t) \/ DeviceKnown(t) \/ LoggedOut(t)
    <2>1. /\ Goes(t, "asking", "applying")
          /\ UNCHANGED <<session, device, loginUser, principalTenant, closed, call, presented,
                         torn, tangled>>
      BY <1>1 DEF SignedIn, DeviceKnown, LoggedOut, remembered
    <2>2. /\ jar' \in {jar, NoUser, call[t].user}
          /\ call[t].op \in {"login", "sso"} => jar' = call[t].user
      BY <1>1 DEF SignedIn, DeviceKnown, LoggedOut
    <2>3. call[t].user \in Principals /\ jar \in Principals /\ NoUser \in Principals
      BY DEF SessionInv, SessionTypes, Calls, Principals
    <2> QED
      BY <2>1, <2>2, <2>3, AnsweredStep
  <1>2. CASE SignInFails(t) \/ TransportGone(t) \/ Returned(t) \/ RefreshFails(t) \/ Enrolled(t)
    <2>1. /\ Ends(t) /\ cpc[t] # "applying"
          /\ UNCHANGED <<jar, session, device, loginUser, principalTenant, closed, presented,
                         torn, tangled>>
      BY <1>2 DEF SignInFails, TransportGone, Returned, RefreshFails, Enrolled, remembered
    <2> QED
      BY <2>1, EndStep
  <1>3. CASE SignInRejected(t) \/ ApplyLogin(t) \/ ApplySso(t) \/ ApplyDevice(t)
             \/ ApplyLogout(t)
    BY <1>3, ApplySteps
  <1>4. CASE RequestCall(t) \/ ExplicitRefresh(t) \/ EnrolSelf(t)
    BY <1>4, BeginSteps
  <1>5. CASE Transfer(t) \/ Unauthorized(t) \/ RefreshSent(t) \/ Refreshed(t)
    BY <1>5, TransferStep, UnauthorizedStep, RefreshSentStep, RefreshedStep
  <1> QED
    BY <1>1, <1>2, <1>3, <1>4, <1>5 DEF SessionStep

LEMMA StepSession == SessionInv /\ [SessionNext]_sessionVars => SessionInv'
  <1> SUFFICES ASSUME SessionInv, [SessionNext]_sessionVars PROVE SessionInv'
    OBVIOUS
  <1>1. CASE UNCHANGED sessionVars
    BY <1>1, StutterStep
  <1>2. CASE Close \/ Release
    BY <1>2, CloseSteps
  <1>3. ASSUME NEW t \in Threads, SessionStep(t)
        PROVE  SessionInv'
    BY <1>3, ThreadStep
  <1>4. ASSUME NEW t \in Threads,
               \/ \E u \in Users : SessionCall(t, "login", u) \/ SessionCall(t, "sso", u)
               \/ SessionCall(t, "device", Device) \/ SessionCall(t, "logout", NoUser)
        PROVE  SessionInv'
    <2>1. PICK op \in SessionOps, u \in Principals : SessionCall(t, op, u)
      BY <1>4 DEF SessionOps, Principals
    <2> QED
      BY <2>1, SessionCallStep
  <1> QED
    BY <1>1, <1>2, <1>3, <1>4 DEF SessionNext

LEMMA SessionInductive == SessionSpec => []SessionInv
  BY InitSession, StepSession, PTL DEF SessionSpec

-----------------------------------------------------------------------------
\* Whatever sequence of logins, SSO completions, device authentications and
\* logouts any threads went through, a request nothing ran beside is taken for
\* the principal the last of them left, be it by cookies whose sign-in was then
\* rejected; and until one is, the login result is that principal's or unknown.
THEOREM RequestsRunAsTheLastSession == SessionSpec => []RequestsRunAsLastSession
  <1>1. SessionInv => RequestsRunAsLastSession
    BY DEF SessionInv
  <1> QED
    BY <1>1, SessionInductive, PTL

\* A refresh a 401 asked for, and nothing ran beside, is sent for a session that
\* is held, by its cookies: never with a device's bearer, never for a session that
\* was ended.
THEOREM RefreshesSpendTheSession == SessionSpec => []RefreshSpendsTheSession
  <1>1. SessionInv => RefreshSpendsTheSession
    BY DEF SessionInv, Refreshes, Held, RefreshSpendsTheSession
  <1> QED
    BY <1>1, SessionInductive, PTL

-----------------------------------------------------------------------------
(* The refresh flights of an OIDC client. *)

Redemptions == [token : Tokens \cup {"none"}, scope : Scopes \cup {"none"}, flight : Nat,
          late : BOOLEAN]

FlightPlaces == {"idle", "calling", "waiting", "granting", "granted", "failed"}

\* At the server, or back from it with an outcome not yet published.
Leading(c) == opc[c] \in {"granting", "granted", "failed"}

FlightTypes ==
    /\ asks \in Nat
    /\ ride \in [Askers -> Redemptions] /\ opc \in [Askers -> FlightPlaces]
    /\ flights \in [Tokens -> Nat]

\* A call under way holds a token, and the number of a flight it may lead.
Equipped ==
    \A c \in Askers : opc[c] # "idle" =>
        ride[c].token \in Tokens /\ ride[c].flight # NoFlight

\* A leader's flight is linked under its token: whoever comes now follows it.
Linked == \A c \in Askers : Leading(c) => flights[ride[c].token] # NoFlight

\* A link names a flight that somebody leads, and only he.
OneLeader ==
    \A c, d \in Askers : Leading(c) /\ Leading(d) /\ ride[c].token = ride[d].token => c = d

FlightInv == FlightTypes /\ Equipped /\ Linked /\ OneLeader /\ OnlyLateCallersPresentSpent

LEMMA InitFlight == OidcInit => FlightInv
  <1> SUFFICES ASSUME OidcInit PROVE FlightInv
    OBVIOUS
  <1>1. NotCalling \in Redemptions
    BY DEF NotCalling, Redemptions, NoFlight
  <1>2. FlightTypes
    BY <1>1 DEF OidcInit, FlightTypes, FlightPlaces, NoFlight
  <1>3. \A c \in Askers : opc[c] = "idle"
    BY DEF OidcInit
  <1> QED
    BY <1>2, <1>3 DEF FlightInv, Equipped, Linked, OneLeader, OnlyLateCallersPresentSpent, Leading

\* What one caller's step leaves alone: where the others are, and their calls.
LEMMA OtherFlightsStay ==
    ASSUME FlightTypes, NEW c \in Askers, NEW from \in FlightPlaces, NEW to \in FlightPlaces, Turn(c, from, to)
    PROVE  /\ opc[c] = from /\ opc' \in [Askers -> FlightPlaces] /\ opc'[c] = to
           /\ \A d \in Askers : d # c => opc'[d] = opc[d]
  BY DEF FlightTypes, Turn

LEMMA FlightCallStep ==
    ASSUME FlightInv, NEW c \in Askers, RefreshCall(c)
    PROVE  FlightInv'
  <1>1. PICK k \in Tokens, s \in Scopes :
          ride' = [ride EXCEPT ![c] = [token |-> k, scope |-> s, flight |-> asks',
                                       late |-> FALSE]]
    BY DEF RefreshCall
  <1>2. /\ asks \in Nat /\ asks' = asks + 1 /\ Turn(c, "idle", "calling")
        /\ UNCHANGED <<flights, spent>>
    BY DEF RefreshCall, FlightInv, FlightTypes
  <1>3. asks' \in Nat /\ asks' # NoFlight
    BY <1>2 DEF NoFlight
  <1>4. /\ opc' \in [Askers -> FlightPlaces] /\ opc'[c] = "calling"
        /\ \A d \in Askers : d # c => opc'[d] = opc[d]
    BY <1>2, OtherFlightsStay DEF FlightInv, FlightPlaces
  <1>5. [token |-> k, scope |-> s, flight |-> asks', late |-> FALSE] \in Redemptions
    BY <1>3 DEF Redemptions
  <1>6. /\ ride' \in [Askers -> Redemptions]
        /\ ride'[c] = [token |-> k, scope |-> s, flight |-> asks', late |-> FALSE]
        /\ \A d \in Askers : d # c => ride'[d] = ride[d]
    BY <1>1, <1>5 DEF FlightInv, FlightTypes
  <1>7. FlightTypes'
    BY <1>2, <1>3, <1>4, <1>6 DEF FlightInv, FlightTypes
  <1>8. Equipped'
    BY <1>3, <1>4, <1>6 DEF FlightInv, Equipped
  <1>9. Linked' /\ OneLeader' /\ OnlyLateCallersPresentSpent'
    BY <1>2, <1>4, <1>6 DEF FlightInv, Linked, OneLeader, OnlyLateCallersPresentSpent, Leading
  <1> QED
    BY <1>7, <1>8, <1>9 DEF FlightInv

LEMMA FollowStep ==
    ASSUME FlightInv, NEW c \in Askers, Follow(c)
    PROVE  FlightInv'
  <1>1. /\ Turn(c, "calling", "waiting") /\ flights[ride[c].token] # NoFlight
        /\ ride' = [ride EXCEPT ![c].flight = flights[ride[c].token]]
        /\ UNCHANGED <<flights, spent, asks>>
    BY DEF Follow, Shared
  <1>2. /\ opc[c] = "calling" /\ opc' \in [Askers -> FlightPlaces] /\ opc'[c] = "waiting"
        /\ \A d \in Askers : d # c => opc'[d] = opc[d]
    BY <1>1, OtherFlightsStay DEF FlightInv, FlightPlaces
  <1>3. ride[c] \in Redemptions /\ ride[c].token \in Tokens /\ flights[ride[c].token] \in Nat
    BY <1>2 DEF FlightInv, FlightTypes, Equipped
  <1>4. /\ ride' \in [Askers -> Redemptions] /\ ride'[c].token = ride[c].token
        /\ ride'[c].flight = flights[ride[c].token]
        /\ \A d \in Askers : d # c => ride'[d] = ride[d]
    BY <1>1, <1>3 DEF FlightInv, FlightTypes, Redemptions
  <1>5. FlightTypes'
    BY <1>1, <1>2, <1>4 DEF FlightInv, FlightTypes
  <1>6. Equipped'
    BY <1>1, <1>2, <1>3, <1>4 DEF FlightInv, Equipped
  <1>7. Linked' /\ OneLeader' /\ OnlyLateCallersPresentSpent'
    BY <1>1, <1>2, <1>4 DEF FlightInv, Linked, OneLeader, OnlyLateCallersPresentSpent, Leading
  <1> QED
    BY <1>5, <1>6, <1>7 DEF FlightInv

\* Nobody leads the token's flight, so its new leader is the only one; if the
\* token is spent, it was before he looked.
LEMMA LeadStep ==
    ASSUME FlightInv, NEW c \in Askers, Lead(c)
    PROVE  FlightInv'
  <1>1. /\ Turn(c, "calling", "granting") /\ flights[ride[c].token] = NoFlight
        /\ flights' = [flights EXCEPT ![ride[c].token] = ride[c].flight]
        /\ ride' = [ride EXCEPT ![c].late = ride[c].token \in spent]
        /\ UNCHANGED <<spent, asks>>
    BY DEF Lead, Shared
  <1>2. /\ opc[c] = "calling" /\ opc' \in [Askers -> FlightPlaces] /\ opc'[c] = "granting"
        /\ \A d \in Askers : d # c => opc'[d] = opc[d]
    BY <1>1, OtherFlightsStay DEF FlightInv, FlightPlaces
  <1>3. ride[c] \in Redemptions /\ ride[c].token \in Tokens /\ ride[c].flight # NoFlight
    BY <1>2 DEF FlightInv, FlightTypes, Equipped
  <1>4. (ride[c].token \in spent) \in BOOLEAN
    OBVIOUS
  <1>5. /\ ride' \in [Askers -> Redemptions] /\ ride'[c].token = ride[c].token
        /\ ride'[c].flight = ride[c].flight
        /\ ride'[c].late = (ride[c].token \in spent)
        /\ \A d \in Askers : d # c => ride'[d] = ride[d]
    BY <1>1, <1>3, <1>4 DEF FlightInv, FlightTypes, Redemptions
  <1>6. /\ flights' \in [Tokens -> Nat] /\ flights'[ride[c].token] # NoFlight
        /\ \A k \in Tokens : k # ride[c].token => flights'[k] = flights[k]
    BY <1>1, <1>3 DEF FlightInv, FlightTypes, Redemptions
  <1>7. \A d \in Askers : Leading(d) => d # c /\ ride[d].token # ride[c].token
    BY <1>1, <1>2 DEF FlightInv, Linked, Leading
  <1>8. \A d \in Askers : d # c /\ Leading(d)' => Leading(d) /\ ride[d].token \in Tokens
    BY <1>2 DEF Leading, FlightInv, Equipped
  <1>9. FlightTypes'
    BY <1>1, <1>2, <1>5, <1>6 DEF FlightInv, FlightTypes
  <1>10. Equipped'
    BY <1>2, <1>3, <1>5 DEF FlightInv, Equipped
  <1>11. Linked'
    BY <1>5, <1>6, <1>7, <1>8 DEF FlightInv, Linked
  <1>12. OneLeader'
    BY <1>5, <1>7, <1>8 DEF FlightInv, OneLeader
  <1>13. OnlyLateCallersPresentSpent'
    BY <1>1, <1>2, <1>5 DEF FlightInv, OnlyLateCallersPresentSpent
  <1> QED
    BY <1>9, <1>10, <1>11, <1>12, <1>13 DEF FlightInv

\* The token a leader spends is no other leader's.
LEMMA SpendStep ==
    ASSUME FlightInv, NEW c \in Askers, NEW to \in {"granted", "failed"}, Turn(c, "granting", to),
           spent' \in {spent, spent \cup {ride[c].token}}, UNCHANGED <<flights, ride, asks>>
    PROVE  FlightInv'
  <1>1. /\ opc[c] = "granting" /\ opc' \in [Askers -> FlightPlaces] /\ opc'[c] = to
        /\ \A d \in Askers : d # c => opc'[d] = opc[d]
    BY OtherFlightsStay DEF FlightInv, FlightPlaces
  <1>2. FlightTypes'
    BY <1>1 DEF FlightInv, FlightTypes
  <1>3. Equipped' /\ Linked' /\ OneLeader'
    BY <1>1 DEF FlightInv, Equipped, Linked, OneLeader, Leading
  <1>4. ASSUME NEW d \in Askers, opc'[d] = "granting", ride[d].token \in spent'
        PROVE  ride[d].late
    <2>1. d # c /\ opc[d] = "granting"
      BY <1>1, <1>4
    <2>2. ride[d].token # ride[c].token
      BY <1>1, <2>1 DEF FlightInv, OneLeader, Leading
    <2>3. ride[d].token \in spent
      BY <1>4, <2>2
    <2> QED
      BY <2>1, <2>3 DEF FlightInv, OnlyLateCallersPresentSpent
  <1> QED
    BY <1>2, <1>3, <1>4 DEF FlightInv, OnlyLateCallersPresentSpent

LEMMA PublishStep ==
    ASSUME FlightInv, NEW c \in Askers, NEW from \in {"granted", "failed"}, NEW result,
           Settle(c, from, result)
    PROVE  FlightInv'
  <1>1. /\ Turn(c, from, "idle") /\ flights' = [flights EXCEPT ![ride[c].token] = NoFlight]
        /\ ride' = [ride EXCEPT ![c] = NotCalling]
        /\ UNCHANGED <<spent, asks>>
    BY DEF Settle
  <1>2. /\ opc[c] = from /\ opc' \in [Askers -> FlightPlaces] /\ opc'[c] = "idle"
        /\ \A d \in Askers : d # c => opc'[d] = opc[d]
    BY <1>1, OtherFlightsStay DEF FlightInv, FlightPlaces
  <1>3. ride[c].token \in Tokens
    BY <1>2 DEF FlightInv, Equipped
  <1>4. NotCalling \in Redemptions
    BY DEF NotCalling, Redemptions, NoFlight
  <1>5. ride' \in [Askers -> Redemptions] /\ \A d \in Askers : d # c => ride'[d] = ride[d]
    BY <1>1, <1>4 DEF FlightInv, FlightTypes
  <1>6. /\ flights' \in [Tokens -> Nat]
        /\ \A k \in Tokens : k # ride[c].token => flights'[k] = flights[k]
    BY <1>1, <1>3 DEF FlightInv, FlightTypes, NoFlight
  <1>7. \A d \in Askers : Leading(d)' => d # c /\ Leading(d) /\ ride[d].token \in Tokens
    BY <1>2 DEF Leading, FlightInv, Equipped
  <1>8. \A d \in Askers : Leading(d)' => ride[d].token # ride[c].token
    BY <1>2, <1>7 DEF FlightInv, OneLeader, Leading
  <1>9. FlightTypes'
    BY <1>1, <1>2, <1>5, <1>6 DEF FlightInv, FlightTypes
  <1>10. Equipped'
    BY <1>2, <1>5 DEF FlightInv, Equipped
  <1>11. Linked'
    BY <1>5, <1>6, <1>7, <1>8 DEF FlightInv, Linked
  <1>12. OneLeader'
    BY <1>5, <1>7 DEF FlightInv, OneLeader
  <1>13. OnlyLateCallersPresentSpent'
    BY <1>1, <1>2, <1>5 DEF FlightInv, OnlyLateCallersPresentSpent
  <1> QED
    BY <1>9, <1>10, <1>11, <1>12, <1>13 DEF FlightInv

LEMMA HeardStep ==
    ASSUME FlightInv, NEW c \in Askers, Heard(c)
    PROVE  FlightInv'
  <1>1. /\ Turn(c, "waiting", "idle") /\ ride' = [ride EXCEPT ![c] = NotCalling]
        /\ UNCHANGED <<flights, spent, asks>>
    BY DEF Heard
  <1>2. /\ opc' \in [Askers -> FlightPlaces] /\ opc'[c] = "idle"
        /\ \A d \in Askers : d # c => opc'[d] = opc[d]
    BY <1>1, OtherFlightsStay DEF FlightInv, FlightPlaces
  <1>3. NotCalling \in Redemptions
    BY DEF NotCalling, Redemptions, NoFlight
  <1>4. ride' \in [Askers -> Redemptions] /\ \A d \in Askers : d # c => ride'[d] = ride[d]
    BY <1>1, <1>3 DEF FlightInv, FlightTypes
  <1>5. FlightTypes'
    BY <1>1, <1>2, <1>4 DEF FlightInv, FlightTypes
  <1> QED
    BY <1>1, <1>2, <1>4, <1>5
    DEF FlightInv, Equipped, Linked, OneLeader, OnlyLateCallersPresentSpent, Leading

LEMMA StepFlight == FlightInv /\ [OidcNext]_oidcVars => FlightInv'
  <1> SUFFICES ASSUME FlightInv, [OidcNext]_oidcVars PROVE FlightInv'
    OBVIOUS
  <1>1. CASE UNCHANGED oidcVars
    BY <1>1 DEF oidcVars, FlightInv, FlightTypes, Equipped, Linked, OneLeader,
                OnlyLateCallersPresentSpent, Leading
  <1>2. CASE OidcNext
    <2>1. PICK c \in Askers : RefreshCall(c) \/ OidcStep(c)
      BY <1>2 DEF OidcNext
    <2>2. CASE RefreshCall(c) \/ Follow(c) \/ Lead(c) \/ Heard(c)
      BY <2>2, FlightCallStep, FollowStep, LeadStep, HeardStep
    <2>3. CASE Granted(c)
      <3>1. /\ Turn(c, "granting", "granted") /\ UNCHANGED <<flights, ride, asks>>
            /\ spent' \in {spent, spent \cup {ride[c].token}}
        BY <2>3 DEF Granted
      <3> QED
        BY <3>1, SpendStep
    <2>4. CASE GrantFails(c)
      <3>1. /\ Turn(c, "granting", "failed") /\ UNCHANGED <<flights, ride, asks>>
            /\ spent' \in {spent, spent \cup {ride[c].token}}
        BY <2>4 DEF GrantFails
      <3> QED
        BY <3>1, SpendStep
    <2>5. CASE Settle(c, "granted", "ok") \/ Settle(c, "failed", "error")
      BY <2>5, PublishStep
    <2> QED
      BY <2>1, <2>2, <2>3, <2>4, <2>5 DEF OidcStep
  <1> QED
    BY <1>1, <1>2

-----------------------------------------------------------------------------
\* §9 rule 2, for any callers and tokens: a refresh token that was spent is
\* presented only by a caller that found it spent when it took the lock, never
\* by the loser of a race.
THEOREM NoRacerPresentsSpent == OidcSpec => []OnlyLateCallersPresentSpent
  <1>1. FlightInv => OnlyLateCallersPresentSpent
    BY DEF FlightInv
  <1> QED
    BY <1>1, InitFlight, StepFlight, PTL DEF OidcSpec
=============================================================================
