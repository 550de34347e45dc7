--------------------------- MODULE ClientSession ---------------------------
(***************************************************************************)
(* The credential a Client presents, and what it remembers of whose it is  *)
(* (src/src/client.cpp, client_impl.hpp, oidc.cpp).                        *)
(*                                                                         *)
(* The credential is a cookie jar the transport keeps, or the bearer of an *)
(* authenticated device, which withholds the jar.  Beside it the client    *)
(* remembers, under state_mtx, whether a session is held and what its last *)
(* login reported.  Copies of a Client share all of it: Threads are their  *)
(* threads.  A principal stands for its tenant.  The refresh guard is      *)
(* RefreshGuard's; here a refresh is one exchange of one caller.           *)
(***************************************************************************)
EXTENDS Naturals, FiniteSets

CONSTANTS
    Threads,
    Users,        \* principals that sign in
    Device,       \* the principal of the client certificate
    MaxSessions,  \* bound: operations that establish or end a session
    MaxRequests   \* bound: the other calls

ASSUME SessionAssumption == Device \notin Users /\ Device # "nobody"

VARIABLES
    jar,              \* whose cookies the shared jar holds
    session,          \* session
    device,           \* device_access_token, device_session
    loginUser,        \* login_user_info
    principalTenant,  \* principal_tenant_id; resolved_tenant_id moves with it
    closed,           \* closed, and then transport gone
    cpc,              \* where each thread's call is
    call,             \* its request and what the properties remember of it
    presented,        \* the principals the last session operation allows
    torn,             \* a sign-in was rejected with its cookies already in the jar
    tangled,          \* session operations or refreshes have overlapped
    counts            \* session operations and requests so far

remembered == <<session, device, loginUser, principalTenant>>
sessionVars == <<jar, remembered, closed, cpc, call, presented, torn, tangled, counts>>

NoUser == "nobody"
SessionOps == {"login", "sso", "device", "logout"}

\* op; who signs in; the bearer it was built with; whom the server took it for;
\* crossed: a session operation ran beside it; again: it is the retry.
NoCall == [op |-> "none", user |-> NoUser, bearer |-> NoUser, as |-> NoUser,
           crossed |-> FALSE, again |-> FALSE]

SessionInit ==
    /\ jar = NoUser /\ session = FALSE /\ device = NoUser
    /\ loginUser = NoUser /\ principalTenant = NoUser
    /\ closed = "open"
    /\ cpc = [t \in Threads |-> "idle"] /\ call = [t \in Threads |-> NoCall]
    /\ presented = {NoUser} /\ torn = FALSE /\ tangled = FALSE
    /\ counts = [sessions |-> 0, requests |-> 0]

Goes(t, from, to) == cpc[t] = from /\ cpc' = [cpc EXCEPT ![t] = to]
Ends(t) == cpc' = [cpc EXCEPT ![t] = "idle"] /\ call' = [call EXCEPT ![t] = NoCall]

\* A call that may write the jar.
Writes(t) == cpc[t] = "refreshing" \/ (cpc[t] # "idle" /\ call[t].op \in SessionOps)

-----------------------------------------------------------------------------
(* Session operations: ensure_open, the wire, then one section of state_mtx. *)

\* build_request: the bearer of an authenticated device, which
\* authenticate_device itself does not send.
SessionCall(t, op, u) ==
    /\ Goes(t, "idle", "asking")
    /\ closed = "open" /\ counts.sessions < MaxSessions
    /\ call' = [s \in Threads |->
                  IF s # t THEN [call[s] EXCEPT !.crossed = cpc[s] # "idle"]
                  ELSE [NoCall EXCEPT !.op = op, !.user = u,
                            !.bearer = IF op = "device" THEN NoUser ELSE device]]
    /\ tangled' = (tangled \/ \E s \in Threads : Writes(s))
    /\ counts' = [counts EXCEPT !.sessions = @ + 1]
    /\ UNCHANGED <<jar, remembered, closed, presented, torn>>

\* login, verify_mfa, login_opaque and the WebAuthn finishes: 200, the cookies
\* of the session in the jar, kept from a handle of its own if there is a bearer.
SignedIn(t) ==
    /\ Goes(t, "asking", "applying")
    /\ call[t].op \in {"login", "sso"} /\ closed # "released"
    /\ jar' = call[t].user
    /\ UNCHANGED <<remembered, closed, call, presented, torn, tangled, counts>>

\* The response's cookies are not kept: no_stored_cookies, and it sets none.
DeviceKnown(t) ==
    /\ Goes(t, "asking", "applying")
    /\ call[t].op = "device" /\ closed # "released"
    /\ UNCHANGED <<jar, remembered, closed, call, presented, torn, tangled, counts>>

\* The server ends the session of the request and expires its cookies; or the
\* exchange fails, which logout ignores.
LoggedOut(t) ==
    /\ Goes(t, "asking", "applying")
    /\ call[t].op = "logout"
    /\ \/ closed # "released" /\ call[t].bearer = NoUser /\ jar' = NoUser
       \/ UNCHANGED jar
    /\ UNCHANGED <<remembered, closed, call, presented, torn, tangled, counts>>

\* Refused, or stopped short for a second factor: nothing changes.
SignInFails(t) ==
    /\ cpc[t] = "asking" /\ call[t].op # "logout"
    /\ Ends(t)
    /\ UNCHANGED <<jar, remembered, closed, presented, torn, tangled, counts>>

\* A 2xx whose body is malformed throws after the transport has stored its
\* cookies: the jar is the new session's, and what is remembered stays.
SignInRejected(t) ==
    /\ cpc[t] = "applying" /\ call[t].op \in {"login", "sso"} /\ Ends(t)
    /\ presented' = {IF device = NoUser THEN jar ELSE device} /\ torn' = TRUE
    /\ UNCHANGED <<jar, remembered, closed, tangled, counts>>

\* A login whose response carries its user and the tenant of its account, or
\* not: then the tenant stays.
ApplyLogin(t) ==
    /\ cpc[t] = "applying" /\ call[t].op = "login" /\ Ends(t)
    /\ session' = TRUE /\ device' = NoUser
    /\ \/ loginUser' = call[t].user /\ principalTenant' \in {call[t].user, principalTenant}
       \/ loginUser' = NoUser /\ UNCHANGED principalTenant
    /\ presented' = {call[t].user} /\ torn' = FALSE
    /\ UNCHANGED <<jar, closed, tangled, counts>>

\* Mutant: an SSO completion keeps the device credential.
SsoKeepsDevice(t) == loginUser' = NoUser /\ UNCHANGED <<session, device, principalTenant>>

\* SsoLoginSuccessResponse reports no user: the gate is unknown, not stale.
ForgetForSso(t) ==
    loginUser' = NoUser /\ device' = NoUser /\ UNCHANGED <<session, principalTenant>>

ApplySso(t) ==
    /\ cpc[t] = "applying" /\ call[t].op = "sso" /\ Ends(t)
    /\ ForgetForSso(t)
    /\ presented' = {call[t].user} /\ torn' = FALSE
    /\ UNCHANGED <<jar, closed, tangled, counts>>

AdoptDevice(t) ==
    device' = Device /\ loginUser' = NoUser /\ UNCHANGED <<session, principalTenant>>

ApplyDevice(t) ==
    /\ cpc[t] = "applying" /\ call[t].op = "device" /\ Ends(t)
    /\ AdoptDevice(t)
    /\ presented' = {Device} /\ torn' = FALSE
    /\ UNCHANGED <<jar, closed, tangled, counts>>

\* What is left in the jar may still be presented, were the server not told.
ApplyLogout(t) ==
    /\ cpc[t] = "applying" /\ call[t].op = "logout" /\ Ends(t)
    /\ session' = FALSE /\ device' = NoUser /\ loginUser' = NoUser
    /\ presented' = {jar} /\ torn' = FALSE
    /\ UNCHANGED <<jar, principalTenant, closed, tangled, counts>>

-----------------------------------------------------------------------------
(* Requests, the refresh a 401 asks for, and the enrolment of one's own password. *)

\* A session operation is under way.
Beside == \E s \in Threads : cpc[s] # "idle" /\ call[s].op \in SessionOps

RequestCall(t) ==
    /\ Goes(t, "idle", "built")
    /\ closed = "open" /\ counts.requests < MaxRequests
    /\ call' = [call EXCEPT ![t] = [NoCall EXCEPT !.op = "request", !.bearer = device,
                    !.crossed = Beside]]
    /\ counts' = [counts EXCEPT !.requests = @ + 1]
    /\ UNCHANGED <<jar, remembered, closed, presented, torn, tangled>>

\* The transport adds the jar's cookies, unless the request has a bearer.
Transfer(t) ==
    /\ closed # "released" /\ Goes(t, "built", "answered")
    /\ call' = [call EXCEPT ![t].as = IF call[t].bearer = NoUser THEN jar ELSE call[t].bearer]
    /\ UNCHANGED <<jar, remembered, closed, presented, torn, tangled, counts>>

\* The transport was dropped by close(): the call cannot be sent.
TransportGone(t) ==
    /\ closed = "released" /\ cpc[t] \in {"built", "refreshing"} /\ Ends(t)
    /\ UNCHANGED <<jar, remembered, closed, presented, torn, tangled, counts>>

\* Answered; or 401 with no session to refresh, or for the retry.
Returned(t) ==
    /\ cpc[t] = "answered" /\ Ends(t)
    /\ UNCHANGED <<jar, remembered, closed, presented, torn, tangled, counts>>

\* refresh() and refresh_async(): whatever is held is refreshed, a session or not.
\* The latter does not ask whether the client is closed.
ExplicitRefresh(t) ==
    /\ Goes(t, "idle", "expired")
    /\ counts.requests < MaxRequests
    /\ call' = [call EXCEPT ![t] = [NoCall EXCEPT !.op = "refresh", !.crossed = Beside]]
    /\ counts' = [counts EXCEPT !.requests = @ + 1]
    /\ UNCHANGED <<jar, remembered, closed, presented, torn, tangled>>

\* Mutant: a session counts even while a device is the credential.
SessionHeld == session

HaveSession == session /\ device = NoUser

\* 401: have_session is read under state_mtx, and then the refresh is built.
Unauthorized(t) ==
    /\ Goes(t, "answered", "expired")
    /\ ~call[t].again /\ HaveSession
    /\ UNCHANGED <<jar, remembered, closed, call, presented, torn, tangled, counts>>

RefreshSent(t) ==
    /\ Goes(t, "expired", "refreshing")
    /\ call' = [call EXCEPT ![t].bearer = device,
                            ![t].as = IF device # NoUser THEN device ELSE jar]
    /\ tangled' = (tangled \/ \E s \in Threads \ {t} : Writes(s))
    /\ UNCHANGED <<jar, remembered, closed, presented, torn, counts>>

\* The rotated cookies are those of the session that was sent; then the request
\* the 401 answered is built once more.
Refreshed(t) ==
    /\ cpc[t] = "refreshing"
    /\ call[t].bearer = NoUser /\ call[t].as # NoUser /\ closed # "released"
    /\ jar' = call[t].as
    /\ \/ call[t].op = "refresh" /\ Ends(t)
       \/ /\ call[t].op = "request" /\ Goes(t, "refreshing", "built")
          /\ call' = [call EXCEPT ![t].bearer = device, ![t].again = TRUE]
    /\ UNCHANGED <<remembered, closed, presented, torn, tangled, counts>>

RefreshFails(t) ==
    /\ cpc[t] = "refreshing" /\ Ends(t)
    /\ UNCHANGED <<jar, remembered, closed, presented, torn, tangled, counts>>

\* opaque_enrollment_for_self: refused until a login has reported a tenant; the
\* tenant of the last one that did is named.
EnrolSelf(t) ==
    /\ Goes(t, "idle", "enrolling")
    /\ closed = "open" /\ counts.requests < MaxRequests
    /\ principalTenant # NoUser
    /\ call' = [call EXCEPT ![t] = [NoCall EXCEPT !.op = "enrol", !.user = principalTenant,
                    !.crossed = Beside]]
    /\ counts' = [counts EXCEPT !.requests = @ + 1]
    /\ UNCHANGED <<jar, remembered, closed, presented, torn, tangled>>

Enrolled(t) ==
    /\ cpc[t] = "enrolling" /\ Ends(t)
    /\ UNCHANGED <<jar, remembered, closed, presented, torn, tangled, counts>>

-----------------------------------------------------------------------------
Close ==
    /\ closed = "open" /\ closed' = "closed" /\ session' = FALSE
    /\ UNCHANGED <<jar, device, loginUser, principalTenant, cpc, call, presented, torn, tangled,
                   counts>>

\* transport = Transport{}, under no lock.
Release ==
    /\ closed = "closed" /\ closed' = "released"
    /\ UNCHANGED <<jar, remembered, cpc, call, presented, torn, tangled, counts>>

SessionStep(t) ==
    \/ SignedIn(t) \/ DeviceKnown(t) \/ LoggedOut(t) \/ SignInFails(t)
    \/ SignInRejected(t) \/ ApplyLogin(t) \/ ApplySso(t) \/ ApplyDevice(t) \/ ApplyLogout(t)
    \/ RequestCall(t) \/ ExplicitRefresh(t) \/ Transfer(t) \/ TransportGone(t) \/ Returned(t)
    \/ Unauthorized(t) \/ RefreshSent(t) \/ Refreshed(t) \/ RefreshFails(t)
    \/ EnrolSelf(t) \/ Enrolled(t)

SessionNext ==
    \/ Close \/ Release
    \/ \E t \in Threads :
          \/ SessionStep(t)
          \/ \E u \in Users : SessionCall(t, "login", u) \/ SessionCall(t, "sso", u)
          \/ SessionCall(t, "device", Device) \/ SessionCall(t, "logout", NoUser)

SessionSpec == SessionInit /\ [][SessionNext]_sessionVars

-----------------------------------------------------------------------------
\* §6.1 rule 6, C-12 N4.4: whatever sequence of logins, SSO completions, device
\* authentications and logouts came before, a request no session operation ran
\* beside is taken for the principal of the last one that completed, or whose
\* cookies the transport stored before its body was rejected.
\* §5.2 rule 1: and the login result that gates acting_tenant() is never another
\* principal's; unknown is the only alternative.  Not so after a rejected body:
\* the result is then the session's before.
RequestsRunAsLastSession ==
    ~tangled =>
        /\ \A t \in Threads :
              cpc[t] = "answered" /\ ~call[t].crossed => call[t].as \in presented
        /\ torn \/ loginUser \in presented \cup {NoUser}

\* §9 and §6.1 rule 6: the refresh a 401 asks for is sent for a session that is
\* held, with its cookies and no device bearer, unless a session operation or a
\* close ran between the two.  refresh() itself asks neither.
RefreshSpendsTheSession ==
    \A t \in Threads :
        cpc[t] = "refreshing" /\ call[t].op = "request" /\ ~call[t].crossed =>
            call[t].bearer = NoUser /\ (session \/ closed # "open")

\* src/include/axiam/client.hpp:353: the record for the caller's own password is sealed
\* against the tenant the caller's account lives in.
EnrolmentNamesOwnTenant ==
    ~tangled /\ ~torn => \A t \in Threads :
        cpc[t] = "enrolling" /\ ~call[t].crossed => call[t].user \in presented
=============================================================================
