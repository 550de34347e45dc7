---------------------------- MODULE AccessCheck ----------------------------
(***************************************************************************)
(* Client::check_access (src/src/client.cpp) with the retry and refresh    *)
(* loop below it, Impl::execute_retrying (src/src/client_impl.hpp), over   *)
(* the decision memo, while another thread logs in, logs out or changes    *)
(* the acting tenant.                                                      *)
(*                                                                         *)
(* Each step is one section under a lock, one request or one answer.  A    *)
(* question stands for (subject_id, resource_id, action, scope).  A        *)
(* decision is what the server answered it about: who was asking and on    *)
(* which tenant.  The memo's clock advances on its own.                    *)
(***************************************************************************)
EXTENDS DecisionMemo

CONSTANTS
    Checkers,      \* threads calling check_access
    Questions,     \* what they ask
    Principals,    \* whose session the cookie jar can hold
    Nobody,        \* the jar holds no session
    Tenants,       \* acting tenants
    NoTenant,      \* acting_tenant_id is empty
    MaxChecks,     \* bound: checks asked in one behaviour
    MaxChanges,    \* bound: logins, logouts and acting-tenant changes
    MaxNow         \* bound: ticks of the clock

VARIABLES
    pc,            \* where each checker is
    op,            \* the locals of each check
    jar,           \* whose session cookies the transport sends
    session,       \* Impl::session
    acting,        \* Impl::acting_tenant_id
    change,        \* where the thread that changes credentials is
    answer,        \* each checker's last answer: from the memo, and its age
    checks,        \* checks asked so far
    changes        \* credential changes begun so far

clientVars == <<jar, session, acting, change, changes>>
vars == <<pc, op, memo, now, clientVars, answer, checks>>

\* kRetryMaxAttempts
RetryMaxAttempts == 3

Nothing == [who |-> Nobody, tenant |-> NoTenant, whoRaced |-> FALSE,
            tenantRaced |-> FALSE]

Fresh(q) ==
    [key |-> <<q, acting>>, attempt |-> 1, refreshed |-> FALSE,
     seen |-> Nothing,
     whoRaced |-> change # "none", tenantRaced |-> FALSE]

NoAnswer == [from |-> "none", age |-> 0]

NoOp == [key |-> <<>>, attempt |-> 1, refreshed |-> FALSE,
         seen |-> Nothing, whoRaced |-> FALSE, tenantRaced |-> FALSE]

Active(c) == pc[c] # "idle"

\* What the properties remember of a race: the credentials, or the acting
\* tenant, changed while the check was under way.
MarkWho == [c \in Checkers |-> IF Active(c) THEN [op[c] EXCEPT !.whoRaced = TRUE]
                               ELSE op[c]]
MarkTenant == [c \in Checkers |->
                  IF Active(c) THEN [op[c] EXCEPT !.tenantRaced = TRUE]
                  ELSE op[c]]

Init ==
    /\ pc = [c \in Checkers |-> "idle"]
    /\ op = [c \in Checkers |-> NoOp]
    /\ memo = Cleared /\ now = 0
    /\ jar \in Principals /\ session = TRUE
    /\ acting = NoTenant
    /\ change = "none"
    /\ answer = [c \in Checkers |-> NoAnswer]
    /\ checks = 0 /\ changes = 0

Goto(c, from, to) == pc[c] = from /\ pc' = [pc EXCEPT ![c] = to]

Finish(c, from, a) ==
    /\ pc[c] = from
    /\ pc' = [pc EXCEPT ![c] = "idle"]
    /\ op' = [op EXCEPT ![c] = NoOp]
    /\ answer' = [answer EXCEPT ![c] = a]

-----------------------------------------------------------------------------
\* check_access up to the memo: the acting tenant is read under state_mtx and
\* folded into the key.
Ask(c, q) ==
    /\ checks < MaxChecks
    /\ Goto(c, "idle", IF Enabled THEN "lookup" ELSE "build")
    /\ op' = [op EXCEPT ![c] = Fresh(q)]
    /\ checks' = checks + 1
    /\ UNCHANGED <<memo, now, clientVars, answer>>

\* memo->get(key) answers: no request at all.
LookupHit(c) ==
    LET k == op[c].key IN
    /\ Hit(k)
    /\ Finish(c, "lookup",
              [from |-> "memo", age |-> now - Cached(k).storedAt])
    /\ UNCHANGED <<memo, now, clientVars, checks>>

\* memo->get(key) answers nothing, and drops the entry it found expired.
LookupMiss(c) ==
    /\ Goto(c, "lookup", "build")
    /\ ~Hit(op[c].key)
    /\ memo' = AfterMiss(op[c].key)
    /\ UNCHANGED <<op, now, clientVars, answer, checks>>

\* build_request: the acting tenant is read again, under state_mtx.
BuildRequest(c) ==
    /\ Goto(c, "build", "send")
    /\ op' = [op EXCEPT ![c].seen.tenant = acting]
    /\ UNCHANGED <<memo, now, clientVars, answer, checks>>

\* send_raw: the transport attaches the cookies the jar holds now.
Send(c) ==
    /\ Goto(c, "send", "wire")
    /\ op' = [op EXCEPT ![c].seen.who = jar]
    /\ UNCHANGED <<memo, now, clientVars, answer, checks>>

\* 2xx: the server's decision arrives, is put in the memo and returned.
Decided(c) ==
    /\ Finish(c, "wire", NoAnswer)
    /\ memo' = AfterPut(op[c].key,
                        [op[c].seen EXCEPT !.whoRaced = op[c].whoRaced,
                                           !.tenantRaced = op[c].tenantRaced])
    /\ UNCHANGED <<now, clientVars, checks>>

\* Mutant: the attempt counter does not advance.
RetryForever(c) ==
    /\ ~op[c].refreshed
    /\ op[c].attempt < RetryMaxAttempts
    /\ Goto(c, "wire", "build")
    /\ UNCHANGED <<op, memo, now, clientVars, answer, checks>>

\* No answer, 408, 429 or 5xx, with budget left: wait and try again.
Retry(c) ==
    /\ ~op[c].refreshed
    /\ op[c].attempt < RetryMaxAttempts
    /\ Goto(c, "wire", "build")
    /\ op' = [op EXCEPT ![c].attempt = @ + 1]
    /\ UNCHANGED <<memo, now, clientVars, answer, checks>>

\* Anything else that is no decision: the budget is spent, the status is
\* decisive, or the one request after a refresh failed.
Fail(c) ==
    /\ Finish(c, "wire", NoAnswer)
    /\ UNCHANGED <<memo, now, clientVars, checks>>

\* 401 with a session: the single-flight refresh of module RefreshGuard.
Unauthorized(c) ==
    /\ Goto(c, "wire", "refresh")
    /\ ~op[c].refreshed /\ session
    /\ UNCHANGED <<op, memo, now, clientVars, answer, checks>>

RefreshFails(c) ==
    /\ Finish(c, "refresh", NoAnswer)
    /\ UNCHANGED <<memo, now, clientVars, checks>>

\* The refresh succeeds: the memo is cleared, one more request follows.
Refreshed(c) ==
    /\ Goto(c, "refresh", "build")
    /\ memo' = Cleared
    /\ op' = [op EXCEPT ![c].refreshed = TRUE]
    /\ UNCHANGED <<now, clientVars, answer, checks>>

-----------------------------------------------------------------------------
\* login, login_opaque, verify_mfa, logout: the caller's intent clears the
\* memo, before the wire.
Begin(kind) ==
    /\ change = "none" /\ changes < MaxChanges
    /\ change' = kind
    /\ changes' = changes + 1
    /\ op' = MarkWho

\* Mutant: login() leaves the memo alone.
LoginKeepsMemo ==
    /\ Begin("login")
    /\ UNCHANGED <<pc, memo, now, jar, session, acting, answer, checks>>

LoginBegin ==
    /\ Begin("login")
    /\ memo' = Cleared
    /\ UNCHANGED <<pc, now, jar, session, acting, answer, checks>>

\* The server answers: the new session's cookies are in the jar.
LoginAnswered ==
    /\ change = "login"
    /\ jar' \in Principals
    /\ change' = "login_install"
    /\ UNCHANGED <<pc, op, memo, now, session, acting, changes, answer, checks>>

LoginFails ==
    /\ change = "login"
    /\ change' = "none"
    /\ UNCHANGED <<pc, op, memo, now, jar, session, acting, changes, answer, checks>>

\* ... and the session is recorded under state_mtx.
LoginInstall ==
    /\ change = "login_install"
    /\ session' = TRUE
    /\ change' = "none"
    /\ UNCHANGED <<pc, op, memo, now, jar, acting, changes, answer, checks>>

LogoutBegin ==
    /\ Begin("logout")
    /\ memo' = Cleared
    /\ UNCHANGED <<pc, now, jar, session, acting, answer, checks>>

\* The answer expires the cookies; a failed logout leaves them, and is ignored.
LogoutAnswered ==
    /\ change = "logout"
    /\ jar' \in {jar, Nobody}
    /\ change' = "logout_clear"
    /\ UNCHANGED <<pc, op, memo, now, session, acting, changes, answer, checks>>

LogoutClear ==
    /\ change = "logout_clear"
    /\ session' = FALSE
    /\ change' = "none"
    /\ UNCHANGED <<pc, op, memo, now, jar, acting, changes, answer, checks>>

\* acting_tenant(t) past its gate, or clear_acting_tenant().
SetActing ==
    /\ change = "none" /\ changes < MaxChanges
    /\ \E t \in Tenants \cup {NoTenant} : t # acting /\ acting' = t
    /\ changes' = changes + 1
    /\ op' = MarkTenant
    /\ UNCHANGED <<pc, memo, now, jar, session, change, answer, checks>>

Tick ==
    /\ now < MaxNow
    /\ now' = now + 1
    /\ UNCHANGED <<pc, op, memo, clientVars, answer, checks>>

Done ==
    /\ \A c \in Checkers : ~Active(c)
    /\ checks = MaxChecks /\ changes = MaxChanges /\ change = "none"
    /\ now = MaxNow
    /\ UNCHANGED vars

Step(c) ==
    \/ LookupHit(c) \/ LookupMiss(c) \/ BuildRequest(c) \/ Send(c)
    \/ Decided(c) \/ Retry(c) \/ Fail(c) \/ Unauthorized(c)
    \/ RefreshFails(c) \/ Refreshed(c)

Changer ==
    \/ LoginBegin \/ LoginAnswered \/ LoginFails \/ LoginInstall
    \/ LogoutBegin \/ LogoutAnswered \/ LogoutClear \/ SetActing

Next ==
    \/ Done
    \/ Tick
    \/ Changer
    \/ \E c \in Checkers : Step(c) \/ \E q \in Questions : Ask(c, q)

Spec == Init /\ [][Next]_vars

\* A checker's thread runs, and the transport's total timeout ends its request.
FairSpec == Spec /\ \A c \in Checkers : WF_vars(Step(c))

-----------------------------------------------------------------------------
\* §17.1 rules 2, 6 and 8: the memo's map and its queue stay in step, within the cap
\* and in the order of the entries' ages, and what it answers is younger than the configured time to live and
\* than the ceiling, whatever was configured.
MemoIsSound ==
    /\ MemoWellFormed
    /\ \A c \in Checkers :
          answer[c].from = "memo" => answer[c].age < RequestedTtl /\ answer[c].age < MaxTtl

\* §17.1 rules 3 and 9, as far as the code carries them: a decision taken for
\* another principal, or for another acting tenant than the one it is filed
\* under, is in the memo only if the credentials changed or acting_tenant() was
\* called while its check was under way.  A quiet client never keeps one.
WrongDecisionsRaced ==
    \A k \in DOMAIN memo.entries :
        LET d == memo.entries[k].decision
        IN  /\ d.who # jar => d.whoRaced
            /\ d.tenant # k[2] => d.tenantRaced

\* A check that keeps meeting failures ends.
EveryCheckReturns == \A c \in Checkers : Active(c) ~> ~Active(c)

\* decision_memo.hpp:136-140 and §17.1 rule 9 as they stand: once a login is
\* over, no decision taken for a previous principal is left in the memo.
NoForeignDecision ==
    change = "none" =>
        \A k \in DOMAIN memo.entries : memo.entries[k].decision.who = jar
=============================================================================
