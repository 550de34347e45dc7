----------------------------- MODULE HandlePool -----------------------------
(***************************************************************************)
(* CurlTransport (src/src/http_curl.cpp): two pools of libcurl easy        *)
(* handles, the cookie jar the handles of the first pool share, and the    *)
(* cookie lock held across the window in which libcurl builds a header.    *)
(*                                                                         *)
(* A thread performs one request at a time.  Its steps are the sections    *)
(* under pool_mtx or plain_mtx, the waits on the condition variables, and  *)
(* the points at which libcurl calls back or uses the connection.  Which   *)
(* of the idle handles is taken is left open; the code takes the last.     *)
(***************************************************************************)
EXTENDS Integers, FiniteSets

CONSTANTS
    Workers,                \* threads calling perform()
    Requests,               \* requests they make: see RequestType
    MaxConcurrentRequests,  \* TlsConfig::max_concurrent_requests
    CookieListRace,         \* Impl::cookie_list_race: the runtime libcurl has the race
    Watched,                \* the threads, all alike, EveryRequestReturns is checked for
    MaxRequests             \* bound: requests made in one behaviour

ASSUME PoolAssumption ==
    /\ MaxConcurrentRequests \in Nat /\ CookieListRace \in BOOLEAN
    /\ "nobody" \notin Workers

RequestType == [oauth2 : BOOLEAN, sessionless : BOOLEAN, no_stored_cookies : BOOLEAN,
                write : BOOLEAN, replayable : BOOLEAN]

ASSUME RequestAssumption == Requests \subseteq RequestType

VARIABLES
    idle,       \* Impl::idle and Impl::plain_idle
    all,        \* the sizes of Impl::all and Impl::plain_all
    waiting,    \* threads parked on pool_cv and on plain_cv
    pc,         \* where each thread is
    call,       \* the locals of each perform()
    owner,      \* which thread holds Impl::cookie_lock
    jar,        \* the shared jar: 0 when empty, else 1 and 2 by turns
    kept,       \* handles with a keep-alive connection, in each pool
    made        \* requests made so far

poolVars == <<idle, all, waiting>>
jarVars == <<owner, jar>>
vars == <<poolVars, pc, call, jarVars, kept, made>>

Nobody == "nobody"
NoHandle == 0
Pools == {"jar", "plain"}

\* Impl::Impl: a cap of nought is one.
Cap == IF MaxConcurrentRequests = 0 THEN 1 ELSE MaxConcurrentRequests

\* Mutant: perform() without its backstop for /oauth2/.
TrustTheCaller(r) ==
    IF r.no_stored_cookies \/ r.sessionless THEN "plain" ELSE "jar"

\* perform: what must neither read nor write the jar takes a plain handle.
Route(r) ==
    IF r.no_stored_cookies \/ r.sessionless \/ r.oauth2 THEN "plain" ELSE "jar"

\* ... and an /oauth2/ request is sessionless whether or not its caller said so.
Sessionless(r) == r.sessionless \/ r.oauth2

\* Mutant: transfer() leaves the connection options at their defaults.
ReuseAlways(r) == FALSE

\* transfer: such a request goes out on a connection of its own.
NeverResent(r) == r.write /\ ~r.replayable

NoRequest == [oauth2 |-> FALSE, sessionless |-> FALSE, no_stored_cookies |-> FALSE,
              write |-> FALSE, replayable |-> FALSE]

\* handle is borrowed from pool; merging is TRUE in merge_into_shared_jar.
\* reused, sent, carried and got tell how the exchange went.
NoCall == [req |-> NoRequest, pool |-> "jar", handle |-> NoHandle, merging |-> FALSE,
           reused |-> FALSE, sent |-> 0, carried |-> FALSE, got |-> FALSE]

Handle(t) == call[t].handle
PoolOf(t) == call[t].pool

Init ==
    /\ idle = [p \in Pools |-> {}] /\ all = [p \in Pools |-> 0]
    /\ waiting = [p \in Pools |-> {}]
    /\ pc = [t \in Workers |-> "out"] /\ call = [t \in Workers |-> NoCall]
    /\ owner = Nobody /\ jar = 0
    /\ kept = [p \in Pools |-> {}]
    /\ made = 0

Goes(t, from, to) == pc[t] = from /\ pc' = [pc EXCEPT ![t] = to]

Return(t) ==
    /\ pc' = [pc EXCEPT ![t] = "out"]
    /\ call' = [call EXCEPT ![t] = NoCall]

-----------------------------------------------------------------------------
Begin(t, r) ==
    /\ made < MaxRequests /\ made' = made + 1
    /\ Goes(t, "out", "acquire")
    /\ call' = [call EXCEPT ![t] = [NoCall EXCEPT !.req = r, !.pool = Route(r)]]
    /\ UNCHANGED <<poolVars, jarVars, kept>>

Borrow(t, h) ==
    /\ Goes(t, "acquire", IF call[t].merging THEN "merge" ELSE "prereq")
    /\ call' = [call EXCEPT ![t].handle = h]

\* Mutant: the handle is borrowed but not taken off the idle list.
PeekIdle(t) ==
    /\ \E h \in idle[PoolOf(t)] : Borrow(t, h)
    /\ UNCHANGED <<idle, all, waiting, jarVars, kept, made>>

TakeIdle(t) ==
    LET p == PoolOf(t) IN
    /\ \E h \in idle[p] : Borrow(t, h) /\ idle' = [idle EXCEPT ![p] = @ \ {h}]
    /\ UNCHANGED <<all, waiting, jarVars, kept, made>>

CreateHandle(t) ==
    LET p == PoolOf(t) IN
    /\ idle[p] = {} /\ all[p] < Cap
    /\ Borrow(t, all[p] + 1)
    /\ all' = [all EXCEPT ![p] = @ + 1]
    /\ UNCHANGED <<idle, waiting, jarVars, kept, made>>

\* curl_easy_init fails: a transport error, or cookies that are not merged.
CreateFails(t) ==
    LET p == PoolOf(t) IN
    /\ pc[t] = "acquire" /\ idle[p] = {} /\ all[p] < Cap
    /\ Return(t)
    /\ UNCHANGED <<poolVars, jarVars, kept, made>>

Park(t) ==
    LET p == PoolOf(t) IN
    /\ Goes(t, "acquire", "parked")
    /\ idle[p] = {} /\ all[p] = Cap
    /\ waiting' = [waiting EXCEPT ![p] = @ \cup {t}]
    /\ UNCHANGED <<idle, all, call, jarVars, kept, made>>

\* A condition variable may wake a thread nobody notified.
SpuriousWakeup(t) ==
    /\ Goes(t, "parked", "acquire")
    /\ waiting' = [waiting EXCEPT ![PoolOf(t)] = @ \ {t}]
    /\ UNCHANGED <<idle, all, call, jarVars, kept, made>>

-----------------------------------------------------------------------------
\* A request whose connection is not fresh goes out on the one its handle kept.
Reuses(t) == Handle(t) \in kept[PoolOf(t)] /\ ~NeverResent(call[t].req)

\* Mutant: the window is not guarded.
EnterWindowUnlocked(t) ==
    /\ Goes(t, "prereq", "getlist")
    /\ call' = [call EXCEPT ![t].reused = Reuses(t)]
    /\ UNCHANGED <<poolVars, jarVars, kept, made>>

\* CookieWindow::enter, from the PREREQ callback.
EnterWindow(t) ==
    /\ Goes(t, "prereq", "getlist")
    /\ CookieListRace => owner = Nobody
    /\ owner' = IF CookieListRace THEN t ELSE owner
    /\ call' = [call EXCEPT ![t].reused = Reuses(t)]
    /\ UNCHANGED <<poolVars, jar, kept, made>>

\* cookie_lock is free for t: it is recursive.
LockFree(t) == owner \in {Nobody, t}

\* CookieWindow::leave.
LeaveWindow(t) == owner' = IF owner = t THEN Nobody ELSE owner

\* Curl_cookie_getlist, under lock_cb: a handle of the plain pool has no jar.
GetList(t) ==
    /\ Goes(t, "getlist", "walk")
    /\ PoolOf(t) = "jar" => LockFree(t)
    /\ call' = [call EXCEPT ![t].carried = PoolOf(t) = "jar" /\ jar # 0]
    /\ UNCHANGED <<poolVars, jarVars, kept, made>>

\* The list is walked and the header written: the first debug event after it.
HeaderOut(t) ==
    /\ Goes(t, "walk", "wire")
    /\ call' = [call EXCEPT ![t].sent = @ + 1]
    /\ LeaveWindow(t)
    /\ UNCHANGED <<poolVars, jar, kept, made>>

\* The connection kept from an earlier request was dead before any byte of
\* the answer: libcurl sends the request again on a new one.
DeadConnection(t) ==
    /\ Goes(t, "wire", "prereq")
    /\ call[t].reused
    /\ kept' = [kept EXCEPT ![PoolOf(t)] = @ \ {Handle(t)}]
    /\ UNCHANGED <<poolVars, call, jarVars, made>>

\* The exchange ends, before or after the header went out, without an answer.
TransferFails(t) ==
    /\ pc[t] \in {"prereq", "getlist", "wire"}
    /\ pc' = [pc EXCEPT ![t] = "release"]
    /\ LeaveWindow(t)
    /\ kept' = [kept EXCEPT ![PoolOf(t)] = @ \ {Handle(t)}]
    /\ UNCHANGED <<poolVars, call, jar, made>>

Rewritten == IF jar = 1 THEN 2 ELSE 1

\* An answer, with cookies or without.  libcurl stores them under lock_cb; a
\* plain handle has no engine and hands them to perform_isolated instead.
Answered(t) ==
    LET p == PoolOf(t) IN
    /\ Goes(t, "wire", "release")
    /\ \E cookies \in BOOLEAN :
          /\ call' = [call EXCEPT ![t].got = cookies]
          /\ p = "jar" /\ cookies => LockFree(t)
          /\ jar' = IF p = "jar" /\ cookies THEN Rewritten ELSE jar
    /\ kept' = IF NeverResent(call[t].req) THEN kept
               ELSE [kept EXCEPT ![p] = @ \cup {Handle(t)}]
    /\ UNCHANGED <<poolVars, owner, made>>

-----------------------------------------------------------------------------
\* release, release_plain: the handle goes back under the mutex ...
Release(t) ==
    /\ Goes(t, "release", "notify")
    /\ idle' = [idle EXCEPT ![PoolOf(t)] = @ \cup {Handle(t)}]
    /\ call' = [call EXCEPT ![t].handle = NoHandle]
    /\ UNCHANGED <<all, waiting, jarVars, kept, made>>

\* Mutant: perform_isolated adopts what any plain exchange received.
AdoptsAll(t) == PoolOf(t) = "plain" /\ call[t].got

\* perform_isolated: what a setup exchange received is merged into the jar.
Adopts(t) ==
    /\ PoolOf(t) = "plain" /\ call[t].got
    /\ ~Sessionless(call[t].req)

\* Who is told that a handle of pool p is back: one parked thread, if any.
Told(p) == IF waiting[p] = {} THEN {{}} ELSE {{w} : w \in waiting[p]}

\* t's own request ends, or goes on to merge its cookies.
AfterRelease(t, told) ==
    /\ waiting' = [waiting EXCEPT ![PoolOf(t)] = @ \ told]
    /\ pc' = [u \in Workers |->
                  CASE u = t -> IF Adopts(t) THEN "acquire" ELSE "out"
                    [] u \in told \ {t} -> "acquire"
                    [] OTHER -> pc[u]]
    /\ call' = [call EXCEPT ![t] =
                    IF Adopts(t) THEN [@ EXCEPT !.merging = TRUE, !.pool = "jar"]
                    ELSE NoCall]
    /\ UNCHANGED <<idle, all, jarVars, kept, made>>

\* Mutant: nobody is told.
ReleaseSilently(t) == pc[t] = "notify" /\ AfterRelease(t, {})

\* ... and one parked thread is told, after the mutex is free again.
NotifyOne(t) ==
    /\ pc[t] = "notify"
    /\ \E told \in Told(PoolOf(t)) : AfterRelease(t, told)

\* merge_into_shared_jar: no transfer, only the jar behind the handle.
Merge(t) ==
    /\ Goes(t, "merge", "release")
    /\ LockFree(t)
    /\ jar' = Rewritten
    /\ UNCHANGED <<poolVars, call, owner, kept, made>>

-----------------------------------------------------------------------------
Step(t) ==
    \/ TakeIdle(t) \/ CreateHandle(t) \/ CreateFails(t) \/ Park(t)
    \/ EnterWindow(t) \/ GetList(t) \/ HeaderOut(t)
    \/ DeadConnection(t) \/ TransferFails(t) \/ Answered(t)
    \/ Release(t) \/ NotifyOne(t) \/ Merge(t)

Done == made = MaxRequests /\ (\A t \in Workers : pc[t] = "out") /\ UNCHANGED vars

Next ==
    \/ Done
    \/ \E t \in Workers :
          Step(t) \/ SpuriousWakeup(t) \/ \E r \in Requests : Begin(t, r)

Spec == Init /\ [][Next]_vars

\* A thread that can run does, and the total timeout ends every transfer.
FairSpec == Spec /\ \A t \in Workers : WF_vars(Step(t))

-----------------------------------------------------------------------------
Holding == {"prereq", "getlist", "walk", "wire", "release", "merge"}
Borrowers(p) == {t \in Workers : PoolOf(t) = p /\ pc[t] \in Holding}

\* A handle is idle or borrowed by exactly one thread, never both and never
\* neither, in each pool: two threads never drive one easy handle, and no path
\* through a failure loses one.
HandlesConserved ==
    \A p \in Pools :
        /\ \A t, u \in Borrowers(p) : t # u => Handle(t) # Handle(u)
        /\ \A t \in Borrowers(p) : Handle(t) \notin idle[p]
        /\ 1..all[p] = idle[p] \cup {Handle(t) : t \in Borrowers(p)}

\* Threads reading a list whose nodes are embedded in the jar's own cookies.
Walkers == {t \in Workers : PoolOf(t) = "jar" /\ pc[t] = "walk"}

\* Impl::cookie_lock (issue 83): on a libcurl with the race, one thread at a
\* time comes to hold such a list, and nobody replaces the jar's cookies while
\* one is being walked.
CookieListsAreSafe ==
    [][CookieListRace => /\ Cardinality(Walkers') <= 1
                         /\ jar' # jar => Walkers = {}]_vars

\* §6.1 rule 11, §28.12.2: a sessionless exchange, flagged or recognised by its
\* path, carries no cookie of the session and leaves none of its own behind.
SessionlessApart ==
    \A t \in Workers :
        /\ Sessionless(call[t].req) =>
              /\ ~call[t].carried /\ ~call[t].merging
        /\ call[t].req.no_stored_cookies => ~call[t].carried

\* §16: a write that nothing marks replayable reaches the wire once; any other
\* request at most twice, the second time because its connection was dead.
WritesSentOnce ==
    \A t \in Workers :
        call[t].sent <= (IF call[t].req.write /\ ~call[t].req.replayable THEN 1 ELSE 2)

\* No request waits for a handle for ever once others give theirs back.
EveryRequestReturns == \A t \in Watched : pc[t] # "out" ~> pc[t] = "out"
=============================================================================
