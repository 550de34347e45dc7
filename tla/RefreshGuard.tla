---------------------------- MODULE RefreshGuard ----------------------------
(***************************************************************************)
(* The single-flight token refresh: detail::RefreshGuard::run in           *)
(* src/src/refresh_guard.hpp, wrapped by do_single_flight_refresh and      *)
(* running perform_refresh as its wire call (src/src/client_impl.hpp).     *)
(*                                                                         *)
(* One step is one section under the guard's mutex, one atomic operation,  *)
(* one promise operation or one leg of the wire call.  The refresh token   *)
(* is the cookie in the transport's jar; the server takes each token once  *)
(* and rotates it.  Tokens are numbered in the order they are minted.      *)
(*                                                                         *)
(* The memo cleared by do_single_flight_refresh is in DecisionMemo.        *)
(***************************************************************************)
EXTENDS Naturals

CONSTANTS
    Callers,     \* threads that may ask for a refresh
    MaxCalls     \* bound: refreshes asked for in one behaviour

ASSUME MaxCallsAssumption == MaxCalls \in Nat

VARIABLES
    pc,            \* where each caller is in do_single_flight_refresh
    mine,          \* the generation each caller owns or has joined
    before,        \* refresh_count as the caller read it on the way in
    slot,          \* inflight_: the generation of its future, 0 when not valid()
    generation,    \* generation_
    outcome,       \* state of every shared future installed so far
    refreshCount,  \* refresh_count
    jar,           \* refresh token in the transport's cookie jar
    server,        \* the one refresh token the server will take
    carried,       \* the token each owner's request carries
    lost,          \* tokens whose rotation the client never heard of
    replayed,      \* tokens the server was shown after it had taken them
    role,          \* role in the RefreshEvent of each caller's last call
    calls          \* calls made so far

guardVars == <<slot, generation, outcome>>
wireVars  == <<jar, server, carried, lost, replayed>>
vars == <<pc, mine, before, guardVars, refreshCount, wireVars, role, calls>>

Idle == "idle"
\* On the owner's path, before the promise is satisfied.
Unpublished == {"own", "send", "wire", "answered", "install_done", "failing"}
\* Inside RefreshGuard::run.
Inside == Unpublished \cup {"wait", "vacate", "leave"}
Places == Inside \cup {Idle, "enter"}

\* Mutant: an occupied slot taken for a refresh on the wire (valid() alone).
OccupiedIsLive == slot # 0

\* live_locked(): the slot holds a future and that future has not settled.
Live == slot # 0 /\ outcome[slot] = "pending"

Move(c, from, to) == pc[c] = from /\ pc' = [pc EXCEPT ![c] = to]

Init ==
    /\ pc = [c \in Callers |-> Idle]
    /\ mine = [c \in Callers |-> 0]
    /\ before = [c \in Callers |-> 0]
    /\ slot = 0 /\ generation = 0
    /\ outcome = [g \in 1..0 |-> "pending"]
    /\ refreshCount = 0
    /\ jar = 0 /\ server = 0
    /\ carried = [c \in Callers |-> 0]
    /\ lost = {} /\ replayed = {}
    /\ role = [c \in Callers |-> "none"]
    /\ calls = 0

\* do_single_flight_refresh: `before` is read ahead of the guard.
Call(c) ==
    /\ calls < MaxCalls
    /\ Move(c, Idle, "enter")
    /\ before' = [before EXCEPT ![c] = refreshCount]
    /\ calls' = calls + 1
    /\ role' = [role EXCEPT ![c] = "none"]
    /\ UNCHANGED <<mine, guardVars, refreshCount, wireVars>>

\* run(), under mtx_: a live future is joined.
Join(c) ==
    /\ Live
    /\ Move(c, "enter", "wait")
    /\ mine' = [mine EXCEPT ![c] = slot]
    /\ UNCHANGED <<before, guardVars, refreshCount, wireVars, role, calls>>

\* run(), under mtx_: an empty or settled slot is taken over.
Own(c) ==
    /\ ~Live
    /\ Move(c, "enter", "own")
    /\ generation' = generation + 1
    /\ slot' = generation + 1
    /\ outcome' = [g \in 1..(generation + 1) |->
                      IF g = generation + 1 THEN "pending" ELSE outcome[g]]
    /\ mine' = [mine EXCEPT ![c] = generation + 1]
    /\ UNCHANGED <<before, refreshCount, wireVars, role, calls>>

\* perform_refresh: the wire call is counted, then built from the jar and sent.
CountWireCall(c) ==
    /\ Move(c, "own", "send")
    /\ refreshCount' = refreshCount + 1
    /\ UNCHANGED <<mine, before, guardVars, wireVars, role, calls>>

SendRefresh(c) ==
    /\ Move(c, "send", "wire")
    /\ carried' = [carried EXCEPT ![c] = jar]
    /\ UNCHANGED <<mine, before, guardVars, refreshCount, jar, server, lost,
                   replayed, role, calls>>

\* The server takes the token and mints the next one.
ServerRotates(c) ==
    /\ Move(c, "wire", "answered")
    /\ carried[c] = server
    /\ server' = server + 1
    /\ UNCHANGED <<mine, before, guardVars, refreshCount, jar, carried, lost,
                   replayed, role, calls>>

\* The server sees a token it has already taken: invalid_grant.
ServerRejectsReplay(c) ==
    /\ Move(c, "wire", "failing")
    /\ carried[c] # server
    /\ replayed' = replayed \cup {carried[c]}
    /\ UNCHANGED <<mine, before, guardVars, refreshCount, jar, server, carried,
                   lost, role, calls>>

\* Mutant: the exception leaves run() with the promise never satisfied.
FailUnpublished(c) ==
    /\ Move(c, "wire", "vacate")
    /\ UNCHANGED <<mine, before, guardVars, refreshCount, wireVars, role, calls>>

\* The request never reaches the server, or the server refuses it untaken.
RequestFails(c) ==
    /\ Move(c, "wire", "failing")
    /\ UNCHANGED <<mine, before, guardVars, refreshCount, wireVars, role, calls>>

\* Mutant: the rotated cookies never reach the jar.
DropCookies(c) ==
    /\ Move(c, "answered", "install_done")
    /\ UNCHANGED <<mine, before, guardVars, refreshCount, wireVars, role, calls>>

\* The 2xx answer arrives; the transport puts its cookies in the jar.
InstallCookies(c) ==
    /\ Move(c, "answered", "install_done")
    /\ jar' = carried[c] + 1
    /\ UNCHANGED <<mine, before, guardVars, refreshCount, server, carried, lost,
                   replayed, role, calls>>

\* The answer is lost (timeout, reset): perform_refresh throws, the jar is old.
AnswerLost(c) ==
    /\ Move(c, "answered", "failing")
    /\ lost' = lost \cup {carried[c]}
    /\ UNCHANGED <<mine, before, guardVars, refreshCount, jar, server, carried,
                   replayed, role, calls>>

\* Mutant: the outcome is published while the cookies are still on their way.
PublishEarly(c) ==
    /\ pc[c] \in {"answered", "failing"}
    /\ outcome' = [outcome EXCEPT ![mine[c]] =
                      IF pc[c] = "answered" THEN "ok" ELSE "failed"]
    /\ pc' = [pc EXCEPT ![c] = "vacate"]
    /\ UNCHANGED <<mine, before, slot, generation, refreshCount, wireVars, role,
                   calls>>

\* OwnerScope::publish / publish_exception: the promise is satisfied, no lock.
Publish(c) ==
    /\ pc[c] \in {"install_done", "failing"}
    /\ outcome' = [outcome EXCEPT ![mine[c]] =
                      IF pc[c] = "install_done" THEN "ok" ELSE "failed"]
    /\ pc' = [pc EXCEPT ![c] = "vacate"]
    /\ UNCHANGED <<mine, before, slot, generation, refreshCount, wireVars, role,
                   calls>>

\* Mutant: the slot is cleared whoever owns it by now.
VacateAnyGeneration(c) ==
    /\ Move(c, "vacate", "leave")
    /\ slot' = 0
    /\ UNCHANGED <<mine, before, generation, outcome, refreshCount, wireVars,
                   role, calls>>

\* ~OwnerScope -> vacate(): under mtx_, only while the slot is still ours.
Vacate(c) ==
    /\ Move(c, "vacate", "leave")
    /\ slot' = IF generation = mine[c] THEN 0 ELSE slot
    /\ UNCHANGED <<mine, before, generation, outcome, refreshCount, wireVars,
                   role, calls>>

\* A waiter's joined.get() returns or rethrows; it never touches the slot.
Wake(c) ==
    /\ Move(c, "wait", "leave")
    /\ outcome[mine[c]] # "pending"
    /\ UNCHANGED <<mine, before, guardVars, refreshCount, wireVars, role, calls>>

\* Back in do_single_flight_refresh: an exception skips the RefreshEvent.
Return(c) ==
    /\ Move(c, "leave", Idle)
    /\ role' = IF outcome[mine[c]] = "ok"
               THEN [role EXCEPT ![c] = IF refreshCount > before[c]
                                        THEN "leader" ELSE "follower"]
               ELSE role
    /\ UNCHANGED <<mine, before, guardVars, refreshCount, wireVars, calls>>

\* Nobody asks for a refresh any more.
Quiescent ==
    /\ calls = MaxCalls
    /\ \A c \in Callers : pc[c] = Idle
    /\ UNCHANGED vars

Step(c) ==
    \/ Join(c) \/ Own(c) \/ CountWireCall(c) \/ SendRefresh(c)
    \/ ServerRotates(c) \/ ServerRejectsReplay(c) \/ RequestFails(c)
    \/ InstallCookies(c) \/ AnswerLost(c)
    \/ Publish(c) \/ Vacate(c) \/ Wake(c) \/ Return(c)

Next == Quiescent \/ \E c \in Callers : Call(c) \/ Step(c)

Spec == Init /\ [][Next]_vars

\* A thread inside the guard is scheduled, and a wire call ends: the transport
\* has a total timeout.  Nobody is obliged to ask for a refresh.
FairSpec == Spec /\ \A c \in Callers : WF_vars(Step(c))

-----------------------------------------------------------------------------
TypeOK ==
    /\ pc \in [Callers -> Places]
    /\ generation \in Nat
    /\ mine \in [Callers -> 0..generation]
    /\ before \in [Callers -> Nat]
    /\ slot \in 0..generation
    /\ outcome \in [1..generation -> {"pending", "ok", "failed"}]
    /\ refreshCount \in Nat
    /\ jar \in Nat /\ server \in Nat
    /\ carried \in [Callers -> Nat]
    /\ lost \subseteq Nat /\ replayed \subseteq Nat
    /\ role \in [Callers -> {"none", "leader", "follower"}]
    /\ calls \in Nat

\* The first invariant of the guard's header: at most one caller is between
\* taking the slot and publishing, so two refreshes never spend one token.
OneRefreshAtATime ==
    \A c, d \in Callers :
        pc[c] \in Unpublished /\ pc[d] \in Unpublished => c = d

\* AXIAM refresh tokens are single-use: the server is shown a spent token only
\* when the answer that rotated it never reached this client.
NoSelfInflictedReplay == replayed \subseteq lost

\* Publication precedes vacating (header note 1): a caller that finds no live
\* refresh finds the jar holding the newest token the client ever heard of.
EmptySlotMeansRotated ==
    ~Live => jar = server \/ jar \in lost

\* Header note 3: whoever waits is waiting on the future of a live owner, so no
\* waiter is left on a promise nobody will satisfy.
WaitersHaveAnOwner ==
    \A c \in Callers :
        pc[c] = "wait" /\ outcome[mine[c]] = "pending"
            => \E d \in Callers : pc[d] \in Unpublished /\ mine[d] = mine[c]

\* Every caller of a refresh gets its outcome; nobody is stuck on the slot.
EveryCallReturns == \A c \in Callers : pc[c] # Idle ~> pc[c] = Idle

\* client_impl.hpp:567-571: the RefreshEvent's role tells the caller that led
\* from one that rode along: at most one caller of a flight reports "leader".
OneLeaderPerFlight ==
    \A c, d \in Callers :
        /\ c # d /\ mine[c] = mine[d]
        /\ pc[c] = Idle /\ pc[d] = Idle
        => ~(role[c] = "leader" /\ role[d] = "leader")

-----------------------------------------------------------------------------
\* The guard implements the abstract single flight.
Flights == INSTANCE SingleFlight WITH
    flight  <- generation,
    result  <- outcome,
    boarded <- [c \in Callers |-> IF pc[c] \in Inside THEN mine[c] ELSE 0]

ImplementsSingleFlight == Flights!Spec
=============================================================================
