------------------------- MODULE ManagementTransport -------------------------
(***************************************************************************)
(* One call of the management API (management_transport.cpp): what is      *)
(* refused before anything is sent, the credential the request carries,    *)
(* and the attempts.  Calls of several threads meet a client whose cookie  *)
(* session or device credential comes and goes; an answer may be lost      *)
(* after the server has acted on the request.                              *)
(***************************************************************************)
EXTENDS ManagementOps, Integers

CONSTANTS
    Threads,    \* threads that call
    MaxCalls    \* bound: calls

VARIABLES
    known,      \* the identifiers the handle or the client can name
    credentials,       \* the credentials the client holds: "session", "device"
    open,       \* closed_ is not set
    calls,      \* each thread's call
    begun       \* bound: calls so far

transportVars == <<known, credentials, open, calls, begun>>

\* What send() tells operations apart by.
Kind(op) ==
    [get |-> op.method = "GET", scope |-> op.scope, body |-> op.body # NoBody,
     decoded |-> op.answer # Nothing]
Kinds == {Kind(op) : op \in Operations}

Idle == [pc |-> "idle"]

TransportInit ==
    /\ known \in SUBSET {"org", "tenant"}
    /\ credentials \in SUBSET {"session", "device"}
    /\ open = TRUE /\ begun = 0
    /\ calls = [t \in Threads |-> Idle]

Set(t, c) == calls' = [calls EXCEPT ![t] = c]

MayCall == credentials # {}

\* A call up to its first attempt: the path's identifiers, the body, the client,
\* the credential, in this order.
Begin(t) ==
    /\ calls[t].pc = "idle" /\ begun < MaxCalls
    /\ begun' = begun + 1
    /\ \E k \in Kinds, unsendable \in BOOLEAN :
          LET end == IF ~(k.scope \subseteq known) THEN "no id"
                     ELSE IF k.body /\ unsendable THEN "unsendable"
                     ELSE IF ~open THEN "closed"
                     ELSE IF ~MayCall THEN "no session" ELSE "sending"
          IN  Set(t, [pc |-> IF end = "sending" THEN "sending" ELSE "over", end |-> end,
                      get |-> k.get, decoded |-> k.decoded, attempt |-> 1, acted |-> 0,
                      bare |-> FALSE, starved |-> FALSE, without |-> credentials = {}])
    /\ UNCHANGED <<known, credentials, open>>

\* build_request: the request carries what the client holds now.
Send(t) ==
    /\ calls[t].pc = "sending"
    /\ Set(t, [calls[t] EXCEPT !.pc = "sent", !.bare = @ \/ credentials = {}])
    /\ UNCHANGED <<known, credentials, open, begun>>

\* A slip: every call is worth three attempts.
BudgetForAll(c) == 3

Budget(c) == IF c.get THEN 3 ELSE 1

\* A transport failure, 408, 429 and 5xx are worth another attempt.
Again(c, outcome) == outcome \in {"lost", "unsent", "busy"} /\ c.attempt < Budget(c)

\* The server acts on what it answers with 2xx, and may have acted on what it
\* failed at or what was never answered.
Acted(outcome) ==
    CASE outcome \in {"done", "empty", "garbled", "lost"} -> {1}
      [] outcome = "busy" -> {0, 1}
      [] OTHER -> {0}

End(c, outcome) ==
    CASE outcome = "done" \/ (outcome = "empty" /\ ~c.decoded) -> "returned"
      [] outcome = "decisive" -> "error"
      [] OTHER -> "network error"

Answer(t) ==
    /\ calls[t].pc = "sent"
    /\ \E outcome \in IF credentials = {} /\ calls[t].bare THEN {"decisive", "lost", "unsent"}
                      ELSE {"done", "empty", "garbled", "decisive", "busy", "lost", "unsent"} :
       \E acted \in Acted(outcome) :
          LET c == [calls[t] EXCEPT !.acted = @ + acted]
          IN  IF Again(c, outcome)
              THEN Set(t, [c EXCEPT !.pc = "sending", !.attempt = @ + 1])
              ELSE Set(t, [c EXCEPT !.pc = "over", !.end = End(c, outcome)])
    /\ UNCHANGED <<known, credentials, open, begun>>

Return(t) ==
    /\ calls[t].pc = "over"
    /\ Set(t, Idle)
    /\ UNCHANGED <<known, credentials, open, begun>>

\* Another thread: login, a device credential, logout, close().
Gain ==
    /\ credentials' \in {credentials \cup {"session"}, {"device"}} \ {credentials}
    /\ known' = IF "session" \in credentials' THEN known \cup {"tenant"} ELSE known
    /\ UNCHANGED <<open, calls, begun>>

Lose ==
    /\ credentials # {} /\ credentials' = {}
    /\ calls' = [t \in Threads |-> IF calls[t] = Idle THEN Idle
                                   ELSE [calls[t] EXCEPT !.starved = TRUE]]
    /\ UNCHANGED <<known, open, begun>>

Shut == open /\ open' = FALSE /\ UNCHANGED <<known, credentials, calls, begun>>

TransportNext ==
    \/ \E t \in Threads : Begin(t) \/ Send(t) \/ Answer(t) \/ Return(t)
    \/ Gain \/ Lose \/ Shut

TransportSpec == TransportInit /\ [][TransportNext]_transportVars

-----------------------------------------------------------------------------
\* A call that is not a read reaches the server once at most, whatever is lost
\* or garbled on the way: nobody can tell whether the first one was applied.
WritesActOnce == \A t \in Threads : calls[t] # Idle /\ ~calls[t].get => calls[t].acted <= 1

\* A request that carries no credential lost it after the call had begun: the
\* check before the first attempt lets nothing else through, whoever logs in
\* and out.  And it refuses no holder of a credential, a device included.
OnlyTheStarvedGoBare ==
    \A t \in Threads : calls[t] # Idle =>
        /\ calls[t].bare => calls[t].starved /\ ~calls[t].without
        /\ calls[t].end = "no session" => calls[t].without

\* Both, of every call.
CallsAreSafe == WritesActOnce /\ OnlyTheStarvedGoBare
=============================================================================
