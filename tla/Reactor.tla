------------------------------ MODULE Reactor ------------------------------
(***************************************************************************)
(* reactor_serve (src/src/reactor.cpp): one thread that takes a delivery   *)
(* from the broker, verifies it, runs the application's handler, and       *)
(* replies, or stays silent so that the server's failure_policy decides.   *)
(*                                                                         *)
(* The broker redelivers, delays and reorders, and may hand over a body    *)
(* that does not verify.  The runtime's clock counts whole seconds: wall   *)
(* is finer, TicksPerSecond to each.                                       *)
(***************************************************************************)
EXTENDS Integers

CONSTANTS
    Nonces,
    FreshnessSkew,    \* kFreshnessSkewSecs
    TicksPerSecond,
    Timeouts,         \* timeout_ms of events, in ticks; 0 is none
    MaxWall,          \* bound: ticks of the clock
    MaxDeliveries     \* bound: deliveries of this history

ASSUME ReactorAssumption ==
    FreshnessSkew \in Nat \ {0} /\ TicksPerSecond \in Nat \ {0} /\ Timeouts \subseteq Nat

VARIABLES
    wall,        \* the time
    sent,        \* the events the server published, by nonce
    deliveries,  \* deliveries so far
    spc,         \* where reactor_serve is
    event,       \* the delivery being served, its verdict, and when it came
    seenNonces,  \* seen_nonces: when each is forgotten, Forgotten if absent
    handled,     \* when each event last reached the handler in this call
    originals,   \* nonces that came with a good MAC, in time, in this call
    lateness     \* how long after its window the last reply went out

reactorVars == <<wall, sent, deliveries, spc, event, seenNonces, handled, originals, lateness>>

Never == -1
Forgotten == -1
Unsent == [issued |-> Never, timeout |-> 0, ours |-> FALSE]
Refusals == {"none", "bad MAC", "stale", "replay", "foreign", "no answer", "abandoned"}
NoEvent == [nonce |-> "none", received |-> 0, since |-> 0, refusal |-> "none"]

Clock == wall \div TicksPerSecond

ReactorInit ==
    /\ wall = 0 /\ deliveries = 0
    /\ sent = [n \in Nonces |-> Unsent]
    /\ spc = "waiting" /\ event = NoEvent
    /\ seenNonces = [n \in Nonces |-> Forgotten]
    /\ handled = [n \in Nonces |-> Never] /\ originals = {}
    /\ lateness = 0

\* The server's clock may be off by the skew; ours: the tenant is the
\* configured one and the event is in the registry.
Publish(n) ==
    /\ sent[n] = Unsent
    /\ \E issued \in (Clock - FreshnessSkew)..(Clock + FreshnessSkew),
          timeout \in Timeouts, ours \in BOOLEAN :
          sent' = [sent EXCEPT ![n] = [issued |-> issued, timeout |-> timeout, ours |-> ours]]
    /\ UNCHANGED <<wall, deliveries, spc, event, seenNonces, handled, originals, lateness>>

\* next_delivery: any published event, again or late, its body intact or not;
\* the clock is read.
NextDelivery(n) ==
    /\ spc = "waiting" /\ sent[n] # Unsent
    /\ deliveries < MaxDeliveries /\ deliveries' = deliveries + 1
    /\ \E intact \in BOOLEAN :
          spc' = IF intact THEN "verify" ELSE "altered"
    /\ event' = [nonce |-> n, received |-> Clock, since |-> wall, refusal |-> "none"]
    /\ UNCHANGED <<wall, sent, seenNonces, handled, originals, lateness>>

\* Silence: the delivery is left without a reply.
Drop(why) == spc' = "waiting" /\ event' = [event EXCEPT !.refusal = why]

\* Mutant: the nonce is spent before the MAC is checked.
RefuseSpendingNonce ==
    /\ spc = "altered" /\ Drop("bad MAC")
    /\ seenNonces' = [seenNonces EXCEPT ![event.nonce] = event.received + 2 * FreshnessSkew]
    /\ UNCHANGED <<wall, sent, deliveries, handled, originals, lateness>>

\* Malformed, an old key_version, or a MAC that does not verify.
RefuseAltered ==
    /\ spc = "altered" /\ Drop("bad MAC")
    /\ UNCHANGED <<wall, sent, deliveries, seenNonces, handled, originals, lateness>>

Drift == event.received - sent[event.nonce].issued
Fresh == Drift <= FreshnessSkew /\ Drift >= -FreshnessSkew

RefuseStale ==
    /\ spc = "verify" /\ ~Fresh /\ Drop("stale")
    /\ UNCHANGED <<wall, sent, deliveries, seenNonces, handled, originals, lateness>>

\* The nonces remembered once those that ran out are swept.
Swept == [n \in Nonces |->
            IF seenNonces[n] <= event.received THEN Forgotten ELSE seenNonces[n]]

RefuseReplay ==
    /\ spc = "verify" /\ Fresh
    /\ Swept[event.nonce] # Forgotten /\ Drop("replay")
    /\ seenNonces' = Swept
    /\ UNCHANGED <<wall, sent, deliveries, handled, originals, lateness>>

\* Mutant: a nonce is remembered for one skew, not for both.
RememberOneSkew ==
    seenNonces' = [Swept EXCEPT ![event.nonce] = event.received + FreshnessSkew]

Remember ==
    seenNonces' = [Swept EXCEPT ![event.nonce] = event.received + 2 * FreshnessSkew]

\* Another tenant's event, or one outside the registry: refused, nonce spent.
RefuseForeign ==
    /\ spc = "verify" /\ Fresh /\ Swept[event.nonce] = Forgotten
    /\ ~sent[event.nonce].ours /\ Drop("foreign")
    /\ Remember
    /\ originals' = originals \cup {event.nonce}
    /\ UNCHANGED <<wall, sent, deliveries, handled, lateness>>

CallHandler ==
    /\ spc = "verify" /\ Fresh /\ Swept[event.nonce] = Forgotten
    /\ sent[event.nonce].ours
    /\ spc' = "handling"
    /\ Remember
    /\ originals' = originals \cup {event.nonce}
    /\ handled' = [handled EXCEPT ![event.nonce] = event.received]
    /\ UNCHANGED <<wall, sent, deliveries, event, lateness>>

\* The handler throws, or abstains, as a router does for an event nobody bound;
\* or its answer is one the reply builder refuses.
NoAnswer ==
    /\ spc = "handling" /\ Drop("no answer")
    /\ UNCHANGED <<wall, sent, deliveries, seenNonces, handled, originals, lateness>>

\* Mutant: the window is measured in ticks of the fine clock, a second late.
WindowClosedLate(window) ==
    (Clock - event.received - 1) * TicksPerSecond > window

\* rule 4, in whole seconds.
WindowClosed(window) == (Clock - event.received) * TicksPerSecond > window

Abandon ==
    /\ spc = "handling"
    /\ sent[event.nonce].timeout > 0 /\ WindowClosed(sent[event.nonce].timeout)
    /\ Drop("abandoned")
    /\ UNCHANGED <<wall, sent, deliveries, seenNonces, handled, originals, lateness>>

Reply ==
    /\ spc = "handling"
    /\ LET window == sent[event.nonce].timeout IN
          /\ window > 0 => ~WindowClosed(window)
          /\ lateness' = IF window = 0 THEN 0 ELSE wall - event.since - window
    /\ Drop("none")
    /\ UNCHANGED <<wall, sent, deliveries, seenNonces, handled, originals>>

\* next_delivery ends; a later call starts with a seen-set of its own.
ServeAgain ==
    /\ spc = "waiting" /\ originals # {}
    /\ seenNonces' = [n \in Nonces |-> Forgotten]
    /\ handled' = [n \in Nonces |-> Never] /\ originals' = {}
    /\ event' = NoEvent
    /\ UNCHANGED <<wall, sent, deliveries, spc, lateness>>

ReactorTick ==
    /\ wall < MaxWall /\ wall' = wall + 1
    /\ UNCHANGED <<sent, deliveries, spc, event, seenNonces, handled, originals, lateness>>

ReactorNext ==
    \/ ReactorTick
    \/ \E n \in Nonces : Publish(n) \/ NextDelivery(n)
    \/ RefuseAltered \/ RefuseStale \/ RefuseReplay \/ RefuseForeign \/ CallHandler
    \/ NoAnswer \/ Abandon \/ Reply \/ ServeAgain

ReactorSpec == ReactorInit /\ [][ReactorNext]_reactorVars

-----------------------------------------------------------------------------
ReactorTypeOK ==
    /\ wall \in Nat /\ deliveries \in Nat /\ lateness \in Int
    /\ sent \in [Nonces -> [issued : Int, timeout : Timeouts \cup {0}, ours : BOOLEAN]]
    /\ spc \in {"waiting", "altered", "verify", "handling"}
    /\ event \in [nonce : Nonces \cup {"none"}, received : Nat, since : Nat,
                  refusal : Refusals]
    /\ spc # "waiting" => event.nonce \in Nonces
    /\ seenNonces \in [Nonces -> Int] /\ handled \in [Nonces -> Int]
    /\ originals \subseteq Nonces

\* §22.3 rule 4: however often the broker redelivers an event, the handler runs
\* for it once in a serve call.  The one exception is an event dated a full skew
\* ahead, redelivered in the very second its nonce is forgotten.
HandledOnceButAtTheEdge ==
    [][\A n \in Nonces :
          handled[n] # Never /\ spc = "verify" /\ spc' = "handling" /\ event.nonce = n =>
              /\ event.received = handled[n] + 2 * FreshnessSkew
              /\ sent[n].issued = handled[n] + FreshnessSkew]_reactorVars

\* §22.3: the nonce is judged after the MAC and the date: only a genuine event
\* that came in time makes a later one a replay.  An altered copy that arrives
\* first cannot silence it.
ReplayNeedsAnOriginal ==
    event.refusal = "replay" => event.nonce \in originals

\* §22.10 rule 4: a reply leaves less than a second after its window, which is
\* what a clock of whole seconds can promise.
RepliesLessThanASecondLate == lateness < TicksPerSecond
=============================================================================
