---------------------------- MODULE SingleFlight ----------------------------
(***************************************************************************)
(* What a single-flight guard promises its callers, with no locks, futures *)
(* or slots: flights are numbered, at most one is in the air, a caller     *)
(* that arrives while one is in the air rides it, a caller that arrives    *)
(* while none is starts the next, and everybody on a flight leaves with    *)
(* that flight's one result.  A flight that has landed takes nobody on.    *)
(***************************************************************************)
EXTENDS Naturals

CONSTANT Callers

VARIABLES
    flight,    \* number of the latest flight, 0 before the first
    result,    \* result of each flight: "pending" while it is in the air
    boarded    \* the flight each caller is on, 0 when it is on none

vars == <<flight, result, boarded>>

Results == {"pending", "ok", "failed"}

InTheAir == flight # 0 /\ result[flight] = "pending"

Init ==
    /\ flight = 0
    /\ result = [g \in 1..0 |-> "pending"]
    /\ boarded = [c \in Callers |-> 0]

\* No flight is in the air: the caller starts one.
Start(c) ==
    /\ boarded[c] = 0
    /\ ~InTheAir
    /\ flight' = flight + 1
    /\ result' = [g \in 1..(flight + 1) |->
                     IF g = flight + 1 THEN "pending" ELSE result[g]]
    /\ boarded' = [boarded EXCEPT ![c] = flight + 1]

\* A flight is in the air: the caller joins it.
Join(c) ==
    /\ boarded[c] = 0
    /\ InTheAir
    /\ boarded' = [boarded EXCEPT ![c] = flight]
    /\ UNCHANGED <<flight, result>>

\* The flight in the air lands, once.
Land ==
    /\ InTheAir
    /\ \E r \in {"ok", "failed"} : result' = [result EXCEPT ![flight] = r]
    /\ UNCHANGED <<flight, boarded>>

\* A caller leaves with the result of the flight it was on.
Leave(c) ==
    /\ boarded[c] # 0
    /\ result[boarded[c]] # "pending"
    /\ boarded' = [boarded EXCEPT ![c] = 0]
    /\ UNCHANGED <<flight, result>>

Next ==
    \/ Land
    \/ \E c \in Callers : Start(c) \/ Join(c) \/ Leave(c)

Spec == Init /\ [][Next]_vars
=============================================================================
