---------------------------- MODULE MCReceivers ----------------------------
(* The receivers of security events, the reactor and the client's own        *)
(* credential, checked side by side: each behaviour exercises the one Init   *)
(* picks.                                                                    *)
EXTENDS SsfReceiver, Reactor, ClientSession, TLC

VARIABLE part

vars == <<part, ssfVars, reactorVars, sessionVars>>

Init ==
    /\ part \in {"ssf", "reactor", "session"}
    /\ SsfInit /\ ReactorInit /\ SessionInit

Next ==
    \/ part = "ssf" /\ SsfNext /\ UNCHANGED <<part, reactorVars, sessionVars>>
    \/ part = "reactor" /\ ReactorNext /\ UNCHANGED <<part, ssfVars, sessionVars>>
    \/ part = "session" /\ SessionNext /\ UNCHANGED <<part, ssfVars, reactorVars>>

Spec == Init /\ [][Next]_vars

\* No property tells two receivers, SETs or keys apart.
Symmetry ==
    Permutations(Receivers) \cup Permutations(Sets) \cup Permutations(SigningKeys)
=============================================================================
