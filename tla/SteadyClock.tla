---------------------------- MODULE SteadyClock ----------------------------
(* std::chrono::steady_clock as the caches read it: it never goes back. *)
EXTENDS Integers

CONSTANT MaxNow    \* bound: ticks of the clock

VARIABLE now

Tick == now < MaxNow /\ now' = now + 1
=============================================================================
