---------------------------- MODULE GuardsProofs ----------------------------
(***************************************************************************)
(* Proofs about what the threads of a process share behind a mutex, for    *)
(* any set of threads and any number of calls.                             *)
(*                                                                         *)
(* The refresh flight: type correctness, at most one refresh on the wire,  *)
(* no spent token shown again by the client's own doing, no waiter without *)
(* an owner, and the refinement of SingleFlight.  The issuer's keys: how   *)
(* long a withdrawn key is honoured, and when one still published may be   *)
(* refused.  The revoked sessions: what is known stays known, and when a   *)
(* revoked session may still be found live.                                *)
(***************************************************************************)
EXTENDS RefreshGuard, JwksCache, RevocationFeed, TLAPS

-----------------------------------------------------------------------------
(* The refresh flight. *)

\* The slot and the futures.  A pending future is the newest one and sits in
\* the slot, and exactly the caller on the unpublished stretch owns it.
SlotInv ==
    /\ slot \in {0, generation}
    /\ \A g \in 1..generation :
          outcome[g] = "pending" =>
              /\ g = generation
              /\ slot = g
              /\ \E d \in Callers : pc[d] \in Unpublished /\ mine[d] = g
    /\ \A c \in Callers :
          /\ pc[c] \in Inside => mine[c] \in 1..generation
          /\ pc[c] \in Unpublished =>
                mine[c] = generation /\ outcome[generation] = "pending"
          /\ pc[c] \in {"vacate", "leave"} => outcome[mine[c]] # "pending"

\* The tokens.  A request on the wire carries the token in the jar, and the jar
\* is behind the server only between the server's answer and its arrival, or
\* for good once that answer is lost.
TokenInv ==
    /\ \A c \in Callers :
          /\ pc[c] \in {"wire", "answered"} => carried[c] = jar
          /\ pc[c] = "answered" => server = jar + 1
    /\ \/ jar = server
       \/ jar \in lost
       \/ \E c \in Callers : pc[c] = "answered"
    /\ replayed \subseteq lost

IInv == TypeOK /\ SlotInv /\ OneRefreshAtATime /\ TokenInv

-----------------------------------------------------------------------------
\* The invariant holds of a guard nobody has used.
LEMMA InitIInv == Init => IInv
  BY DEF Init, IInv, TypeOK, SlotInv, OneRefreshAtATime, TokenInv,
         Places, Inside, Unpublished, Idle

\* Every step keeps it: first the types, then the parts, one action at a time.
LEMMA StepTypeOK == TypeOK /\ SlotInv /\ [Next]_vars => TypeOK'
  <1> SUFFICES ASSUME TypeOK, SlotInv, [Next]_vars PROVE TypeOK'
    OBVIOUS
  <1> USE DEF TypeOK, SlotInv, Places, Inside, Unpublished, Idle, Move,
              guardVars, wireVars
  <1>1. CASE UNCHANGED vars
    BY <1>1 DEF vars
  <1>2. CASE Quiescent
    BY <1>2 DEF Quiescent, vars
  <1>3. ASSUME NEW c \in Callers, Call(c) PROVE TypeOK'
    BY <1>3 DEF Call
  <1>4. ASSUME NEW c \in Callers, Join(c) PROVE TypeOK'
    BY <1>4 DEF Join
  <1>5. ASSUME NEW c \in Callers, Own(c) PROVE TypeOK'
    BY <1>5 DEF Own
  <1>6. ASSUME NEW c \in Callers, CountWireCall(c) PROVE TypeOK'
    BY <1>6 DEF CountWireCall
  <1>7. ASSUME NEW c \in Callers, SendRefresh(c) PROVE TypeOK'
    BY <1>7 DEF SendRefresh
  <1>8. ASSUME NEW c \in Callers, ServerRotates(c) PROVE TypeOK'
    BY <1>8 DEF ServerRotates
  <1>9. ASSUME NEW c \in Callers, ServerRejectsReplay(c) PROVE TypeOK'
    <2>1. carried[c] \in Nat
      OBVIOUS
    <2>2. replayed' \subseteq Nat
      BY <2>1, <1>9 DEF ServerRejectsReplay
    <2>3. QED
      BY <2>2, <1>9 DEF ServerRejectsReplay
  <1>10. ASSUME NEW c \in Callers, RequestFails(c) PROVE TypeOK'
    BY <1>10 DEF RequestFails
  <1>11. ASSUME NEW c \in Callers, InstallCookies(c) PROVE TypeOK'
    BY <1>11 DEF InstallCookies
  <1>12. ASSUME NEW c \in Callers, AnswerLost(c) PROVE TypeOK'
    <2>1. carried[c] \in Nat
      OBVIOUS
    <2>2. lost' \subseteq Nat
      BY <2>1, <1>12 DEF AnswerLost
    <2>3. QED
      BY <2>2, <1>12 DEF AnswerLost
  <1>13. ASSUME NEW c \in Callers, Publish(c) PROVE TypeOK'
    BY <1>13 DEF Publish
  <1>14. ASSUME NEW c \in Callers, Vacate(c) PROVE TypeOK'
    BY <1>14 DEF Vacate
  <1>15. ASSUME NEW c \in Callers, Wake(c) PROVE TypeOK'
    BY <1>15 DEF Wake
  <1>16. ASSUME NEW c \in Callers, Return(c) PROVE TypeOK'
    BY <1>16 DEF Return
  <1>17. QED
    BY <1>1, <1>2, <1>3, <1>4, <1>5, <1>6, <1>7, <1>8, <1>9, <1>10, <1>11,
       <1>12, <1>13, <1>14, <1>15, <1>16 DEF Next, Step

LEMMA StepSlotInv ==
  TypeOK /\ SlotInv /\ OneRefreshAtATime /\ [Next]_vars
    => SlotInv' /\ OneRefreshAtATime'
  <1> SUFFICES ASSUME TypeOK, SlotInv, OneRefreshAtATime, [Next]_vars
               PROVE  SlotInv' /\ OneRefreshAtATime'
    OBVIOUS
  <1> USE DEF TypeOK, SlotInv, OneRefreshAtATime, Places, Inside, Unpublished,
              Idle, Move, Live, guardVars, wireVars
  <1>1. CASE UNCHANGED vars
    BY <1>1 DEF vars
  <1>2. CASE Quiescent
    BY <1>2 DEF Quiescent, vars
  <1>3. ASSUME NEW c \in Callers, Call(c) PROVE SlotInv' /\ OneRefreshAtATime'
    BY <1>3 DEF Call
  <1>4. ASSUME NEW c \in Callers, Join(c) PROVE SlotInv' /\ OneRefreshAtATime'
    BY <1>4 DEF Join
  <1>5. ASSUME NEW c \in Callers, Own(c) PROVE SlotInv' /\ OneRefreshAtATime'
    BY <1>5 DEF Own
  <1>6. ASSUME NEW c \in Callers, CountWireCall(c)
        PROVE SlotInv' /\ OneRefreshAtATime'
    BY <1>6 DEF CountWireCall
  <1>7. ASSUME NEW c \in Callers, SendRefresh(c)
        PROVE SlotInv' /\ OneRefreshAtATime'
    BY <1>7 DEF SendRefresh
  <1>8. ASSUME NEW c \in Callers, ServerRotates(c)
        PROVE SlotInv' /\ OneRefreshAtATime'
    BY <1>8 DEF ServerRotates
  <1>9. ASSUME NEW c \in Callers, ServerRejectsReplay(c)
        PROVE SlotInv' /\ OneRefreshAtATime'
    BY <1>9 DEF ServerRejectsReplay
  <1>10. ASSUME NEW c \in Callers, RequestFails(c)
         PROVE SlotInv' /\ OneRefreshAtATime'
    BY <1>10 DEF RequestFails
  <1>11. ASSUME NEW c \in Callers, InstallCookies(c)
         PROVE SlotInv' /\ OneRefreshAtATime'
    BY <1>11 DEF InstallCookies
  <1>12. ASSUME NEW c \in Callers, AnswerLost(c)
         PROVE SlotInv' /\ OneRefreshAtATime'
    BY <1>12 DEF AnswerLost
  <1>13. ASSUME NEW c \in Callers, Publish(c)
         PROVE SlotInv' /\ OneRefreshAtATime'
    BY <1>13 DEF Publish
  <1>14. ASSUME NEW c \in Callers, Vacate(c)
         PROVE SlotInv' /\ OneRefreshAtATime'
    BY <1>14 DEF Vacate
  <1>15. ASSUME NEW c \in Callers, Wake(c) PROVE SlotInv' /\ OneRefreshAtATime'
    BY <1>15 DEF Wake
  <1>16. ASSUME NEW c \in Callers, Return(c)
         PROVE SlotInv' /\ OneRefreshAtATime'
    BY <1>16 DEF Return
  <1>17. QED
    BY <1>1, <1>2, <1>3, <1>4, <1>5, <1>6, <1>7, <1>8, <1>9, <1>10, <1>11,
       <1>12, <1>13, <1>14, <1>15, <1>16 DEF Next, Step

LEMMA StepTokenInv == IInv /\ [Next]_vars => TokenInv'
  <1> SUFFICES ASSUME TypeOK, SlotInv, OneRefreshAtATime, TokenInv, [Next]_vars
               PROVE  TokenInv'
    BY DEF IInv
  <1> USE DEF TypeOK, SlotInv, OneRefreshAtATime, TokenInv, Places, Inside,
              Unpublished, Idle, Move, Live, guardVars, wireVars
  <1>1. CASE UNCHANGED vars
    BY <1>1 DEF vars
  <1>2. CASE Quiescent
    BY <1>2 DEF Quiescent, vars
  <1>3. ASSUME NEW c \in Callers, Call(c) PROVE TokenInv'
    BY <1>3 DEF Call
  <1>4. ASSUME NEW c \in Callers, Join(c) PROVE TokenInv'
    BY <1>4 DEF Join
  <1>5. ASSUME NEW c \in Callers, Own(c) PROVE TokenInv'
    BY <1>5 DEF Own
  <1>6. ASSUME NEW c \in Callers, CountWireCall(c) PROVE TokenInv'
    BY <1>6 DEF CountWireCall
  <1>7. ASSUME NEW c \in Callers, SendRefresh(c) PROVE TokenInv'
    BY <1>7 DEF SendRefresh
  <1>8. ASSUME NEW c \in Callers, ServerRotates(c) PROVE TokenInv'
    BY <1>8 DEF ServerRotates
  <1>9. ASSUME NEW c \in Callers, ServerRejectsReplay(c) PROVE TokenInv'
    <2>1. carried[c] = jar /\ jar # server
      BY <1>9 DEF ServerRejectsReplay
    <2>2. \A d \in Callers : pc[d] # "answered"
      BY <1>9 DEF ServerRejectsReplay
    <2>3. jar \in lost
      BY <2>1, <2>2
    <2>4. replayed' \subseteq lost'
      BY <2>1, <2>3, <1>9 DEF ServerRejectsReplay
    <2>5. QED
      BY <2>3, <2>4, <1>9 DEF ServerRejectsReplay
  <1>10. ASSUME NEW c \in Callers, RequestFails(c) PROVE TokenInv'
    BY <1>10 DEF RequestFails
  <1>11. ASSUME NEW c \in Callers, InstallCookies(c) PROVE TokenInv'
    BY <1>11 DEF InstallCookies
  <1>12. ASSUME NEW c \in Callers, AnswerLost(c) PROVE TokenInv'
    BY <1>12 DEF AnswerLost
  <1>13. ASSUME NEW c \in Callers, Publish(c) PROVE TokenInv'
    BY <1>13 DEF Publish
  <1>14. ASSUME NEW c \in Callers, Vacate(c) PROVE TokenInv'
    BY <1>14 DEF Vacate
  <1>15. ASSUME NEW c \in Callers, Wake(c) PROVE TokenInv'
    BY <1>15 DEF Wake
  <1>16. ASSUME NEW c \in Callers, Return(c) PROVE TokenInv'
    BY <1>16 DEF Return
  <1>17. QED
    BY <1>1, <1>2, <1>3, <1>4, <1>5, <1>6, <1>7, <1>8, <1>9, <1>10, <1>11,
       <1>12, <1>13, <1>14, <1>15, <1>16 DEF Next, Step

LEMMA Invariance == Spec => []IInv
  <1>1. Init => IInv
    BY InitIInv
  <1>2. IInv /\ [Next]_vars => IInv'
    BY StepTypeOK, StepSlotInv, StepTokenInv DEF IInv
  <1>3. QED
    BY <1>1, <1>2, PTL DEF Spec

-----------------------------------------------------------------------------
\* Every variable of the guard keeps its type.
THEOREM TypeCorrect == Spec => []TypeOK
  BY Invariance, PTL DEF IInv

\* However callers interleave, at most one is between taking the slot and
\* publishing: there is never a second refresh on the wire.
THEOREM SingleRefreshOnTheWire == Spec => []OneRefreshAtATime
  BY Invariance, PTL DEF IInv

\* The server is shown a token it has already taken only when its answer to
\* the first showing was lost.
THEOREM SpentTokenNotShownAgain == Spec => []NoSelfInflictedReplay
  <1>1. IInv => NoSelfInflictedReplay
    BY DEF IInv, TokenInv, NoSelfInflictedReplay
  <1>2. QED
    BY <1>1, Invariance, PTL

\* A caller that finds no refresh in flight finds the rotated token installed.
THEOREM RotatedBeforeVacated == Spec => []EmptySlotMeansRotated
  <1>1. ASSUME IInv, NEW c \in Callers, pc[c] = "answered" PROVE Live
    <2>1. /\ generation \in 1..generation
          /\ outcome[generation] = "pending"
      BY <1>1 DEF IInv, TypeOK, SlotInv, Inside, Unpublished
    <2>2. slot = generation /\ generation # 0
      BY <1>1, <2>1 DEF IInv, TypeOK, SlotInv
    <2>3. QED
      BY <2>1, <2>2 DEF Live
  <1>2. IInv => EmptySlotMeansRotated
    BY <1>1 DEF IInv, TokenInv, EmptySlotMeansRotated
  <1>3. QED
    BY <1>2, Invariance, PTL

\* No waiter is left on a promise that has no owner to satisfy it.
THEOREM NoOrphanedWaiter == Spec => []WaitersHaveAnOwner
  <1>1. IInv => WaitersHaveAnOwner
    BY DEF IInv, TypeOK, SlotInv, WaitersHaveAnOwner, Inside, Unpublished
  <1>2. QED
    BY <1>1, Invariance, PTL

-----------------------------------------------------------------------------
\* The flight a caller is on, as the refinement sees it.
Boarded == [c \in Callers |-> IF pc[c] \in Inside THEN mine[c] ELSE 0]

\* A step that keeps every caller's flight and installs or settles no future
\* is a stutter of the abstract guard.
LEMMA Stutter ==
  ASSUME Boarded' = Boarded, UNCHANGED <<generation, outcome>>
  PROVE  [Flights!Next]_(Flights!vars)
  BY DEF Boarded, Flights!vars

\* A step of the guard starts, joins, lands or leaves a flight, or stutters.
LEMMA StepSimulation == IInv /\ [Next]_vars => [Flights!Next]_(Flights!vars)
  <1> SUFFICES ASSUME TypeOK, SlotInv, [Next]_vars
               PROVE  [Flights!Next]_(Flights!vars)
    BY DEF IInv
  <1> USE DEF TypeOK, SlotInv, Places, Inside, Unpublished, Idle, Move, Live,
              guardVars, wireVars, Boarded
  <1>1. CASE UNCHANGED vars
    BY <1>1, Stutter DEF vars
  <1>2. CASE Quiescent
    BY <1>2, Stutter DEF Quiescent, vars
  <1>3. ASSUME NEW c \in Callers, Call(c) PROVE [Flights!Next]_(Flights!vars)
    BY <1>3, Stutter DEF Call
  <1>4. ASSUME NEW c \in Callers, Join(c) PROVE [Flights!Next]_(Flights!vars)
    <2>1. slot = generation /\ generation # 0 /\ outcome[generation] = "pending"
      BY <1>4 DEF Join
    <2>2. Boarded[c] = 0 /\ Boarded' = [Boarded EXCEPT ![c] = generation]
      BY <1>4, <2>1 DEF Join
    <2>3. Flights!Join(c)
      BY <1>4, <2>1, <2>2 DEF Join, Flights!Join, Flights!InTheAir
    <2>4. QED
      BY <2>3 DEF Flights!Next
  <1>5. ASSUME NEW c \in Callers, Own(c) PROVE [Flights!Next]_(Flights!vars)
    <2>1. ~(generation # 0 /\ outcome[generation] = "pending")
      BY <1>5 DEF Own
    <2>2. Boarded[c] = 0 /\ Boarded' = [Boarded EXCEPT ![c] = generation + 1]
      BY <1>5 DEF Own
    <2>3. Flights!Start(c)
      BY <1>5, <2>1, <2>2 DEF Own, Flights!Start, Flights!InTheAir
    <2>4. QED
      BY <2>3 DEF Flights!Next
  <1>6. ASSUME NEW c \in Callers, CountWireCall(c)
        PROVE [Flights!Next]_(Flights!vars)
    BY <1>6, Stutter DEF CountWireCall
  <1>7. ASSUME NEW c \in Callers, SendRefresh(c)
        PROVE [Flights!Next]_(Flights!vars)
    BY <1>7, Stutter DEF SendRefresh
  <1>8. ASSUME NEW c \in Callers, ServerRotates(c)
        PROVE [Flights!Next]_(Flights!vars)
    BY <1>8, Stutter DEF ServerRotates
  <1>9. ASSUME NEW c \in Callers, ServerRejectsReplay(c)
        PROVE [Flights!Next]_(Flights!vars)
    BY <1>9, Stutter DEF ServerRejectsReplay
  <1>10. ASSUME NEW c \in Callers, RequestFails(c)
        PROVE [Flights!Next]_(Flights!vars)
    BY <1>10, Stutter DEF RequestFails
  <1>11. ASSUME NEW c \in Callers, InstallCookies(c)
        PROVE [Flights!Next]_(Flights!vars)
    BY <1>11, Stutter DEF InstallCookies
  <1>12. ASSUME NEW c \in Callers, AnswerLost(c)
        PROVE [Flights!Next]_(Flights!vars)
    BY <1>12, Stutter DEF AnswerLost
  <1>14. ASSUME NEW c \in Callers, Vacate(c)
        PROVE [Flights!Next]_(Flights!vars)
    BY <1>14, Stutter DEF Vacate
  <1>15. ASSUME NEW c \in Callers, Wake(c)
        PROVE [Flights!Next]_(Flights!vars)
    BY <1>15, Stutter DEF Wake
  <1>13. ASSUME NEW c \in Callers, Publish(c)
         PROVE [Flights!Next]_(Flights!vars)
    <2>1. mine[c] = generation /\ generation # 0 /\ outcome[generation] = "pending"
      BY <1>13 DEF Publish
    <2>2. Boarded' = Boarded
      BY <1>13 DEF Publish
    <2>3. \E r \in {"ok", "failed"} :
             outcome' = [outcome EXCEPT ![generation] = r]
      BY <1>13, <2>1 DEF Publish
    <2>4. Flights!Land
      BY <1>13, <2>1, <2>2, <2>3 DEF Publish, Flights!Land, Flights!InTheAir
    <2>5. QED
      BY <2>4 DEF Flights!Next
  <1>16. ASSUME NEW c \in Callers, Return(c)
         PROVE [Flights!Next]_(Flights!vars)
    <2>1. pc[c] = "leave" /\ pc' = [pc EXCEPT ![c] = "idle"] /\ mine' = mine
      BY <1>16 DEF Return
    <2>2. mine[c] # 0 /\ outcome[mine[c]] # "pending"
      BY <2>1
    <2>3. Boarded[c] = mine[c]
      BY <2>1
    <2>4. Boarded' = [Boarded EXCEPT ![c] = 0]
      BY <2>1
    <2>5. Flights!Leave(c)
      BY <1>16, <2>2, <2>3, <2>4 DEF Return, Flights!Leave
    <2>6. QED
      BY <2>5 DEF Flights!Next
  <1>17. QED
    BY <1>1, <1>2, <1>3, <1>4, <1>5, <1>6, <1>7, <1>8, <1>9, <1>10, <1>11,
       <1>12, <1>13, <1>14, <1>15, <1>16 DEF Next, Step

\* The mutex, the slot, the promise and the generations together implement the
\* abstract single flight, for any callers and any number of calls.
THEOREM GuardImplementsSingleFlight == Spec => ImplementsSingleFlight
  <1>1. Init => Flights!Init
    BY DEF Init, Flights!Init, Inside, Unpublished, Idle
  <1>2. IInv /\ [Next]_vars => [Flights!Next]_(Flights!vars)
    BY StepSimulation
  <1>3. QED
    BY <1>1, <1>2, Invariance, PTL
       DEF Spec, ImplementsSingleFlight, Flights!Spec

-----------------------------------------------------------------------------
(* The issuer's keys. *)

Fetching == {"fetch", "arriving"}
HoldsKeys == Fetching \cup {"find"}

Vers == [kid : Kids \cup {NoKid}, at : Nat, doc : SUBSET Kids,
         again : BOOLEAN, failed : BOOLEAN, steady : BOOLEAN]

KeysPlaces == HoldsKeys \cup {"idle", "lock", "verified", "refused"}

KeysTypeOK ==
    /\ now \in Nat
    /\ published \subseteq Kids /\ keys \subseteq Kids
    /\ withdrawnAt \in [Kids -> Int]
    /\ haveKeys \in BOOLEAN /\ fetchedAt \in Nat /\ cooldownUntil \in Int
    /\ vpc \in [Threads -> KeysPlaces]
    /\ ver \in [Threads -> Vers]

\* mtx_ is held by whoever is between a staleness check and a verdict.
KeysLocked == \A t \in Threads : vpc[t] \in HoldsKeys => holder = t

\* A key in k's place was published at `when' or later.
PublishedSince(k, when) == k \in published \/ withdrawnAt[k] >= when

\* What is cached was published when its fetch began, and so was the answer on
\* its way; a cache its holder has looked at is younger than its time to live
\* or the fruit of the holder's own fetch.
KeysDated ==
    /\ fetchedAt <= now
    /\ \A k \in keys : PublishedSince(k, fetchedAt)
    /\ \A t \in Threads :
          /\ ver[t].at <= now
          /\ vpc[t] = "arriving" => \A k \in ver[t].doc : PublishedSince(k, ver[t].at)
          /\ vpc[t] = "find" /\ ~ver[t].failed => ver[t].at - fetchedAt <= CacheTtl
          /\ vpc[t] = "verified" => ver[t].kid \in Kids
          /\ vpc[t] = "verified" /\ ~ver[t].failed =>
                PublishedSince(ver[t].kid, ver[t].at - CacheTtl)

\* A key that stays published is in every answer read meanwhile.
SteadyKeysArrive ==
    \A t \in Threads : ver[t].steady =>
        /\ ver[t].kid \in published
        /\ vpc[t] = "lock" => ~ver[t].again
        /\ vpc[t] = "arriving" => ver[t].kid \in ver[t].doc
        /\ vpc[t] = "find" /\ ver[t].again /\ ~ver[t].failed => ver[t].kid \in keys
        /\ vpc[t] = "refused" => ver[t].failed \/ ~ver[t].again

KeysInv == KeysTypeOK /\ KeysLocked /\ KeysDated /\ SteadyKeysArrive

\* The invariant holds of a verifier nobody has used.
LEMMA NoVerType ==
    /\ NoVer \in Vers /\ NoVer.kid = NoKid /\ NoVer.at = 0
    /\ ~NoVer.steady
  BY DEF NoVer, Vers

LEMMA InitKeysInv == JwksInit => KeysInv
  <1> SUFFICES ASSUME JwksInit PROVE KeysInv
    OBVIOUS
  <1>1. KeysTypeOK
    <2>1. ver \in [Threads -> Vers]
      BY NoVerType DEF JwksInit
    <2>2. vpc \in [Threads -> KeysPlaces]
      BY DEF JwksInit, KeysPlaces
    <2>3. withdrawnAt \in [Kids -> Int]
      BY DEF JwksInit
    <2>4. published \subseteq Kids
      BY DEF JwksInit
    <2>5. now \in Nat /\ fetchedAt \in Nat /\ cooldownUntil \in Int
      BY DEF JwksInit
    <2>6. keys \subseteq Kids /\ haveKeys \in BOOLEAN
      BY DEF JwksInit
    <2>7. QED
      BY <2>1, <2>2, <2>3, <2>4, <2>5, <2>6 DEF KeysTypeOK
  <1>2. KeysLocked 
    BY DEF KeysLocked, JwksInit, HoldsKeys, Fetching
  <1>3. KeysDated
    BY NoVerType DEF JwksInit, KeysDated
  <1>4. SteadyKeysArrive
    BY NoVerType DEF JwksInit, SteadyKeysArrive
  <1>5. QED
    BY <1>1, <1>2, <1>3, <1>4 DEF KeysInv
\* One thread moves, and its locals keep their types.
KeysMove(t) ==
    /\ vpc' \in [Threads -> KeysPlaces] /\ ver' \in [Threads -> Vers]
    /\ \A u \in Threads \ {t} : vpc'[u] = vpc[u] /\ ver'[u] = ver[u]

LEMMA SectionMoves ==
    ASSUME KeysTypeOK, NEW t \in Threads, JwksSection(t) PROVE KeysMove(t)
  <1>1. /\ vpc \in [Threads -> KeysPlaces] /\ ver \in [Threads -> Vers]
        /\ now \in Nat /\ published \subseteq Kids
    BY DEF KeysTypeOK
  <1>2. \A to \in KeysPlaces, v \in Vers :
          vpc' = [vpc EXCEPT ![t] = to] /\ ver' = [ver EXCEPT ![t] = v] => KeysMove(t)
    BY <1>1 DEF KeysMove
  <1>3. \A to \in KeysPlaces :
          vpc' = [vpc EXCEPT ![t] = to] /\ ver' = ver => KeysMove(t)
    BY <1>1 DEF KeysMove
  <1>4. \A to \in {"find", "fetch", "arriving", "idle", "verified", "refused"} : to \in KeysPlaces
    BY DEF KeysPlaces, HoldsKeys, Fetching
  <1>5. \A n \in Nat, f \in BOOLEAN, d \in SUBSET Kids :
          /\ [ver[t] EXCEPT !.at = n] \in Vers
          /\ [ver[t] EXCEPT !.doc = d] \in Vers
          /\ [ver[t] EXCEPT !.doc = d, !.failed = f] \in Vers
          /\ [ver[t] EXCEPT !.again = f, !.at = n] \in Vers
    BY <1>1 DEF Vers
  <1>6. CASE LockKeys(t)
    BY <1>2, <1>4, <1>5, <1>6, <1>1 DEF LockKeys, Goto
  <1>7. CASE LockAndRefresh(t)
    BY <1>2, <1>4, <1>5, <1>7, <1>1 DEF LockAndRefresh, Goto
  <1>8. CASE IssuerAnswers(t)
    BY <1>2, <1>4, <1>5, <1>8, <1>1 DEF IssuerAnswers, Goto
  <1>9. CASE KeysArrive(t)
    <2>1. ver' = [ver EXCEPT ![t] = [ver[t] EXCEPT !.doc = {}, !.failed = FALSE]]
      BY <1>9, <1>1 DEF KeysArrive
    <2>2. QED
      BY <1>2, <1>4, <1>5, <1>9, <2>1 DEF KeysArrive, LoadKeys, Goto
  <1>10. CASE KeysUnreadable(t)
    <2>1. ver' = [ver EXCEPT ![t] = [ver[t] EXCEPT !.doc = {}, !.failed = TRUE]]
      BY <1>10, <1>1 DEF KeysUnreadable
    <2>2. QED
      BY <1>2, <1>4, <1>5, <1>10, <2>1 DEF KeysUnreadable, LoadKeys, Goto
  <1>11. CASE FetchFails(t)
    <2>1. ver' = [ver EXCEPT ![t] = [ver[t] EXCEPT !.doc = {}, !.failed = TRUE]]
      BY <1>11, <1>1 DEF FetchFails
    <2>2. QED
      BY <1>2, <1>4, <1>5, <1>11, <2>1 DEF FetchFails
  <1>12. CASE Verified(t)
    BY <1>3, <1>4, <1>12 DEF Verified, Unlock, Goto
  <1>13. CASE Refetch(t)
    <2>1. ver' = [ver EXCEPT ![t] = [ver[t] EXCEPT !.again = TRUE, !.at = now]]
      BY <1>13, <1>1 DEF Refetch
    <2>2. QED
      BY <1>1, <1>2, <1>4, <1>5, <1>13, <2>1 DEF Refetch, Goto
  <1>14. CASE UnknownKid(t)
    BY <1>3, <1>4, <1>14 DEF UnknownKid, Unlock, Goto
  <1>15. CASE ReturnVerdict(t)
    BY <1>2, <1>4, <1>15, NoVerType DEF ReturnVerdict
  <1>16. QED
    BY <1>6, <1>7, <1>8, <1>9, <1>10, <1>11, <1>12, <1>13, <1>14, <1>15 DEF JwksSection
LEMMA SectionTypes ==
    ASSUME KeysTypeOK, NEW t \in Threads, JwksStep(t) PROVE KeysTypeOK'
  <1>1. KeysMove(t)
    BY SectionMoves DEF JwksStep
  <1>2. now' = now /\ published' = published /\ withdrawnAt' = withdrawnAt
    BY DEF JwksStep, JwksSection, LockKeys, LockAndRefresh, IssuerAnswers, KeysArrive,
           KeysUnreadable, FetchFails, Verified, Refetch, UnknownKid, ReturnVerdict,
           LoadKeys, issuerVars
  <1>3. ver[t].doc \subseteq Kids /\ ver[t].at \in Nat
    BY DEF KeysTypeOK, Vers
  <1>4. keys' \subseteq Kids
    BY <1>3 DEF JwksStep, JwksSection, LockKeys, LockAndRefresh, IssuerAnswers, KeysArrive,
           KeysUnreadable, FetchFails, Verified, Refetch, UnknownKid, ReturnVerdict,
           LoadKeys, cacheVars, KeysTypeOK
  <1>5. fetchedAt' \in Nat
    BY <1>3 DEF JwksStep, JwksSection, LockKeys, LockAndRefresh, IssuerAnswers, KeysArrive,
           KeysUnreadable, FetchFails, Verified, Refetch, UnknownKid, ReturnVerdict,
           LoadKeys, cacheVars, KeysTypeOK
  <1>6. haveKeys' \in BOOLEAN
    BY DEF JwksStep, JwksSection, LockKeys, LockAndRefresh, IssuerAnswers, KeysArrive,
           KeysUnreadable, FetchFails, Verified, Refetch, UnknownKid, ReturnVerdict,
           LoadKeys, cacheVars, KeysTypeOK
  <1>7. cooldownUntil' \in Int
    <2>1. cooldownUntil' = cooldownUntil \/ cooldownUntil' = now + Cooldown
      BY DEF JwksStep, JwksSection, LockKeys, LockAndRefresh, IssuerAnswers, KeysArrive,
             KeysUnreadable, FetchFails, Verified, Refetch, UnknownKid, ReturnVerdict,
             LoadKeys, cacheVars
    <2>2. now \in Nat /\ cooldownUntil \in Int /\ Cooldown \in Nat
      BY JwksAssumption DEF KeysTypeOK
    <2>3. QED
      BY <2>1, <2>2
  <1>8. QED
    BY <1>1, <1>2, <1>4, <1>5, <1>6, <1>7 DEF KeysTypeOK, KeysMove

\* A thread's section keeps the lock's meaning.
LEMMA SectionLocks ==
    ASSUME KeysTypeOK, KeysLocked, NEW t \in Threads, JwksSection(t) PROVE KeysLocked'
  <1>1. KeysMove(t) /\ vpc \in [Threads -> KeysPlaces]
    BY SectionMoves DEF KeysTypeOK
  <1>2. t # NoThread /\ \A u \in Threads : u # NoThread
    BY JwksAssumption DEF NoThread
  <1>3. CASE holder = NoThread /\ holder' = t
    BY <1>1, <1>2, <1>3 DEF KeysMove, KeysLocked
  <1>4. CASE holder' = holder /\ (vpc'[t] \in HoldsKeys => vpc[t] \in HoldsKeys)
    BY <1>1, <1>4 DEF KeysMove, KeysLocked
  <1>5. CASE vpc[t] \in HoldsKeys /\ vpc'[t] \notin HoldsKeys
    BY <1>1, <1>5 DEF KeysMove, KeysLocked
  <1>6. CASE LockKeys(t) \/ LockAndRefresh(t)
    BY <1>3, <1>6 DEF LockKeys, LockAndRefresh
  <1>7. CASE IssuerAnswers(t) \/ KeysArrive(t) \/ KeysUnreadable(t) \/ FetchFails(t) \/ Refetch(t)
    BY <1>4, <1>7 DEF IssuerAnswers, KeysArrive, KeysUnreadable, FetchFails, Refetch, LoadKeys,
                      Goto, HoldsKeys, Fetching
  <1>8. CASE Verified(t) \/ UnknownKid(t)
    BY <1>1, <1>5, <1>8 DEF Verified, UnknownKid, Unlock, Goto, HoldsKeys, Fetching
  <1>9. CASE ReturnVerdict(t)
    BY <1>1, <1>4, <1>9 DEF ReturnVerdict, HoldsKeys, Fetching
  <1>10. QED
    BY <1>6, <1>7, <1>8, <1>9 DEF JwksSection

\* While the issuer's keys stay as they are, a thread that stands where it stood
\* has nothing to fear from a step that leaves the cached keys alone.
LEMMA SectionDated ==
    ASSUME KeysTypeOK, KeysLocked, KeysDated, NEW t \in Threads, JwksStep(t) PROVE KeysDated'
  <1>1. /\ KeysMove(t) /\ vpc \in [Threads -> KeysPlaces] /\ ver \in [Threads -> Vers]
        /\ ver[t] \in Vers /\ ver'[t] \in Vers
    BY SectionMoves DEF KeysTypeOK, JwksStep, KeysMove
  <1>2. now' = now /\ published' = published /\ withdrawnAt' = withdrawnAt
    BY DEF JwksStep, JwksSection, LockKeys, LockAndRefresh, IssuerAnswers, KeysArrive,
           KeysUnreadable, FetchFails, Verified, Refetch, UnknownKid, ReturnVerdict,
           LoadKeys, issuerVars
  <1>3. /\ now \in Nat /\ fetchedAt \in Nat /\ keys \subseteq Kids /\ CacheTtl \in Nat
        /\ withdrawnAt \in [Kids -> Int]
        /\ \A u \in Threads : ver[u].at \in Nat /\ ver[u].doc \subseteq Kids
    BY <1>1, JwksAssumption DEF KeysTypeOK, Vers
  <1> DEFINE Dated(u) ==
          /\ ver[u].at <= now
          /\ vpc[u] = "arriving" => \A k \in ver[u].doc : PublishedSince(k, ver[u].at)
          /\ vpc[u] = "find" /\ ~ver[u].failed => ver[u].at - fetchedAt <= CacheTtl
          /\ vpc[u] = "verified" => ver[u].kid \in Kids
          /\ vpc[u] = "verified" /\ ~ver[u].failed =>
                PublishedSince(ver[u].kid, ver[u].at - CacheTtl)
  <1>4. \A u \in Threads : Dated(u)
    BY DEF KeysDated
  <1>5. ASSUME keys' = keys, fetchedAt' = fetchedAt, Dated(t)'
        PROVE  KeysDated'
    <2>1. \A u \in Threads \ {t} : Dated(u)'
      BY <1>1, <1>2, <1>4, <1>5 DEF KeysMove, PublishedSince
    <2>2. fetchedAt <= now /\ \A k \in keys' : PublishedSince(k, fetchedAt)'
      BY <1>2, <1>5 DEF KeysDated, PublishedSince
    <2>3. QED
      BY <1>2, <1>5, <2>1, <2>2 DEF KeysDated
  <1>6. ASSUME vpc[t] = "arriving", keys' \subseteq ver[t].doc, fetchedAt' = ver[t].at,
               Dated(t)'
        PROVE  KeysDated'
    <2>1. \A u \in Threads \ {t} : vpc'[u] # "find"
      BY <1>1, <1>6 DEF KeysMove, KeysLocked, HoldsKeys, Fetching
    <2>2. \A u \in Threads \ {t} : Dated(u)'
      BY <1>1, <1>2, <1>4, <2>1 DEF KeysMove, PublishedSince
    <2>3. \A k \in keys' : PublishedSince(k, fetchedAt)'
      BY <1>2, <1>4, <1>6 DEF PublishedSince
    <2>4. QED
      BY <1>2, <1>4, <1>6, <2>2, <2>3 DEF KeysDated
  <1> DEFINE to == vpc'[t]
             after == ver'[t]
  <1>7. CASE LockKeys(t)
    <2>1. /\ after = [ver[t] EXCEPT !.at = now] /\ to \in {"find", "fetch"}
          /\ to = "find" => now - fetchedAt < CacheTtl
      BY <1>1, <1>7 DEF LockKeys, Goto, KeysFresh
    <2>2. Dated(t)'
      BY <1>2, <1>3, <2>1, <1>7, <1>1 DEF LockKeys, cacheVars, Vers
    <2>3. QED
      BY <1>5, <1>7, <2>2 DEF LockKeys, cacheVars
  <1>8. CASE LockAndRefresh(t) \/ Refetch(t)
    <2>1. after.at = now /\ to = "fetch"
      BY <1>1, <1>8 DEF LockAndRefresh, Refetch, Goto, Vers
    <2>2. Dated(t)'
      BY <1>2, <1>3, <2>1
    <2>3. QED
      BY <1>5, <1>8, <2>2 DEF LockAndRefresh, Refetch
  <1>9. CASE IssuerAnswers(t)
    <2>1. after.at = ver[t].at /\ after.doc = published /\ to = "arriving"
      BY <1>1, <1>9 DEF IssuerAnswers, Goto, Vers
    <2>2. Dated(t)'
      BY <1>2, <1>4, <2>1 DEF PublishedSince
    <2>3. QED
      BY <1>5, <1>9, <2>2 DEF IssuerAnswers, cacheVars
  <1>10. CASE KeysArrive(t) \/ KeysUnreadable(t)
    <2>1. /\ after.at = ver[t].at /\ to = "find" /\ vpc[t] = "arriving"
          /\ keys' \subseteq ver[t].doc /\ fetchedAt' = ver[t].at
      BY <1>1, <1>10 DEF KeysArrive, KeysUnreadable, LoadKeys, Goto, Vers
    <2>2. Dated(t)'
      BY <1>2, <1>3, <1>4, <2>1
    <2>3. QED
      BY <1>6, <2>1, <2>2
  <1>11. CASE FetchFails(t)
    <2>1. after.at = ver[t].at /\ after.failed /\ to = "find"
      BY <1>1, <1>11 DEF FetchFails, Vers
    <2>2. Dated(t)'
      BY <1>2, <1>4, <2>1
    <2>3. QED
      BY <1>5, <1>11, <2>2 DEF FetchFails, cacheVars
  <1>12. CASE Verified(t)
    <2>1. /\ after = ver[t] /\ to = "verified" /\ vpc[t] = "find" /\ ver[t].kid \in keys
      BY <1>1, <1>12 DEF Verified, Unlock, Goto, Known
    <2>2. ~ver[t].failed => PublishedSince(ver[t].kid, ver[t].at - CacheTtl)
      BY <1>3, <1>4, <2>1 DEF PublishedSince, KeysDated
    <2>3. Dated(t)'
      BY <1>2, <1>3, <1>4, <2>1, <2>2 DEF PublishedSince
    <2>4. QED
      BY <1>5, <1>12, <2>3 DEF Verified, cacheVars
  <1>13. CASE UnknownKid(t)
    <2>1. after = ver[t] /\ to = "refused"
      BY <1>1, <1>13 DEF UnknownKid, Unlock, Goto
    <2>2. Dated(t)'
      BY <1>2, <1>4, <2>1
    <2>3. QED
      BY <1>5, <1>13, <2>2 DEF UnknownKid, cacheVars
  <1>14. CASE ReturnVerdict(t)
    <2>1. after = NoVer /\ to = "idle"
      BY <1>1, <1>14 DEF ReturnVerdict
    <2>2. Dated(t)'
      BY <1>2, <1>3, <2>1, NoVerType
    <2>3. QED
      BY <1>5, <1>14, <2>2 DEF ReturnVerdict, cacheVars
  <1>15. QED
    BY <1>7, <1>8, <1>9, <1>10, <1>11, <1>12, <1>13, <1>14 DEF JwksStep, JwksSection
LEMMA SectionSteady ==
    ASSUME KeysTypeOK, KeysLocked, SteadyKeysArrive, NEW t \in Threads, JwksStep(t)
    PROVE  SteadyKeysArrive'
  <1>1. /\ KeysMove(t) /\ vpc \in [Threads -> KeysPlaces] /\ ver \in [Threads -> Vers]
        /\ ver[t] \in Vers /\ ver'[t] \in Vers
    BY SectionMoves DEF KeysTypeOK, JwksStep, KeysMove
  <1>2. published' = published
    BY DEF JwksStep, JwksSection, LockKeys, LockAndRefresh, IssuerAnswers, KeysArrive,
           KeysUnreadable, FetchFails, Verified, Refetch, UnknownKid, ReturnVerdict,
           LoadKeys, issuerVars
  <1> DEFINE Steady(u) == ver[u].steady =>
          /\ ver[u].kid \in published
          /\ vpc[u] = "lock" => ~ver[u].again
          /\ vpc[u] = "arriving" => ver[u].kid \in ver[u].doc
          /\ vpc[u] = "find" /\ ver[u].again /\ ~ver[u].failed => ver[u].kid \in keys
          /\ vpc[u] = "refused" => ver[u].failed \/ ~ver[u].again
  <1>3. \A u \in Threads : Steady(u)
    BY DEF SteadyKeysArrive
  <1>4. ASSUME keys' = keys \/ vpc[t] = "arriving", Steady(t)' PROVE SteadyKeysArrive'
    <2>1. \A u \in Threads \ {t} : vpc[t] = "arriving" => vpc[u] # "find"
      BY <1>1 DEF KeysLocked, HoldsKeys, Fetching
    <2>2. \A u \in Threads \ {t} : Steady(u)'
      BY <1>1, <1>2, <1>3, <1>4, <2>1 DEF KeysMove
    <2>3. QED
      BY <1>4, <2>2 DEF SteadyKeysArrive
  <1> DEFINE to == vpc'[t]
             after == ver'[t]
  <1>5. CASE LockKeys(t)
    <2>1. after = [ver[t] EXCEPT !.at = now] /\ to \in {"find", "fetch"} /\ vpc[t] = "lock"
      BY <1>1, <1>5 DEF LockKeys, Goto
    <2>2. after.again = ver[t].again /\ after.steady = ver[t].steady /\ after.kid = ver[t].kid
      BY <1>1, <2>1 DEF Vers
    <2>3. Steady(t)'
      BY <1>2, <1>3, <2>1, <2>2
    <2>4. QED
      BY <1>4, <1>5, <2>3 DEF LockKeys, cacheVars
  <1>6. CASE LockAndRefresh(t) \/ Refetch(t)
    <2>1. after.steady = ver[t].steady /\ after.kid = ver[t].kid /\ to = "fetch"
      BY <1>1, <1>6 DEF LockAndRefresh, Refetch, Goto, Vers
    <2>2. Steady(t)'
      BY <1>2, <1>3, <2>1
    <2>3. QED
      BY <1>4, <1>6, <2>2 DEF LockAndRefresh, Refetch
  <1>7. CASE IssuerAnswers(t)
    <2>1. /\ after.steady = ver[t].steady /\ after.kid = ver[t].kid
          /\ after.doc = published /\ to = "arriving"
      BY <1>1, <1>7 DEF IssuerAnswers, Goto, Vers
    <2>2. Steady(t)'
      BY <1>2, <1>3, <2>1
    <2>3. QED
      BY <1>4, <1>7, <2>2 DEF IssuerAnswers, cacheVars
  <1>8. CASE KeysArrive(t)
    <2>1. /\ after.steady = ver[t].steady /\ after.kid = ver[t].kid
          /\ keys' = ver[t].doc /\ to = "find" /\ vpc[t] = "arriving"
      BY <1>1, <1>8 DEF KeysArrive, LoadKeys, Goto, Vers
    <2>2. Steady(t)'
      BY <1>2, <1>3, <2>1
    <2>3. QED
      BY <1>4, <2>1, <2>2
  <1>9. CASE KeysUnreadable(t)
    <2>1. /\ after.steady = ver[t].steady /\ after.kid = ver[t].kid
          /\ after.failed /\ to = "find" /\ vpc[t] = "arriving"
      BY <1>1, <1>9 DEF KeysUnreadable, LoadKeys, Goto, Vers
    <2>2. Steady(t)'
      BY <1>2, <1>3, <2>1
    <2>3. QED
      BY <1>4, <2>1, <2>2
  <1>10. CASE FetchFails(t)
    <2>1. /\ after.steady = ver[t].steady /\ after.kid = ver[t].kid
          /\ after.failed /\ to = "find"
      BY <1>1, <1>10 DEF FetchFails, Vers
    <2>2. Steady(t)'
      BY <1>2, <1>3, <2>1
    <2>3. QED
      BY <1>4, <1>10, <2>2 DEF FetchFails, cacheVars
  <1>11. CASE Verified(t)
    <2>1. after = ver[t] /\ to = "verified"
      BY <1>1, <1>11 DEF Verified, Unlock, Goto
    <2>2. Steady(t)'
      BY <1>2, <1>3, <2>1
    <2>3. QED
      BY <1>4, <1>11, <2>2 DEF Verified, cacheVars
  <1>12. CASE UnknownKid(t)
    <2>1. after = ver[t] /\ to = "refused" /\ vpc[t] = "find" /\ ver[t].kid \notin keys
      BY <1>1, <1>12 DEF UnknownKid, Unlock, Goto, Known
    <2>2. Steady(t)'
      BY <1>2, <1>3, <2>1
    <2>3. QED
      BY <1>4, <1>12, <2>2 DEF UnknownKid, cacheVars
  <1>13. CASE ReturnVerdict(t)
    <2>1. after = NoVer
      BY <1>1, <1>13 DEF ReturnVerdict
    <2>2. Steady(t)'
      BY <2>1, NoVerType
    <2>3. QED
      BY <1>4, <1>13, <2>2 DEF ReturnVerdict, cacheVars
  <1>14. QED
    BY <1>5, <1>6, <1>7, <1>8, <1>9, <1>10, <1>11, <1>12, <1>13 DEF JwksStep, JwksSection
-----------------------------------------------------------------------------
LEMMA SteadyAlone ==
    ASSUME NEW v \in Vers, NEW b \in BOOLEAN, NEW w, w = [v EXCEPT !.steady = b]
    PROVE  /\ w \in Vers /\ w.kid = v.kid /\ w.at = v.at /\ w.doc = v.doc
           /\ w.again = v.again /\ w.failed = v.failed /\ w.steady = b
  BY DEF Vers

\* The issuer changes its keys: what is withdrawn is withdrawn now.
LEMMA RotateKeepsKeys == KeysInv /\ Rotate => KeysInv'
  <1> SUFFICES ASSUME KeysInv, Rotate PROVE KeysInv'
    OBVIOUS
  <1>0. UNCHANGED <<now, keys, haveKeys, fetchedAt, cooldownUntil, holder, vpc>>
    BY DEF Rotate, cacheVars
  <1>1. PICK k \in Kids :
          \/ published' = published \cup {k} /\ UNCHANGED <<withdrawnAt, ver>>
          \/ /\ published' = published \ {k}
             /\ withdrawnAt' = [withdrawnAt EXCEPT ![k] = now]
             /\ ver' = [t \in Threads |-> [ver[t] EXCEPT !.steady = @ /\ ver[t].kid # k]]
    BY DEF Rotate
  <1>2. /\ ver \in [Threads -> Vers] /\ now \in Nat /\ fetchedAt \in Nat
        /\ keys \subseteq Kids /\ published \subseteq Kids /\ withdrawnAt \in [Kids -> Int]
        /\ CacheTtl \in Nat
        /\ \A t \in Threads : /\ ver[t] \in Vers /\ ver[t].at \in Nat
                               /\ ver[t].doc \subseteq Kids
    BY JwksAssumption DEF KeysInv, KeysTypeOK, Vers
  <1>4. \A t \in Threads :
          /\ ver'[t] \in Vers
          /\ ver'[t].kid = ver[t].kid /\ ver'[t].at = ver[t].at /\ ver'[t].doc = ver[t].doc
          /\ ver'[t].again = ver[t].again /\ ver'[t].failed = ver[t].failed
          /\ ver'[t].steady => ver[t].steady /\ (ver[t].kid \in published => ver[t].kid \in published')
    <2> SUFFICES ASSUME NEW t \in Threads
                 PROVE  /\ ver'[t] \in Vers
                        /\ ver'[t].kid = ver[t].kid /\ ver'[t].at = ver[t].at /\ ver'[t].doc = ver[t].doc
                        /\ ver'[t].again = ver[t].again /\ ver'[t].failed = ver[t].failed
                        /\ ver'[t].steady => /\ ver[t].steady
                                             /\ ver[t].kid \in published => ver[t].kid \in published'
      OBVIOUS
    <2> DEFINE b == ver[t].steady /\ ver[t].kid # k
    <2>1. b \in BOOLEAN /\ ver[t] \in Vers
      BY <1>2
    <2>2. CASE ver' = ver /\ published' = published \cup {k}
      BY <2>1, <2>2
    <2>3. CASE ver'[t] = [ver[t] EXCEPT !.steady = b] /\ published' = published \ {k}
      <3> HIDE DEF b
      <3>1. /\ ver'[t] \in Vers
            /\ ver'[t].kid = ver[t].kid /\ ver'[t].at = ver[t].at /\ ver'[t].doc = ver[t].doc
            /\ ver'[t].again = ver[t].again /\ ver'[t].failed = ver[t].failed
            /\ ver'[t].steady = b
        BY <2>1, <2>3, SteadyAlone
      <3>2. QED
        BY <3>1, <2>3 DEF b
    <2>4. QED
      BY <1>1, <2>2, <2>3
  <1>5. ver' \in [Threads -> Vers]
    <2>1. CASE ver' = ver
      BY <1>2, <2>1
    <2>2. CASE ver' = [t \in Threads |-> [ver[t] EXCEPT !.steady = @ /\ ver[t].kid # k]]
      BY <1>4, <2>2
    <2>3. QED
      BY <1>1, <2>1, <2>2
  <1>7. \A j \in Kids, when \in Int :
          when <= now /\ PublishedSince(j, when) => PublishedSince(j, when)'
    BY <1>1, <1>2 DEF PublishedSince
  <1>8. KeysTypeOK'
    <2>1. published' \subseteq Kids /\ withdrawnAt' \in [Kids -> Int]
      BY <1>1, <1>2
    <2>2. QED
      BY <1>0, <1>5, <2>1 DEF KeysInv, KeysTypeOK
  <1>9. KeysLocked'
    BY <1>0 DEF KeysInv, KeysLocked
  <1>10. KeysDated'
    <2>1. \A j \in keys' : PublishedSince(j, fetchedAt)'
      BY <1>0, <1>2, <1>7 DEF KeysInv, KeysDated
    <2>2. \A t \in Threads : vpc'[t] = "arriving" =>
             \A j \in ver'[t].doc : PublishedSince(j, ver[t].at)'
      BY <1>0, <1>2, <1>4, <1>7 DEF KeysInv, KeysDated
    <2>3. \A t \in Threads : vpc'[t] = "verified" /\ ~ver'[t].failed =>
             PublishedSince(ver[t].kid, ver[t].at - CacheTtl)'
      <3>1. \A t \in Threads : ver[t].at - CacheTtl \in Int /\ ver[t].at - CacheTtl <= now
        BY <1>2 DEF KeysInv, KeysDated
      <3>2. QED
        BY <1>0, <1>4, <1>7, <3>1 DEF KeysInv, KeysDated
    <2>4. QED
      BY <1>0, <1>4, <2>1, <2>2, <2>3 DEF KeysInv, KeysDated, PublishedSince
  <1>11. SteadyKeysArrive'
    BY <1>0, <1>4 DEF KeysInv, SteadyKeysArrive
  <1>12. QED
    BY <1>8, <1>9, <1>10, <1>11 DEF KeysInv

\* A verification begins with its locals cleared, and outside the lock.
LEMMA VerifyKeepsKeys ==
    ASSUME KeysInv, NEW t \in Threads, NEW k \in Kids \cup {NoKid}, Verify(t, k)
    PROVE  KeysInv'
  <1> DEFINE v == [NoVer EXCEPT !.kid = k, !.steady = k \in published]
  <1>1. UNCHANGED <<now, published, withdrawnAt, keys, haveKeys, fetchedAt, cooldownUntil, holder>>
    BY DEF Verify, issuerVars, cacheVars
  <1>2. /\ vpc' = [vpc EXCEPT ![t] = "lock"] /\ ver' = [ver EXCEPT ![t] = v]
        /\ vpc \in [Threads -> KeysPlaces] /\ ver \in [Threads -> Vers] /\ now \in Nat
        /\ published \subseteq Kids
    BY DEF Verify, Goto, KeysInv, KeysTypeOK
  <1>3. /\ v \in Vers /\ v.kid = k /\ v.at = 0 /\ ~v.again
        /\ v.steady => k \in published
    <2>1. (k \in published) \in BOOLEAN
      OBVIOUS
    <2>2. \A b \in BOOLEAN : LET w == [NoVer EXCEPT !.kid = k, !.steady = b]
                           IN  w \in Vers /\ w.kid = k /\ w.at = 0 /\ ~w.again /\ (w.steady <=> b)
      BY DEF NoVer, Vers
    <2>3. QED
      BY <2>1, <2>2
  <1>4. KeysTypeOK'
    <2>1. ver' \in [Threads -> Vers] /\ vpc' \in [Threads -> KeysPlaces]
      BY <1>2, <1>3 DEF KeysPlaces
    <2>2. QED
      BY <1>1, <2>1 DEF KeysInv, KeysTypeOK
  <1>5. KeysLocked'
    BY <1>1, <1>2 DEF KeysInv, KeysLocked, HoldsKeys, Fetching
  <1>6. KeysDated'
    BY <1>1, <1>2, <1>3 DEF KeysInv, KeysDated, PublishedSince
  <1>7. SteadyKeysArrive'
    BY <1>1, <1>2, <1>3 DEF KeysInv, SteadyKeysArrive
  <1>8. QED
    BY <1>4, <1>5, <1>6, <1>7 DEF KeysInv

LEMMA TimeKeepsKeys == KeysInv /\ JwksTime => KeysInv'
  <1> SUFFICES ASSUME KeysInv, JwksTime PROVE KeysInv'
    OBVIOUS
  <1>1. UNCHANGED <<published, withdrawnAt, keys, haveKeys, fetchedAt, cooldownUntil, holder, vpc, ver>>
    BY DEF JwksTime, issuerVars, cacheVars
  <1>2. now \in Nat /\ now' = now + 1 /\ fetchedAt \in Nat
    BY DEF JwksTime, Tick, KeysInv, KeysTypeOK
  <1>3. \A t \in Threads : ver[t].at \in Nat
    BY DEF KeysInv, KeysTypeOK, Vers
  <1>4. KeysDated'
    BY <1>1, <1>2, <1>3 DEF KeysInv, KeysDated, PublishedSince
  <1>5. QED
    BY <1>1, <1>2, <1>4 DEF KeysInv, KeysTypeOK, KeysLocked, SteadyKeysArrive

LEMMA NextKeepsKeys == KeysInv /\ [JwksNext]_jwksVars => KeysInv'
  <1>1. KeysInv /\ UNCHANGED jwksVars => KeysInv'
    BY DEF jwksVars, issuerVars, cacheVars, KeysInv, KeysTypeOK, KeysLocked, KeysDated,
           PublishedSince, SteadyKeysArrive
  <1>2. ASSUME KeysInv, NEW t \in Threads, JwksStep(t) PROVE KeysInv'
    <2>1. KeysLocked'
      BY <1>2, SectionLocks DEF KeysInv, JwksStep
    <2>2. QED
      BY <1>2, <2>1, SectionTypes, SectionDated, SectionSteady DEF KeysInv
  <1>3. QED
    BY <1>1, <1>2, RotateKeepsKeys, VerifyKeepsKeys, TimeKeepsKeys DEF JwksNext, JwksDone

LEMMA KeysInvariance == JwksSpec => []KeysInv
  BY InitKeysInv, NextKeepsKeys, PTL DEF JwksSpec

\* A withdrawn key is honoured no longer than the cache's time to live, for any
\* number of threads, keys, rotations and fetches that fail: the age of the cache
\* counts from before the request, and the lock spans the check and the verdict.
THEOREM WithdrawnKeysExpire == JwksSpec => []WithdrawnKeyBounded
  <1>1. KeysInv => WithdrawnKeyBounded
    <2> SUFFICES ASSUME KeysInv, NEW t \in Threads, vpc[t] = "verified",
                        ver[t].kid \notin published, ~ver[t].failed
                 PROVE  ver[t].at - withdrawnAt[ver[t].kid] <= CacheTtl
      BY DEF WithdrawnKeyBounded
    <2>1. ver[t].kid \in Kids /\ withdrawnAt[ver[t].kid] >= ver[t].at - CacheTtl
      BY DEF KeysInv, KeysDated, PublishedSince
    <2>2. ver[t].at \in Int /\ withdrawnAt[ver[t].kid] \in Int /\ CacheTtl \in Int
      <3>1. ver[t] \in Vers /\ withdrawnAt \in [Kids -> Int]
        BY DEF KeysInv, KeysTypeOK
      <3>2. ver[t].at \in Int
        BY <3>1 DEF Vers
      <3>3. withdrawnAt[ver[t].kid] \in Int
        BY <2>1, <3>1
      <3>4. CacheTtl \in Nat
        BY JwksAssumption
      <3>5. QED
        BY <3>2, <3>3, <3>4
    <2>3. ASSUME NEW m \in Int, NEW n \in Int, NEW d \in Int, n >= m - d PROVE m - n <= d
      BY <2>3
    <2>4. QED
      BY <2>1, <2>2, <2>3
  <1>2. QED
    BY <1>1, KeysInvariance, PTL

\* A key that stays published is refused only in a cooldown somebody else opened,
\* or after a fetch that brought no key set.
THEOREM RotationsArePickedUp == JwksSpec => []UnknownKidExcused
  <1>1. KeysInv => UnknownKidExcused
    BY DEF KeysInv, SteadyKeysArrive, UnknownKidExcused
  <1>2. QED
    BY <1>1, KeysInvariance, PTL

-----------------------------------------------------------------------------
(* The revoked sessions. *)

Chks == [sid : Sids \cup {""}, doc : SUBSET Sids, at : Nat]

FeedPlaces == {"idle", "queue", "asking", "answered", "read", "revoked", "live"}

FeedTypeOK ==
    /\ now \in Nat
    /\ revokedAt \in [Sids -> Int] /\ lastAttempt \in Int
    /\ entries \subseteq SUBSET Sids
    /\ poll \in [from : Int, ok : BOOLEAN]
    /\ fpc \in [Guards -> FeedPlaces]
    /\ chk \in [Guards -> Chks]

\* fetch_mtx_ is held over the request and its answer.
FeedLocked == \A g \in Guards : fpc[g] \in {"asking", "answered"} => fetcher = g

\* Guard g: its poll is the newest to have begun, the answer on its way names
\* what was revoked before the poll began and all that is known already, and a
\* check that relies on the set does so within an interval of the last attempt.
ChkDated(g) ==
    /\ chk[g].at <= now
    /\ fpc[g] \in {"asking", "answered"} => poll.from <= chk[g].at
    /\ fpc[g] = "answered" =>
          /\ chk[g].doc \subseteq revoked
          /\ \A s \in revoked : revokedAt[s] < chk[g].at => s \in chk[g].doc
          /\ \A set \in entries : set \subseteq chk[g].doc
    /\ fpc[g] = "read" => chk[g].at - lastAttempt < PollInterval

\* Nobody is taken for revoked who is not, and unless a poll has failed nobody
\* revoked before the newest poll is missing.
EntriesDated ==
    /\ lastAttempt <= now /\ poll.from <= now
    /\ \A s \in Sids : revokedAt[s] >= Never /\ revokedAt[s] <= now
    /\ \A set \in entries : set \subseteq revoked
    /\ poll.ok => \A s \in revoked : revokedAt[s] < poll.from => Named(s)

FeedInv == FeedTypeOK /\ FeedLocked /\ EntriesDated /\ \A g \in Guards : ChkDated(g)

LEMMA PollIntervalType == PollInterval \in Nat /\ PollInterval > 0
  <1>1. RequestedInterval \in Int /\ MinPollInterval \in Nat \ {0}
    BY FeedAssumption
  <1>2. QED
    BY <1>1 DEF PollInterval

LEMMA NoChkType == NoChk \in Chks /\ NoChk.at = 0
  BY DEF NoChk, Chks

\* The invariant holds of a feed nobody has asked.
LEMMA InitFeedInv == FeedInit => FeedInv
  <1> SUFFICES ASSUME FeedInit PROVE FeedInv
    OBVIOUS
  <1>1. revoked = {}
    BY DEF FeedInit, revoked
  <1>2. chk \in [Guards -> Chks] /\ \A g \in Guards : chk[g].at = 0
    BY NoChkType DEF FeedInit
  <1>3. poll \in [from : Int, ok : BOOLEAN] /\ poll.from = -1
    BY DEF FeedInit, Never
  <1>4. FeedTypeOK
    <2>1. fpc \in [Guards -> FeedPlaces] /\ revokedAt \in [Sids -> Int]
      BY DEF FeedInit, FeedPlaces, Never
    <2>2. now \in Nat /\ lastAttempt \in Int /\ entries \subseteq SUBSET Sids
      BY DEF FeedInit, Never
    <2>3. QED
      BY <1>2, <1>3, <2>1, <2>2 DEF FeedTypeOK
  <1>5. FeedLocked
    BY DEF FeedInit, FeedLocked
  <1>6. EntriesDated
    BY <1>1, <1>3 DEF FeedInit, EntriesDated, Never
  <1>7. \A g \in Guards : ChkDated(g)
    BY <1>2 DEF FeedInit, ChkDated
  <1>8. QED
    BY <1>4, <1>5, <1>6, <1>7 DEF FeedInv

\* Everything a step reads, with its type.
FeedFacts ==
    /\ now \in Nat /\ lastAttempt \in Int /\ poll.from \in Int /\ entries \subseteq SUBSET Sids
    /\ revokedAt \in [Sids -> Int] /\ revoked \subseteq Sids
    /\ fpc \in [Guards -> FeedPlaces] /\ chk \in [Guards -> Chks]
    /\ \A g \in Guards : /\ chk[g] \in Chks /\ chk[g].at \in Nat
                         /\ chk[g].doc \subseteq Sids

LEMMA FeedTyped == ASSUME FeedInv PROVE FeedFacts
  <1>1. /\ now \in Nat /\ lastAttempt \in Int /\ entries \subseteq SUBSET Sids
        /\ revokedAt \in [Sids -> Int] /\ fpc \in [Guards -> FeedPlaces] /\ chk \in [Guards -> Chks]
    BY DEF FeedInv, FeedTypeOK
  <1>2. poll.from \in Int
    BY DEF FeedInv, FeedTypeOK
  <1>3. revoked \subseteq Sids
    BY DEF revoked
  <1>4. \A g \in Guards : chk[g] \in Chks /\ chk[g].at \in Nat /\ chk[g].doc \subseteq Sids
    BY <1>1 DEF Chks
  <1>5. QED
    BY <1>1, <1>2, <1>3, <1>4 DEF FeedFacts

\* One guard moves; the rest is for each action to say.
FeedMove(g, to, c) ==
    /\ fpc' = [fpc EXCEPT ![g] = to] /\ to \in FeedPlaces
    /\ chk' = [chk EXCEPT ![g] = c] /\ c \in Chks

LEMMA FeedMoves ==
    ASSUME FeedInv, NEW g \in Guards, NEW to, NEW c, FeedMove(g, to, c)
    PROVE  /\ fpc' \in [Guards -> FeedPlaces] /\ chk' \in [Guards -> Chks]
           /\ fpc'[g] = to /\ chk'[g] = c
           /\ \A h \in Guards \ {g} : fpc'[h] = fpc[h] /\ chk'[h] = chk[h]
  BY FeedTyped DEF FeedFacts, FeedMove

\* A move that leaves the clock, the server and what is cached alone.
LEMMA QuietMove ==
    ASSUME FeedInv, NEW g \in Guards, NEW to, NEW c, FeedMove(g, to, c),
           UNCHANGED <<now, revokedAt, entries, lastAttempt, poll>>,
           FeedLocked', ChkDated(g)'
    PROVE  FeedInv'
  <1>1. FeedTypeOK'
    BY FeedMoves DEF FeedInv, FeedTypeOK
  <1>2. EntriesDated'
    BY DEF FeedInv, EntriesDated, revoked, Named
  <1>3. \A h \in Guards \ {g} : ChkDated(h)'
    BY FeedMoves DEF FeedInv, ChkDated, revoked
  <1>4. QED
    BY <1>1, <1>2, <1>3 DEF FeedInv
-----------------------------------------------------------------------------
LEMMA FetchKeepsFeed == ASSUME FeedInv, NEW g \in Guards, Fetch(g), now' = now PROVE FeedInv'
  <1> DEFINE c == [chk[g] EXCEPT !.at = now]
  <1>1. FeedFacts
    BY FeedTyped
  <1>2. /\ fpc' = [fpc EXCEPT ![g] = "asking"] /\ chk' = [chk EXCEPT ![g] = c]
        /\ fetcher = NoGuard /\ fetcher' = g
        /\ UNCHANGED <<revokedAt, entries, lastAttempt, poll>>
    BY <1>1 DEF Fetch, FGoto, FeedFacts
  <1>3. c \in Chks /\ c.at = now
    BY <1>1 DEF FeedFacts, Chks
  <1>4. FeedMove(g, "asking", c)
    BY <1>2, <1>3 DEF FeedMove, FeedPlaces
  <1>5. FeedLocked'
    BY <1>2, <1>4, FeedMoves, FeedAssumption DEF FeedInv, FeedLocked, NoGuard
  <1>6. ChkDated(g)'
    BY <1>1, <1>2, <1>3, <1>4, FeedMoves DEF FeedInv, EntriesDated, ChkDated, FeedFacts
  <1>7. QED
    BY <1>2, <1>4, <1>5, <1>6, QuietMove

LEMMA AnswersKeepFeed == ASSUME FeedInv, NEW g \in Guards, FeedAnswers(g), now' = now PROVE FeedInv'
  <1> DEFINE c == [chk[g] EXCEPT !.doc = revoked]
  <1>1. FeedFacts
    BY FeedTyped
  <1>2. /\ fpc' = [fpc EXCEPT ![g] = "answered"] /\ chk' = [chk EXCEPT ![g] = c]
        /\ fpc[g] = "asking"
        /\ UNCHANGED <<revokedAt, entries, lastAttempt, poll, fetcher>>
    BY <1>1 DEF FeedAnswers, FGoto, FeedFacts
  <1>3. c \in Chks /\ c.at = chk[g].at /\ c.doc = revoked
    BY <1>1 DEF FeedFacts, Chks
  <1>4. FeedMove(g, "answered", c)
    BY <1>2, <1>3 DEF FeedMove, FeedPlaces
  <1>5. FeedLocked'
    BY <1>2, <1>4, FeedMoves DEF FeedInv, FeedLocked
  <1>6. ChkDated(g)'
    BY <1>2, <1>3, <1>4, FeedMoves DEF FeedInv, EntriesDated, ChkDated, revoked
  <1>7. QED
    BY <1>2, <1>4, <1>5, <1>6, QuietMove

LEMMA CheckKeepsFeed ==
    ASSUME FeedInv, NEW g \in Guards, NEW s \in Sids, CheckSession(g, s) PROVE FeedInv'
  <1> DEFINE c == [sid |-> s, doc |-> {}, at |-> now]
             to == IF Stale THEN "queue" ELSE "read"
  <1>1. FeedFacts
    BY FeedTyped
  <1>2. /\ fpc' = [fpc EXCEPT ![g] = to] /\ chk' = [chk EXCEPT ![g] = c]
        /\ UNCHANGED <<now, revokedAt, entries, lastAttempt, poll, fetcher>>
    BY <1>1 DEF CheckSession, FGoto
  <1>3. c \in Chks /\ c.at = now
    BY <1>1 DEF FeedFacts, Chks
  <1>4. FeedMove(g, to, c)
    BY <1>2, <1>3 DEF FeedMove, FeedPlaces
  <1>5. FeedLocked'
    BY <1>2, <1>4, FeedMoves DEF FeedInv, FeedLocked
  <1>6. to = "read" => now - lastAttempt < PollInterval
    BY <1>1, PollIntervalType DEF Stale, FeedFacts
  <1>7. ChkDated(g)'
    BY <1>1, <1>2, <1>3, <1>4, <1>6, FeedMoves DEF ChkDated, FeedFacts
  <1>8. QED
    BY <1>2, <1>4, <1>5, <1>7, QuietMove

LEMMA ReadKeepsFeed ==
    ASSUME FeedInv, NEW g \in Guards, ReadSession(g) \/ Answer(g), now' = now PROVE FeedInv'
  <1> DEFINE to == fpc'[g]
             c == chk'[g]
  <1>1. FeedFacts
    BY FeedTyped
  <1>2. UNCHANGED <<revokedAt, entries, lastAttempt, poll, fetcher>>
    BY DEF ReadSession, Answer
  <1>3. to \in {"revoked", "live", "idle"} /\ FeedMove(g, to, c) /\ c.at <= now
    <2>1. CASE ReadSession(g)
      BY <1>1, <2>1 DEF ReadSession, FGoto, FeedMove, FeedPlaces, FeedFacts, FeedInv, ChkDated
    <2>2. CASE Answer(g)
      BY <1>1, <2>2, NoChkType DEF Answer, FeedMove, FeedPlaces, FeedFacts
    <2>3. QED
      BY <2>1, <2>2
  <1>4. FeedLocked'
    BY <1>2, <1>3, FeedMoves DEF FeedInv, FeedLocked
  <1>5. ChkDated(g)'
    BY <1>3 DEF ChkDated
  <1>6. QED
    BY <1>2, <1>3, <1>4, <1>5, QuietMove

\* The end of an attempt, good or bad: nobody else has one under way.
LEMMA AttemptEnds ==
    ASSUME FeedInv, NEW g \in Guards, NEW from \in {"asking", "answered"}, EndAttempt(g, from),
           now' = now, EntriesDated', entries' \subseteq SUBSET Sids,
           poll' \in [from : Int, ok : BOOLEAN]
    PROVE  FeedInv'
  <1> DEFINE c == [chk[g] EXCEPT !.doc = {}, !.at = now]
  <1>1. FeedFacts
    BY FeedTyped
  <1>2. /\ fpc' = [fpc EXCEPT ![g] = "read"] /\ chk' = [chk EXCEPT ![g] = c]
        /\ fpc[g] = from /\ lastAttempt' = now /\ fetcher' = NoGuard /\ revokedAt' = revokedAt
    BY <1>1 DEF EndAttempt, FGoto, FeedFacts
  <1>3. c \in Chks /\ c.at = now
    <2>1. \A v \in Chks, n \in Nat : LET w == [v EXCEPT !.doc = {}, !.at = n]
                                   IN  w \in Chks /\ w.at = n
      BY DEF Chks
    <2>2. chk[g] \in Chks /\ now \in Nat
      BY <1>1 DEF FeedFacts
    <2>3. QED
      BY <2>1, <2>2
  <1>4. FeedMove(g, "read", c)
    BY <1>2, <1>3 DEF FeedMove, FeedPlaces
  <1>5. \A h \in Guards \ {g} : fpc[h] \notin {"asking", "answered"}
    BY <1>2 DEF FeedInv, FeedLocked
  <1>6. FeedTypeOK'
    BY <1>1, <1>2, <1>4, FeedMoves DEF FeedTypeOK, FeedFacts
  <1>7. FeedLocked'
    BY <1>4, <1>5, FeedMoves DEF FeedLocked
  <1>8. \A h \in Guards \ {g} : ChkDated(h)'
    <2>1. \A h \in Guards : chk[h].at <= now
      BY DEF FeedInv, ChkDated
    <2>2. QED
      BY <1>1, <1>2, <1>4, <1>5, <2>1, FeedMoves, PollIntervalType DEF ChkDated, FeedFacts
  <1>9. ChkDated(g)'
    BY <1>1, <1>2, <1>3, <1>4, FeedMoves, PollIntervalType DEF ChkDated, FeedFacts
  <1>10. QED
    BY <1>6, <1>7, <1>8, <1>9 DEF FeedInv

LEMMA ArrivesKeepsFeed == ASSUME FeedInv, NEW g \in Guards, FeedArrives(g), now' = now PROVE FeedInv'
  <1>1. FeedFacts
    BY FeedTyped
  <1>2. /\ EndAttempt(g, "answered") /\ fpc[g] = "answered" /\ entries' = {chk[g].doc}
        /\ lastAttempt' = now /\ revokedAt' = revokedAt
    BY DEF FeedArrives, EndAttempt, FGoto
  <1>3. /\ poll.from <= chk[g].at /\ chk[g].at <= now /\ chk[g].doc \subseteq revoked
        /\ \A s \in revoked : revokedAt[s] < chk[g].at => s \in chk[g].doc
    BY <1>2 DEF FeedInv, ChkDated
  <1>4. poll' = [from |-> chk[g].at, ok |-> TRUE]
    <2>1. poll.from \in Int /\ chk[g].at \in Nat
      BY <1>1 DEF FeedFacts
    <2>2. (IF chk[g].at > poll.from THEN chk[g].at ELSE poll.from) = chk[g].at
      BY <1>3, <2>1
    <2>3. QED
      BY <2>2 DEF FeedArrives
  <1>5. poll' \in [from : Int, ok : BOOLEAN] /\ poll'.from = chk[g].at
    BY <1>1, <1>4 DEF FeedFacts
  <1>6. revoked' = revoked
    BY <1>2 DEF revoked
  <1>7. \A s \in revoked : revokedAt[s] < chk[g].at => Named(s)'
    BY <1>2, <1>3 DEF Named
  <1>8. EntriesDated'
    BY <1>1, <1>2, <1>3, <1>5, <1>6, <1>7 DEF EntriesDated, FeedInv, FeedFacts
  <1>9. QED
    BY <1>1, <1>2, <1>5, <1>8, AttemptEnds DEF FeedFacts

LEMMA FailsKeepsFeed == ASSUME FeedInv, NEW g \in Guards, FeedFails(g), now' = now PROVE FeedInv'
  <1>1. PICK from \in {"asking", "answered"} : EndAttempt(g, from)
    BY DEF FeedFails
  <1>2. entries' = entries /\ lastAttempt' = now /\ revokedAt' = revokedAt
    BY <1>1 DEF FeedFails, EndAttempt
  <1>3. poll' \in [from : Int, ok : BOOLEAN] /\ poll'.from = poll.from /\ poll'.ok = FALSE
    BY DEF FeedFails, FeedInv, FeedTypeOK
  <1>4. EntriesDated'
    BY <1>2, <1>3, FeedTyped DEF EntriesDated, FeedInv, FeedFacts, revoked
  <1>5. QED
    BY <1>1, <1>2, <1>3, <1>4, FeedTyped, AttemptEnds DEF FeedFacts

LEMMA RevokeKeepsFeed == FeedInv /\ Revoke => FeedInv'
  <1> SUFFICES ASSUME FeedInv, Revoke PROVE FeedInv'
    OBVIOUS
  <1>1. FeedFacts
    BY FeedTyped
  <1>2. PICK s \in Sids \ revoked : revokedAt' = [revokedAt EXCEPT ![s] = now]
    BY DEF Revoke
  <1>3. UNCHANGED <<now, entries, lastAttempt, fetcher, fpc, chk, poll>>
    BY DEF Revoke, cachedVars
  <1>4. revoked' = revoked \cup {s}
    BY <1>1, <1>2 DEF revoked, Never, FeedFacts
  <1>5. revokedAt' \in [Sids -> Int]
    BY <1>1, <1>2 DEF FeedFacts
  <1>6. \A r \in Sids : Named(r)' <=> Named(r)
    BY <1>3 DEF Named
  <1>7. \A r \in Sids : revokedAt'[r] = IF r = s THEN now ELSE revokedAt[r]
    BY <1>1, <1>2 DEF FeedFacts
  <1>8. EntriesDated'
    <2>1. \A r \in Sids : revokedAt'[r] >= Never /\ revokedAt'[r] <= now
      BY <1>1, <1>7 DEF FeedInv, EntriesDated, Never, FeedFacts
    <2>2. poll.ok => \A r \in revoked' : revokedAt'[r] < poll.from => Named(r)
      BY <1>1, <1>4, <1>7 DEF FeedInv, EntriesDated, FeedFacts
    <2>3. \A set \in entries : set \subseteq revoked'
      BY <1>4 DEF FeedInv, EntriesDated
    <2>4. QED
      BY <1>1, <1>3, <1>4, <1>6, <2>1, <2>2, <2>3 DEF FeedInv, EntriesDated, FeedFacts
  <1>9. ASSUME NEW g \in Guards PROVE ChkDated(g)'
    <2>1. ChkDated(g)
      BY DEF FeedInv
    <2>2. QED
      BY <1>1, <1>3, <1>4, <1>7, <2>1 DEF ChkDated, FeedFacts
  <1>10. QED
    BY <1>3, <1>5, <1>8, <1>9 DEF FeedInv, FeedTypeOK, FeedLocked

LEMMA FeedTimeKeepsFeed == FeedInv /\ FeedTime => FeedInv'
  <1> SUFFICES ASSUME FeedInv, FeedTime PROVE FeedInv'
    OBVIOUS
  <1>1. FeedFacts
    BY FeedTyped
  <1>2. now' = now + 1 /\ UNCHANGED <<revokedAt, entries, lastAttempt, fetcher, fpc, chk, poll>>
    BY DEF FeedTime, Tick, cachedVars
  <1>3. EntriesDated'
    BY <1>1, <1>2 DEF FeedInv, EntriesDated, FeedFacts, revoked, Named
  <1>4. \A g \in Guards : ChkDated(g)'
    BY <1>1, <1>2 DEF FeedInv, ChkDated, FeedFacts, revoked
  <1>5. QED
    BY <1>1, <1>2, <1>3, <1>4 DEF FeedInv, FeedTypeOK, FeedLocked, FeedFacts

LEMMA NextKeepsFeed == FeedInv /\ [FeedNext]_feedVars => FeedInv'
  <1>1. FeedInv /\ UNCHANGED feedVars => FeedInv'
    BY DEF feedVars, cachedVars, FeedInv, FeedTypeOK, FeedLocked, EntriesDated, ChkDated,
           revoked, Named
  <1>2. ASSUME FeedInv, NEW g \in Guards, FeedStep(g) PROVE FeedInv'
    BY <1>2, FetchKeepsFeed, AnswersKeepFeed, ArrivesKeepsFeed, FailsKeepsFeed, ReadKeepsFeed
       DEF FeedStep, FeedSection
  <1>3. QED
    BY <1>1, <1>2, RevokeKeepsFeed, FeedTimeKeepsFeed, CheckKeepsFeed DEF FeedNext, FeedDone

LEMMA FeedInvariance == FeedSpec => []FeedInv
  BY InitFeedInv, NextKeepsFeed, PTL DEF FeedSpec

-----------------------------------------------------------------------------
\* Once a guard knows a session to be revoked it keeps knowing: a failed poll
\* leaves the set alone, and a poll that arrives was asked after the last one was
\* taken in, for fetch_mtx_ is held over both.
THEOREM KnownRevocationsHold == FeedSpec => KnownRevocationHolds
  <1>1. ASSUME FeedInv, [FeedNext]_feedVars, NEW s \in revoked, Named(s) PROVE Named(s)'
    <2>1. CASE \E g \in Guards : FeedArrives(g)
      <3>1. PICK g \in Guards : FeedArrives(g)
        BY <2>1
      <3>2. fpc[g] = "answered" /\ entries' = {chk[g].doc}
        BY <3>1 DEF FeedArrives, EndAttempt, FGoto
      <3>3. s \in chk[g].doc
        BY <1>1, <3>2 DEF FeedInv, ChkDated, Named
      <3>4. QED
        BY <3>2, <3>3 DEF Named
    <2>2. CASE ~ \E g \in Guards : FeedArrives(g)
      <3>1. entries' = entries
        BY <1>1, <2>2 DEF FeedNext, FeedDone, FeedTime, Revoke, FeedStep, FeedSection, Fetch,
           FeedAnswers, FeedFails, ReadSession, Answer, CheckSession, feedVars, cachedVars
      <3>2. QED
        BY <1>1, <3>1 DEF Named
    <2>3. QED
      BY <2>1, <2>2
  <1>2. FeedInv /\ [FeedNext]_feedVars => [\A s \in revoked : Named(s) => Named(s)']_feedVars
    BY <1>1
  <1>3. QED
    BY <1>2, FeedInvariance, PTL DEF FeedSpec, KnownRevocationHolds

\* A check that finds a revoked session live relied on a set whose last poll had
\* ended less than an interval before, and the session was revoked after the
\* newest poll began, unless a poll has failed.
THEOREM RevocationsAreHeard == FeedSpec => RevocationHeard
  <1>1. ASSUME FeedInv, FeedNext, NEW g \in Guards, fpc[g] = "read", fpc'[g] = "live"
        PROVE  /\ chk[g].at - lastAttempt < PollInterval
               /\ chk[g].sid \in revoked => ~poll.ok \/ revokedAt[chk[g].sid] >= poll.from
    <2>1. FeedFacts
      BY <1>1, FeedTyped
    <2>2. chk[g].at - lastAttempt < PollInterval
      BY <1>1 DEF FeedInv, ChkDated
    <2>3. ~Named(chk[g].sid)
      <3>1. CASE UNCHANGED fpc
        BY <1>1, <3>1
      <3>2. CASE ReadSession(g)
        BY <1>1, <2>1, <3>2 DEF ReadSession, FGoto, FeedFacts
      <3>3. ASSUME NEW h \in Guards, FeedStep(h), ~ReadSession(g) PROVE fpc'[g] # "live"
        BY <1>1, <2>1, <3>3 DEF FeedStep, FeedSection, Fetch, FeedAnswers, FeedArrives, FeedFails,
           EndAttempt, ReadSession, Answer, FGoto, FeedFacts
      <3>4. ASSUME NEW h \in Guards, NEW s \in Sids, CheckSession(h, s) PROVE fpc'[g] # "live"
        BY <1>1, <2>1, <3>4 DEF CheckSession, FGoto, FeedFacts
      <3>5. QED
        BY <1>1, <3>1, <3>2, <3>3, <3>4 DEF FeedNext, FeedDone, FeedTime, Revoke, feedVars, cachedVars
    <2>4. chk[g].sid \in revoked => revokedAt[chk[g].sid] \in Int
      BY <2>1 DEF FeedFacts
    <2>5. QED
      BY <1>1, <2>1, <2>2, <2>3, <2>4 DEF FeedInv, EntriesDated, FeedFacts
  <1>2. FeedInv /\ [FeedNext]_feedVars =>
          [\A g \in Guards : fpc[g] = "read" /\ fpc'[g] = "live" =>
              /\ chk[g].at - lastAttempt < PollInterval
              /\ chk[g].sid \in revoked =>
                    ~poll.ok \/ revokedAt[chk[g].sid] >= poll.from]_feedVars
    BY <1>1
  <1>3. QED
    BY <1>2, FeedInvariance, PTL DEF FeedSpec, RevocationHeard
=============================================================================
