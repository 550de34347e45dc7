-------------------------- MODULE ReceiversProofs --------------------------
(***************************************************************************)
(* Two consumers of what is signed and may come again.  However many SET   *)
(* receivers share one replay store, an event is handed out once and none  *)
(* is lost, and a key taken back expires: for any receivers, SETs, keys,   *)
(* limits and failures.  And what redelivery, delay and alteration cannot  *)
(* do to a reactor, for any events, skew, clock and windows.               *)
(***************************************************************************)
EXTENDS SsfReceiver, Reactor, TLAPS

-----------------------------------------------------------------------------
(* The SET receivers. *)

\* A receiver that judges has a SET in hand; one that does not run a batch
\* has handed over every event it accepted.
Hands ==
    \A r \in Receivers :
        /\ rpc[r] \in {"key", "fetch", "arriving", "claims"} => rcv[r].set \in Sets
        /\ rpc[r] \in {"idle", "posted"} => rcv[r].events = {} /\ rcv[r].others = {}

Local == SsfTypeOK /\ now \in Int /\ Hands

\* The replay store is what was handed out and what is about to be; and what is
\* acknowledged or reported was seen, or refused.
Recorded == seen = received \cup InHand
Settled == \A r \in Receivers : owed[r] \cup rcv[r].others \subseteq seen \cup refused \cup unsettled

Books == Recorded /\ Settled /\ EventReceivedOnce /\ NoEventLost

SsfInv == Local /\ Books

LEMMA IdleType == Idle \in Locals /\ Idle.events = {} /\ Idle.others = {}
  BY DEF Idle, Locals

LEMMA InitSsfInv == SsfInit => SsfInv
  <1> SUFFICES ASSUME SsfInit PROVE SsfInv
    OBVIOUS
  <1>1. rcv \in [Receivers -> Locals]
    BY IdleType DEF SsfInit
  <1>2. SsfTypeOK
    <2>1. published \subseteq SigningKeys
      BY DEF SsfInit
    <2>2. sets \in [Sets -> [kid : SigningKeys \cup {"none"}, flawed : BOOLEAN]]
      BY DEF SsfInit, Unwritten
    <2>3. /\ removedAt \in [SigningKeys -> Int]
          /\ rpc \in [Receivers -> {"idle", "posted", "batch", "key", "fetch", "arriving",
                                    "claims"}]
          /\ owed \in [Receivers -> SUBSET Sets]
      BY DEF SsfInit
    <2>4. loadedAt \in Int /\ lastLimited \in Int
      BY DEF SsfInit, NoTime
    <2>5. haveKeys \in BOOLEAN /\ keysHolder \in Receivers \cup {Nobody}
      BY DEF SsfInit
    <2>6. /\ keys \subseteq SigningKeys /\ offered \subseteq Sets /\ seen \subseteq Sets
          /\ received \subseteq Sets /\ refused \subseteq Sets /\ unsettled \subseteq Sets
      BY DEF SsfInit
    <2> QED
      BY <1>1, <2>1, <2>2, <2>3, <2>4, <2>5, <2>6 DEF SsfTypeOK
  <1>3. Hands
    BY IdleType DEF SsfInit, Hands
  <1>4. InHand = {}
    BY IdleType DEF SsfInit, InHand
  <1>5. Books
    BY <1>4, IdleType DEF SsfInit, Books, Recorded, Settled, EventReceivedOnce, NoEventLost, AccountedFor
  <1> QED
    BY <1>2, <1>3, <1>5 DEF SsfInv, Local, SsfInit

-----------------------------------------------------------------------------
(* The types, and the hands. *)

Places == {"idle", "posted", "batch", "key", "fetch", "arriving", "claims"}

\* One receiver moves, and its locals stay what its new place asks for.
Moves(r, to) ==
    /\ rpc' = [rpc EXCEPT ![r] = to]
    /\ rcv' \in [Receivers -> Locals]
    /\ \A q \in Receivers \ {r} : rcv'[q] = rcv[q]
    /\ to \in {"key", "fetch", "arriving", "claims"} => rcv'[r].set \in Sets
    /\ to \in {"idle", "posted"} => rcv'[r].events = {} /\ rcv'[r].others = {}

LEMMA OneMoves ==
    ASSUME Local, NEW r \in Receivers, NEW to \in Places, Moves(r, to)
    PROVE  rpc' \in [Receivers -> Places] /\ Hands'
  <1>1. rpc \in [Receivers -> Places]
    BY DEF Local, SsfTypeOK, Places
  <1>2. \A q \in Receivers : rpc'[q] = IF q = r THEN to ELSE rpc[q]
    BY <1>1 DEF Moves
  <1>3. \A q \in Receivers \ {r} : rcv'[q] = rcv[q]
    BY DEF Moves
  <1>4. Hands'
    BY <1>2, <1>3 DEF Moves, Hands, Local
  <1> QED
    BY <1>1, <1>4 DEF Moves

\* A SET judged leaves the hand for the events or for the other verdicts.
LEMMA Filed ==
    ASSUME NEW local \in Locals, local.set \in Sets
    PROVE  /\ [local EXCEPT !.others = @ \cup {local.set}, !.set = Nobody] \in Locals
           /\ [local EXCEPT !.events = @ \cup {local.set}, !.set = Nobody] \in Locals
  <1>1. \A t \in SUBSET Sets : t \cup {local.set} \in SUBSET Sets
    OBVIOUS
  <1>2. local.others \cup {local.set} \in SUBSET Sets
    BY <1>1 DEF Locals
  <1>3. local.events \cup {local.set} \in SUBSET Sets
    BY <1>1 DEF Locals
  <1>4. \A t \in SUBSET Sets : [local EXCEPT !.others = t, !.set = Nobody] \in Locals
    BY DEF Locals
  <1>5. \A t \in SUBSET Sets : [local EXCEPT !.events = t, !.set = Nobody] \in Locals
    BY DEF Locals
  <1>6. [local EXCEPT !.others = @ \cup {local.set}, !.set = Nobody]
        = [local EXCEPT !.others = local.others \cup {local.set}, !.set = Nobody]
    OBVIOUS
  <1>7. [local EXCEPT !.events = @ \cup {local.set}, !.set = Nobody]
        = [local EXCEPT !.events = local.events \cup {local.set}, !.set = Nobody]
    OBVIOUS
  <1> QED
    BY <1>2, <1>3, <1>4, <1>5, <1>6, <1>7
LEMMA Changed ==
    ASSUME Local, NEW r \in Receivers, NEW local \in Locals, rcv' = [rcv EXCEPT ![r] = local]
    PROVE  /\ rcv' \in [Receivers -> Locals] /\ rcv'[r] = local
           /\ \A q \in Receivers \ {r} : rcv'[q] = rcv[q]
  <1>1. rcv \in [Receivers -> Locals]
    BY DEF Local, SsfTypeOK
  <1> QED
    BY <1>1

LEMMA JudgeMoves ==
    ASSUME Local, NEW r \in Receivers, Judge(r)
    PROVE  \E to \in Places : Moves(r, to)
  <1>a. rcv \in [Receivers -> Locals] /\ now \in Int /\ published \subseteq SigningKeys
    BY DEF Local, SsfTypeOK
  <1>b. rpc[r] \in {"key", "fetch", "arriving", "claims"} => rcv[r].set \in Sets
    BY DEF Local, Hands
  <1>d. rcv[r] \in Locals
    BY <1>a
  <1>c. \A to \in {"batch", "key", "fetch", "arriving", "claims"} : to \in Places
    BY DEF Places
  <1>1. CASE KeyKnown(r)
    <2>1. Moves(r, "claims")
      BY <1>1, <1>a, <1>b DEF KeyKnown, Move, Keep, Moves, Locals
    <2> QED
      BY <2>1, <1>c
  <1>2. CASE KeyRefused(r)
    <2> DEFINE local == [rcv[r] EXCEPT !.others = @ \cup {rcv[r].set}, !.set = Nobody]
    <2>1. local \in Locals
      BY <1>2, <1>b, <1>d, Filed DEF KeyRefused, Move, Keep
    <2>2. rcv' = [rcv EXCEPT ![r] = local] /\ rpc' = [rpc EXCEPT ![r] = "batch"]
      BY <1>2 DEF KeyRefused, Move, Keep, Refuse, Report
    <2> HIDE DEF local
    <2>3. Moves(r, "batch")
      BY <2>1, <2>2, Changed DEF Moves
    <2> QED
      BY <2>3, <1>c
  <1>3. CASE KeyUnavailable(r)
    <2>1. Moves(r, "batch")
      BY <1>3, <1>a, <1>b DEF KeyUnavailable, Move, Keep, Unjudged, Moves, Locals
    <2> QED
      BY <2>1, <1>c
  <1>4. CASE Refetch(r)
    <2>1. Moves(r, "fetch")
      BY <1>4, <1>a, <1>b DEF Refetch, Move, Keep, Moves, Locals
    <2> QED
      BY <2>1, <1>c
  <1>5. CASE Fill(r)
    <2>1. Moves(r, "fetch")
      BY <1>5, <1>a, <1>b DEF Fill, Move, Keep, Moves, Locals
    <2> QED
      BY <2>1, <1>c
  <1>6. CASE KeysRead(r)
    <2>1. Moves(r, "arriving")
      BY <1>6, <1>a, <1>b DEF KeysRead, Move, Keep, Moves, Locals
    <2> QED
      BY <2>1, <1>c
  <1>7. CASE KeyFound(r)
    <2>1. Moves(r, "claims")
      BY <1>7, <1>a, <1>b DEF KeyFound, Move, Keep, Moves, Locals
    <2> QED
      BY <2>1, <1>c
  <1>8. CASE FillThenRefetch(r)
    <2>1. Moves(r, "fetch")
      BY <1>8, <1>a, <1>b DEF FillThenRefetch, Move, Keep, Moves, Locals
    <2> QED
      BY <2>1, <1>c
  <1>9. CASE KeyMissing(r)
    <2>1. Moves(r, "batch")
      BY <1>9, <1>a, <1>b, <1>d DEF KeyMissing, Move, Keep, Moves, Locals
    <2> QED
      BY <2>1, <1>c
  <1>10. CASE ClaimsRefused(r)
    <2> DEFINE local == [rcv[r] EXCEPT !.others = @ \cup {rcv[r].set}, !.set = Nobody]
    <2>1. local \in Locals
      BY <1>10, <1>b, <1>d, Filed DEF ClaimsRefused, Move, Keep
    <2>2. rcv' = [rcv EXCEPT ![r] = local] /\ rpc' = [rpc EXCEPT ![r] = "batch"]
      BY <1>10 DEF ClaimsRefused, Move, Keep, Refuse, Report
    <2> HIDE DEF local
    <2>3. Moves(r, "batch")
      BY <2>1, <2>2, Changed DEF Moves
    <2> QED
      BY <2>3, <1>c
  <1>11. CASE StoreSpared(r)
    <2>1. Moves(r, "batch")
      BY <1>11, <1>a, <1>b DEF StoreSpared, Move, Keep, Unjudged, Moves, Locals
    <2> QED
      BY <2>1, <1>c
  <1>12. CASE Accept(r)
    <2> DEFINE local == [rcv[r] EXCEPT !.events = @ \cup {rcv[r].set}, !.set = Nobody]
    <2>1. local \in Locals
      BY <1>12, <1>b, <1>d, Filed DEF Accept, Move, Keep
    <2>2. rcv' = [rcv EXCEPT ![r] = local] /\ rpc' = [rpc EXCEPT ![r] = "batch"]
      BY <1>12 DEF Accept, Move, Keep
    <2> HIDE DEF local
    <2>3. Moves(r, "batch")
      BY <2>1, <2>2, Changed DEF Moves
    <2> QED
      BY <2>3, <1>c
  <1>13. CASE Replayed(r)
    <2> DEFINE local == [rcv[r] EXCEPT !.others = @ \cup {rcv[r].set}, !.set = Nobody]
    <2>1. local \in Locals
      BY <1>13, <1>b, <1>d, Filed DEF Replayed, Move, Keep
    <2>2. rcv' = [rcv EXCEPT ![r] = local] /\ rpc' = [rpc EXCEPT ![r] = "batch"]
      BY <1>13 DEF Replayed, Move, Keep
    <2> HIDE DEF local
    <2>3. Moves(r, "batch")
      BY <2>1, <2>2, Changed DEF Moves
    <2> QED
      BY <2>3, <1>c
  <1> QED
    BY <1>1, <1>2, <1>3, <1>4, <1>5, <1>6, <1>7, <1>8, <1>9, <1>10, <1>11, <1>12, <1>13 DEF Judge

LEMMA WorkMoves ==
    ASSUME Local, NEW r \in Receivers,
           Poll(r) \/ (\E s \in Sets : Push(r, s)) \/ Work(r)
    PROVE  \E to \in Places : Moves(r, to)
  <1>a. rcv \in [Receivers -> Locals] /\ rcv[r] \in Locals /\ offered \subseteq Sets
    BY DEF Local, SsfTypeOK
  <1>b. rpc[r] \in {"idle", "posted"} => rcv[r].events = {} /\ rcv[r].others = {}
    BY DEF Local, Hands
  <1>c. \A to \in {"batch", "key", "posted", "idle"} : to \in Places
    BY DEF Places
  <1>1. CASE Poll(r)
    <2>1. Moves(r, "posted")
      BY <1>1, <1>a, <1>b DEF Poll, Move, Moves
    <2> QED
      BY <2>1, <1>c
  <1>2. CASE \E s \in Sets : Push(r, s)
    <2>1. PICK s \in Sets : Push(r, s)
      BY <1>2
    <2>2. rcv' = [rcv EXCEPT ![r].todo = {s}] /\ rpc' = [rpc EXCEPT ![r] = "batch"]
      BY <2>1 DEF Push, Move
    <2>3. Moves(r, "batch")
      BY <2>2, <1>a DEF Moves, Locals
    <2> QED
      BY <2>3, <1>c
  <1>3. CASE Judge(r)
    BY <1>3, JudgeMoves
  <1>4. CASE PollAnswered(r)
    <2>1. offered' \in SUBSET Sets
      BY <1>4, <1>a DEF PollAnswered
    <2>2. Moves(r, "batch")
      BY <1>4, <1>a, <2>1 DEF PollAnswered, Move, Moves, Locals
    <2> QED
      BY <2>2, <1>c
  <1>5. CASE PollLost(r)
    <2>1. CASE rcv[r].attempt < PollAttempts
      <3>1. rpc' = [rpc EXCEPT ![r] = "posted"]
        BY <1>5, <2>1 DEF PollLost, Local, SsfTypeOK
      <3>2. rcv' = [rcv EXCEPT ![r].attempt = @ + 1]
        BY <1>5, <2>1 DEF PollLost
      <3>3. rpc[r] = "posted"
        BY <1>5 DEF PollLost
      <3>4. rcv' \in [Receivers -> Locals] /\ \A q \in Receivers \ {r} : rcv'[q] = rcv[q]
        BY <1>a, <3>2 DEF Locals
      <3>5. rcv'[r].events = rcv[r].events /\ rcv'[r].others = rcv[r].others
        BY <1>a, <3>2 DEF Locals
      <3>6. Moves(r, "posted")
        BY <1>b, <3>1, <3>3, <3>4, <3>5 DEF Moves
      <3> QED
        BY <3>6, <1>c
    <2>2. CASE ~(rcv[r].attempt < PollAttempts)
      <3>0. rcv' = [rcv EXCEPT ![r] = Idle] /\ rpc' = [rpc EXCEPT ![r] = "idle"]
        BY <1>5, <2>2 DEF PollLost
      <3>1. Moves(r, "idle")
        BY <3>0, Changed, IdleType DEF Moves
      <3> QED
        BY <3>1, <1>c
    <2> QED
      BY <2>1, <2>2
  <1>6. CASE PollReturns(r)
    <2>0. rcv' = [rcv EXCEPT ![r] = Idle] /\ rpc' = [rpc EXCEPT ![r] = "idle"]
      BY <1>6 DEF PollReturns, Move
    <2>1. Moves(r, "idle")
      BY <2>0, Changed, IdleType DEF Moves
    <2> QED
      BY <2>1, <1>c
  <1>7. CASE \E s \in Sets : Take(r, s)
    <2>1. PICK s \in Sets : Take(r, s)
      BY <1>7
    <2>2. Moves(r, "key")
      BY <2>1, <1>a DEF Take, Move, Keep, Moves, Locals
    <2> QED
      BY <2>2, <1>c
  <1>8. CASE FetchFails(r)
    <2>1. Moves(r, "batch")
      BY <1>8, <1>a DEF FetchFails, Keep, Moves, Locals
    <2> QED
      BY <2>1, <1>c
  <1>9. CASE StoreFails(r)
    <2>1. Moves(r, "batch")
      BY <1>9, <1>a DEF StoreFails, StoreFailed, Move, Keep, Moves, Locals
    <2> QED
      BY <2>1, <1>c
  <1> QED
    BY <1>1, <1>2, <1>3, <1>4, <1>5, <1>6, <1>7, <1>8, <1>9 DEF Work

\* The rest of the types.
Caches ==
    /\ keys \subseteq SigningKeys /\ haveKeys \in BOOLEAN
    /\ loadedAt \in Int /\ lastLimited \in Int
    /\ keysHolder \in Receivers \cup {Nobody}
Ledgers ==
    /\ published \subseteq SigningKeys /\ removedAt \in [SigningKeys -> Int]
    /\ sets \in [Sets -> [kid : SigningKeys \cup {"none"}, flawed : BOOLEAN]]
    /\ offered \subseteq Sets /\ seen \subseteq Sets
    /\ owed \in [Receivers -> SUBSET Sets]
    /\ received \subseteq Sets /\ refused \subseteq Sets /\ unsettled \subseteq Sets

LEMMA JudgeTyped ==
    ASSUME Local, NEW r \in Receivers, Judge(r)
    PROVE  /\ Caches'
           /\ UNCHANGED <<published, removedAt, sets, offered, owed, received>>
           /\ seen' \subseteq Sets /\ refused' \subseteq Sets /\ unsettled' \subseteq Sets
  <1>a. /\ Caches /\ now \in Int /\ rcv[r].doc \subseteq SigningKeys /\ rcv[r].at \in Int
        /\ seen \subseteq Sets /\ refused \subseteq Sets /\ unsettled \subseteq Sets
        /\ rpc[r] \in {"key", "fetch", "arriving", "claims"} => rcv[r].set \in Sets
    BY DEF Local, SsfTypeOK, Caches, Locals, Hands
  <1>1. CASE KeyKnown(r)
    BY <1>1, <1>a DEF KeyKnown, Move, Caches, transmitter, cache, verdicts
  <1>2. CASE KeyRefused(r)
    BY <1>2, <1>a DEF KeyRefused, Move, Refuse, Report, Caches, transmitter, cache, verdicts
  <1>3. CASE KeyUnavailable(r)
    BY <1>3, <1>a DEF KeyUnavailable, Move, Caches, transmitter, cache, verdicts
  <1>4. CASE Refetch(r)
    BY <1>4, <1>a DEF Refetch, Move, Caches, transmitter, cache, verdicts
  <1>5. CASE Fill(r)
    BY <1>5, <1>a DEF Fill, Move, Caches, transmitter, cache, verdicts
  <1>6. CASE KeysRead(r)
    BY <1>6, <1>a DEF KeysRead, Move, Caches, transmitter, cache, verdicts
  <1>7. CASE KeyFound(r)
    BY <1>7, <1>a DEF KeyFound, Move, LoadKeys, Caches, transmitter, cache, verdicts
  <1>8. CASE FillThenRefetch(r)
    BY <1>8, <1>a DEF FillThenRefetch, Move, LoadKeys, Caches, transmitter, cache, verdicts
  <1>9. CASE KeyMissing(r)
    BY <1>9, <1>a DEF KeyMissing, Move, LoadKeys, Caches, transmitter, cache, verdicts
  <1>10. CASE ClaimsRefused(r)
    BY <1>10, <1>a DEF ClaimsRefused, Move, Refuse, Report, Caches, transmitter, cache, verdicts
  <1>11. CASE StoreSpared(r)
    BY <1>11, <1>a DEF StoreSpared, Move, Caches, transmitter, cache, verdicts
  <1>12. CASE Accept(r)
    BY <1>12, <1>a DEF Accept, Move, FirstSight, Caches, transmitter, cache, verdicts
  <1>13. CASE Replayed(r)
    BY <1>13, <1>a DEF Replayed, Move, Caches, transmitter, cache, verdicts
  <1> QED
    BY <1>1, <1>2, <1>3, <1>4, <1>5, <1>6, <1>7, <1>8, <1>9, <1>10, <1>11, <1>12, <1>13 DEF Judge

LEMMA WorkTyped ==
    ASSUME Local, NEW r \in Receivers, Work(r)
    PROVE  Caches' /\ Ledgers' /\ now' \in Int
  <1>a. /\ Caches /\ Ledgers /\ now \in Int /\ rcv[r] \in Locals
        /\ owed[r] \subseteq Sets
    BY DEF Local, SsfTypeOK, Caches, Ledgers
  <1>1. CASE Judge(r) /\ UNCHANGED <<now, tally>>
    BY <1>1, <1>a, JudgeTyped DEF Ledgers
  <1>2. CASE PollAnswered(r) /\ UNCHANGED <<now, tally>>
    BY <1>2, <1>a DEF PollAnswered, Caches, Ledgers, cache
  <1>3. CASE PollLost(r) /\ UNCHANGED <<now, tally>>
    BY <1>3, <1>a DEF PollLost, Caches, Ledgers, cache, verdicts
  <1>4. CASE PollReturns(r) /\ UNCHANGED <<now, tally>>
    <2>1. rcv[r].events \subseteq Sets /\ rcv[r].others \subseteq Sets
      BY <1>a DEF Locals
    <2>2. received' \subseteq Sets /\ owed' \in [Receivers -> SUBSET Sets]
      BY <1>4, <1>a, <2>1 DEF PollReturns, Ledgers
    <2> QED
      BY <1>4, <1>a, <2>2 DEF PollReturns, Caches, Ledgers, cache, transmitter
  <1>5. CASE (\E s \in Sets : Take(r, s)) /\ UNCHANGED <<now, tally>>
    BY <1>5, <1>a DEF Take, Caches, Ledgers, cache, transmitter, verdicts
  <1>6. CASE FetchFails(r)
    <2>1. rcv[r].at \in Int
      BY <1>a DEF Locals
    <2> QED
      BY <1>6, <1>a, <2>1 DEF FetchFails, CountFailure, Caches, Ledgers, transmitter, verdicts
  <1>7. CASE StoreFails(r)
    BY <1>7, <1>a DEF StoreFails, Caches, Ledgers, cache, transmitter, verdicts
  <1> QED
    BY <1>1, <1>2, <1>3, <1>4, <1>5, <1>6, <1>7 DEF Work

LEMMA LocalStep == Local /\ [SsfNext]_ssfVars => Local'
  <1> SUFFICES ASSUME Local, [SsfNext]_ssfVars PROVE Local'
    OBVIOUS
  <1>a. Caches /\ Ledgers
    BY DEF Local, SsfTypeOK, Caches, Ledgers
  <1>b. ASSUME NEW r \in Receivers, NEW to \in Places, Moves(r, to),
               Caches', Ledgers', now' \in Int
        PROVE  Local'
    <2>1. rpc' \in [Receivers -> Places] /\ Hands' /\ rcv' \in [Receivers -> Locals]
      BY <1>b, OneMoves DEF Moves
    <2> QED
      BY <1>b, <2>1 DEF Local, SsfTypeOK, Caches, Ledgers, Places
  <1>c. ASSUME rpc' = rpc, rcv' = rcv, Caches', Ledgers', now' \in Int
        PROVE  Local'
    BY <1>c DEF Local, SsfTypeOK, Caches, Ledgers, Hands
  <1>1. CASE SsfTick
    BY <1>1, <1>a, <1>c
    DEF SsfTick, Tick, Local, Caches, Ledgers, transmitter, cache, verdicts
  <1>2. CASE \E s \in Sets : Write(s)
    <2>1. PICK s \in Sets : Write(s)
      BY <1>2
    <2>2. PICK k \in published, flawed \in BOOLEAN :
              sets' = [sets EXCEPT ![s] = [kid |-> k, flawed |-> flawed]]
      BY <2>1 DEF Write
    <2>3. sets' \in [Sets -> [kid : SigningKeys \cup {"none"}, flawed : BOOLEAN]]
      BY <2>2, <1>a DEF Ledgers
    <2>4. offered' \subseteq Sets
      BY <2>1, <1>a DEF Write, Ledgers
    <2>5. Caches' /\ now' \in Int /\ rpc' = rpc /\ rcv' = rcv
      BY <2>1, <1>a DEF Write, Local, Caches, cache
    <2>6. Ledgers'
      BY <2>1, <2>3, <2>4, <1>a DEF Write, Ledgers, verdicts
    <2> QED
      BY <2>5, <2>6, <1>c
  <1>3. CASE \E s \in Sets, r \in Receivers : Push(r, s)
    <2>1. PICK s \in Sets, r \in Receivers : Push(r, s)
      BY <1>3
    <2>2. Caches' /\ Ledgers' /\ now' \in Int
      BY <2>1, <1>a DEF Push, Local, Caches, Ledgers, transmitter, cache, verdicts
    <2> QED
      BY <2>1, <2>2, <1>b, WorkMoves
  <1>4. CASE \E k \in SigningKeys : ChangeKey(k)
    <2>1. PICK k \in SigningKeys : ChangeKey(k)
      BY <1>4
    <2>2. published' \subseteq SigningKeys
      BY <2>1, <1>a DEF ChangeKey, Ledgers
    <2>3. removedAt' \in [SigningKeys -> Int]
      BY <2>1, <1>a DEF ChangeKey, Ledgers, Local
    <2>4. Caches' /\ now' \in Int /\ rpc' = rpc /\ rcv' = rcv
      BY <2>1, <1>a DEF ChangeKey, Local, Caches, cache
    <2>5. Ledgers'
      BY <2>1, <2>2, <2>3, <1>a DEF ChangeKey, Ledgers, verdicts
    <2> QED
      BY <2>4, <2>5, <1>c
  <1>5. CASE \E r \in Receivers : Poll(r)
    <2>1. PICK r \in Receivers : Poll(r)
      BY <1>5
    <2>2. Caches' /\ Ledgers' /\ now' \in Int
      BY <2>1, <1>a DEF Poll, Local, Caches, Ledgers, transmitter, cache, verdicts
    <2> QED
      BY <2>1, <2>2, <1>b, WorkMoves
  <1>6. CASE \E r \in Receivers : Work(r)
    BY <1>6, <1>b, WorkMoves, WorkTyped
  <1>7. CASE UNCHANGED ssfVars
    BY <1>7, <1>a, <1>c
    DEF ssfVars, Local, Caches, Ledgers, transmitter, cache, verdicts
  <1> QED
    BY <1>1, <1>2, <1>3, <1>4, <1>5, <1>6, <1>7 DEF SsfNext

-----------------------------------------------------------------------------
(* The books. *)

\* Receiver r adds to its events or its other verdicts, and nobody else does.
Files(r, events, others) ==
    \A q \in Receivers :
        /\ rcv'[q].events = rcv[q].events \cup IF q = r THEN events ELSE {}
        /\ rcv'[q].others = rcv[q].others \cup IF q = r THEN others ELSE {}

\* Nothing that matters to the books happens.
LEMMA QuietBooks ==
    ASSUME Books, UNCHANGED <<sets, offered, seen, owed, received, refused, unsettled>>,
           \A q \in Receivers : /\ rcv'[q].events = rcv[q].events
                                /\ rcv'[q].others = rcv[q].others
    PROVE  Books'
  <1>1. InHand' = InHand
    BY DEF InHand
  <1> QED
    BY <1>1 DEF Books, Recorded, Settled, EventReceivedOnce, NoEventLost, AccountedFor

LEMMA RefusedBooks ==
    ASSUME Books, NEW r \in Receivers, NEW s \in Sets, Files(r, {}, {s}),
           s \in seen \/ s \in refused' \/ s \in unsettled',
           refused \subseteq refused', unsettled \subseteq unsettled',
           UNCHANGED <<sets, offered, seen, owed, received>>
    PROVE  Books'
  <1>1. \A q \in Receivers : rcv'[q].events = rcv[q].events
    BY DEF Files
  <1>2. InHand' = InHand
    BY <1>1 DEF InHand
  <1>3. Settled'
    BY DEF Settled, Books, Files
  <1>4. EventReceivedOnce'
    BY <1>1, <1>2 DEF EventReceivedOnce, Books
  <1>5. Recorded' /\ NoEventLost'
    BY <1>2 DEF Recorded, NoEventLost, AccountedFor, Books
  <1> QED
    BY <1>3, <1>4, <1>5 DEF Books

\* An event is filed by the receiver that made the store record it.
LEMMA AcceptBooks ==
    ASSUME Books, NEW r \in Receivers, NEW s \in Sets, Files(r, {s}, {}),
           s \notin seen, seen' = seen \cup {s},
           UNCHANGED <<sets, offered, owed, received, refused, unsettled>>
    PROVE  Books'
  <1>1. \A q \in Receivers : s \notin rcv[q].events
    BY DEF Books, Recorded, InHand
  <1>2. InHand' = InHand \cup {s}
    BY DEF Files, InHand
  <1>3. s \notin received /\ s \notin InHand
    BY DEF Books, Recorded
  <1>4. Recorded' /\ NoEventLost'
    BY <1>2 DEF Recorded, NoEventLost, AccountedFor, Books
  <1>5. Settled'
    BY DEF Settled, Books, Files
  <1>6. received' \cap InHand' = {}
    BY <1>2, <1>3 DEF Books, EventReceivedOnce
  <1>7. ASSUME NEW q \in Receivers, NEW o \in Receivers, q # o
        PROVE  rcv'[q].events \cap rcv'[o].events = {}
    <2>1. rcv[q].events \cap rcv[o].events = {}
      BY <1>7 DEF Books, EventReceivedOnce
    <2> QED
      BY <1>1, <1>7, <2>1 DEF Files
  <1> QED
    BY <1>4, <1>5, <1>6, <1>7 DEF Books, EventReceivedOnce

\* A batch is returned: its events go from the receiver's hand to the application.
LEMMA ReturnBooks ==
    ASSUME Local, Books, NEW r \in Receivers, PollReturns(r)
    PROVE  Books'
  <1>1. rcv' = [rcv EXCEPT ![r] = Idle]
    BY DEF PollReturns
  <1>2. \A q \in Receivers : /\ rcv'[q].events = IF q = r THEN {} ELSE rcv[q].events
                             /\ rcv'[q].others = IF q = r THEN {} ELSE rcv[q].others
    BY <1>1, IdleType DEF Local, SsfTypeOK
  <1>3. received' = received \cup rcv[r].events
    BY DEF PollReturns
  <1>4. UNCHANGED <<sets, offered, seen, refused, unsettled>>
    BY DEF PollReturns, transmitter
  <1>5. received' \cup InHand' = received \cup InHand
    BY <1>2, <1>3 DEF InHand
  <1>6. Recorded' /\ NoEventLost'
    BY <1>4, <1>5 DEF Recorded, NoEventLost, AccountedFor, Books
  <1>7. ASSUME NEW q \in Receivers 
        PROVE  owed'[q] \cup rcv'[q].others \subseteq seen' \cup refused' \cup unsettled'
    <2>1. owed' = [owed EXCEPT ![r] = owed[r] \cup rcv[r].events \cup rcv[r].others]
      BY DEF PollReturns
    <2>2. owed'[q] \subseteq owed[q] \cup IF q = r THEN rcv[r].events \cup rcv[r].others ELSE {}
      BY <2>1 DEF Local, SsfTypeOK
    <2>3. rcv[r].events \subseteq seen
      BY DEF Books, Recorded, InHand
    <2> QED
      BY <1>2, <1>4, <2>2, <2>3 DEF Books, Settled
  <1>8. EventReceivedOnce'
    <2>1. \A q, o \in Receivers : q # o => rcv'[q].events \cap rcv'[o].events = {}
      BY <1>2 DEF Books, EventReceivedOnce
    <2>2. \A q \in Receivers : rcv'[q].events \cap received' = {}
      <3>1. \A q \in Receivers : rcv[q].events \cap received = {}
        BY DEF Books, EventReceivedOnce, InHand
      <3>2. \A q \in Receivers : q # r => rcv[q].events \cap rcv[r].events = {}
        BY DEF Books, EventReceivedOnce
      <3> QED
        BY <1>2, <1>3, <3>1, <3>2
    <2> QED
      BY <2>1, <2>2 DEF EventReceivedOnce, InHand
  <1> QED
    BY <1>6, <1>7, <1>8 DEF Books, Settled

\* The transmitter drops what it was told to, whatever becomes of its answer.
LEMMA DroppedBooks ==
    ASSUME Local, Books, NEW r \in Receivers,
           offered \ owed[r] \subseteq offered',
           owed' = owed \/ owed' = [owed EXCEPT ![r] = {}],
           \A q \in Receivers : /\ rcv'[q].events = rcv[q].events
                                /\ rcv'[q].others = rcv[q].others,
           UNCHANGED <<sets, seen, received, refused, unsettled>>
    PROVE  Books'
  <1>1. InHand' = InHand
    BY DEF InHand
  <1>2. owed[r] \subseteq received \cup InHand \cup refused \cup unsettled
    BY DEF Books, Settled, Recorded
  <1>3. NoEventLost'
    BY <1>1, <1>2 DEF NoEventLost, AccountedFor, Books
  <1>4. \A q \in Receivers : owed'[q] \subseteq owed[q]
    BY DEF Local, SsfTypeOK
  <1>5. Settled'
    BY <1>4 DEF Settled, Books
  <1>6. Recorded' /\ EventReceivedOnce'
    BY <1>1 DEF Recorded, EventReceivedOnce, Books
  <1> QED
    BY <1>3, <1>5, <1>6 DEF Books

LEMMA JudgeBooks ==
    ASSUME Local, Books, NEW r \in Receivers, Judge(r)
    PROVE  Books'
  <1>a. rcv \in [Receivers -> Locals]
    BY DEF Local, SsfTypeOK
  <1>b. rpc[r] \in {"key", "fetch", "arriving", "claims"} => rcv[r].set \in Sets
    BY DEF Local, Hands
  <1>c. ASSUME UNCHANGED <<sets, offered, seen, owed, received, refused, unsettled>>,
               \A q \in Receivers : /\ rcv'[q].events = rcv[q].events
                                    /\ rcv'[q].others = rcv[q].others
        PROVE  Books'
    BY <1>c, QuietBooks
  <1>1. CASE KeyKnown(r)
    <2>1. \A q \in Receivers : /\ rcv'[q].events = rcv[q].events
                               /\ rcv'[q].others = rcv[q].others
      BY <1>1, <1>a DEF KeyKnown, Move, Locals
    <2> QED
      BY <1>1, <1>c, <2>1 DEF KeyKnown, transmitter, verdicts
  <1>2. CASE KeyUnavailable(r)
    <2>1. \A q \in Receivers : /\ rcv'[q].events = rcv[q].events
                               /\ rcv'[q].others = rcv[q].others
      BY <1>2, <1>a DEF KeyUnavailable, Move, Unjudged, Locals
    <2> QED
      BY <1>2, <1>c, <2>1 DEF KeyUnavailable, transmitter, verdicts
  <1>3. CASE Refetch(r)
    <2>1. \A q \in Receivers : /\ rcv'[q].events = rcv[q].events
                               /\ rcv'[q].others = rcv[q].others
      BY <1>3, <1>a DEF Refetch, Move, Keep, Locals
    <2> QED
      BY <1>3, <1>c, <2>1 DEF Refetch, transmitter, verdicts
  <1>4. CASE Fill(r)
    <2>1. \A q \in Receivers : /\ rcv'[q].events = rcv[q].events
                               /\ rcv'[q].others = rcv[q].others
      BY <1>4, <1>a DEF Fill, Move, Keep, Locals
    <2> QED
      BY <1>4, <1>c, <2>1 DEF Fill, transmitter, verdicts
  <1>5. CASE KeysRead(r)
    <2>1. \A q \in Receivers : /\ rcv'[q].events = rcv[q].events
                               /\ rcv'[q].others = rcv[q].others
      BY <1>5, <1>a DEF KeysRead, Move, Locals
    <2> QED
      BY <1>5, <1>c, <2>1 DEF KeysRead, transmitter, verdicts
  <1>6. CASE KeyFound(r)
    <2>1. \A q \in Receivers : /\ rcv'[q].events = rcv[q].events
                               /\ rcv'[q].others = rcv[q].others
      BY <1>6, <1>a DEF KeyFound, Move, Locals
    <2> QED
      BY <1>6, <1>c, <2>1 DEF KeyFound, transmitter, verdicts
  <1>7. CASE FillThenRefetch(r)
    <2>1. \A q \in Receivers : /\ rcv'[q].events = rcv[q].events
                               /\ rcv'[q].others = rcv[q].others
      BY <1>7, <1>a DEF FillThenRefetch, Move, Keep, Locals
    <2> QED
      BY <1>7, <1>c, <2>1 DEF FillThenRefetch, transmitter, verdicts
  <1>8. CASE StoreSpared(r)
    <2>1. \A q \in Receivers : /\ rcv'[q].events = rcv[q].events
                               /\ rcv'[q].others = rcv[q].others
      BY <1>8, <1>a DEF StoreSpared, Move, Unjudged, Locals
    <2> QED
      BY <1>8, <1>c, <2>1 DEF StoreSpared, transmitter, verdicts
  <1>9. CASE KeyRefused(r)
    <2>1. Files(r, {}, {rcv[r].set}) /\ rcv[r].set \in Sets
      BY <1>9, <1>a, <1>b DEF KeyRefused, Move, Keep, Refuse, Report, Files, Locals
    <2> QED
      BY <1>9, <2>1, RefusedBooks DEF KeyRefused, Refuse, Report, transmitter, verdicts
  <1>10. CASE KeyMissing(r)
    <2>1. Files(r, {}, {rcv[r].set}) /\ rcv[r].set \in Sets
      BY <1>10, <1>a, <1>b DEF KeyMissing, Move, Keep, Files, Locals
    <2> QED
      BY <1>10, <2>1, RefusedBooks DEF KeyMissing, transmitter, verdicts
  <1>11. CASE ClaimsRefused(r)
    <2>1. Files(r, {}, {rcv[r].set}) /\ rcv[r].set \in Sets
      BY <1>11, <1>a, <1>b DEF ClaimsRefused, Move, Keep, Refuse, Report, Files, Locals
    <2> QED
      BY <1>11, <2>1, RefusedBooks DEF ClaimsRefused, Refuse, Report, transmitter, verdicts
  <1>12. CASE Replayed(r)
    <2>1. Files(r, {}, {rcv[r].set}) /\ rcv[r].set \in Sets
      BY <1>12, <1>a, <1>b DEF Replayed, Move, Keep, Files, Locals
    <2> QED
      BY <1>12, <2>1, RefusedBooks DEF Replayed, transmitter, verdicts
  <1>13. CASE Accept(r)
    <2>1. Files(r, {rcv[r].set}, {}) /\ rcv[r].set \in Sets
      BY <1>13, <1>a, <1>b DEF Accept, Move, Keep, Files, Locals
    <2> QED
      BY <1>13, <2>1, AcceptBooks DEF Accept, FirstSight, transmitter, verdicts
  <1> QED
    BY <1>1, <1>2, <1>3, <1>4, <1>5, <1>6, <1>7, <1>8, <1>9, <1>10, <1>11, <1>12, <1>13 DEF Judge

LEMMA BooksStep == Local /\ Books /\ [SsfNext]_ssfVars => Books'
  <1> SUFFICES ASSUME Local, Books, [SsfNext]_ssfVars PROVE Books'
    OBVIOUS
  <1>a. rcv \in [Receivers -> Locals]
    BY DEF Local, SsfTypeOK
  <1>1. CASE SsfTick
    BY <1>1, QuietBooks DEF SsfTick, transmitter, verdicts
  <1>2. CASE \E s \in Sets : Write(s)
    <2>1. PICK s \in Sets : Write(s)
      BY <1>2
    <2>2. offered' = offered \cup {s} /\ InHand' = InHand
      BY <2>1 DEF Write, InHand
    <2>3. \A o \in Sets : o # s => sets'[o] = sets[o]
      BY <2>1 DEF Write, Local, SsfTypeOK
    <2>4. UNCHANGED <<seen, rcv, owed, received, refused, unsettled>>
      BY <2>1 DEF Write, verdicts
    <2>5. NoEventLost'
      BY <2>2, <2>3, <2>4 DEF NoEventLost, AccountedFor, Books
    <2> QED
      BY <2>2, <2>4, <2>5 DEF Books, Recorded, Settled, EventReceivedOnce
  <1>3. CASE \E s \in Sets, r \in Receivers : Push(r, s)
    <2>1. PICK s \in Sets, r \in Receivers : Push(r, s)
      BY <1>3
    <2>2. rcv' = [rcv EXCEPT ![r].todo = {s}]
      BY <2>1 DEF Push
    <2>3. \A q \in Receivers : rcv'[q].events = rcv[q].events /\ rcv'[q].others = rcv[q].others
      BY <2>2, <1>a DEF Locals
    <2> QED
      BY <2>1, <2>3, QuietBooks DEF Push, transmitter, verdicts
  <1>4. CASE \E k \in SigningKeys : ChangeKey(k)
    BY <1>4, QuietBooks DEF ChangeKey, verdicts
  <1>5. CASE \E r \in Receivers : Poll(r)
    BY <1>5, QuietBooks DEF Poll, transmitter, verdicts
  <1>6. ASSUME NEW r \in Receivers, Work(r) PROVE Books'
    <2>1. CASE Judge(r)
      BY <2>1, JudgeBooks
    <2>2. CASE PollAnswered(r)
      <3>1. \A q \in Receivers : rcv'[q].events = rcv[q].events /\ rcv'[q].others = rcv[q].others
        BY <2>2, <1>a DEF PollAnswered, Locals
      <3> QED
        BY <2>2, <3>1, DroppedBooks DEF PollAnswered
    <2>3. CASE PollLost(r)
      <3>1. rcv[r].events = {} /\ rcv[r].others = {}
        BY <2>3 DEF PollLost, Local, Hands
      <3>2. rcv' = [rcv EXCEPT ![r].attempt = @ + 1] \/ rcv' = [rcv EXCEPT ![r] = Idle]
        BY <2>3 DEF PollLost
      <3>3. \A q \in Receivers : rcv'[q].events = rcv[q].events /\ rcv'[q].others = rcv[q].others
        BY <3>1, <3>2, <1>a, IdleType DEF Locals
      <3> QED
        BY <2>3, <3>3, DroppedBooks DEF PollLost, verdicts
    <2>4. CASE PollReturns(r)
      BY <2>4, ReturnBooks
    <2>5. CASE \E s \in Sets : Take(r, s)
      <3>1. PICK s \in Sets : Take(r, s)
        BY <2>5
      <3>2. \A q \in Receivers : rcv'[q].events = rcv[q].events /\ rcv'[q].others = rcv[q].others
        BY <3>1, <1>a DEF Take, Keep, Locals
      <3> QED
        BY <3>1, <3>2, QuietBooks DEF Take, transmitter, verdicts
    <2>6. CASE FetchFails(r)
      <3>1. \A q \in Receivers : rcv'[q].events = rcv[q].events /\ rcv'[q].others = rcv[q].others
        BY <2>6, <1>a DEF FetchFails, Keep, Locals
      <3> QED
        BY <2>6, <3>1, QuietBooks DEF FetchFails, transmitter, verdicts
    <2>7. CASE StoreFails(r)
      <3>1. \A q \in Receivers : rcv'[q].events = rcv[q].events /\ rcv'[q].others = rcv[q].others
        BY <2>7, <1>a DEF StoreFails, StoreFailed, Keep, Locals
      <3> QED
        BY <2>7, <3>1, QuietBooks DEF StoreFails, transmitter, verdicts
    <2> QED
      BY <1>6, <2>1, <2>2, <2>3, <2>4, <2>5, <2>6, <2>7 DEF Work
  <1>7. CASE UNCHANGED ssfVars
    BY <1>7, QuietBooks DEF ssfVars, transmitter, verdicts
  <1> QED
    BY <1>1, <1>2, <1>3, <1>4, <1>5, <1>6, <1>7 DEF SsfNext

-----------------------------------------------------------------------------
(* The minute between fetches. *)

\* keys_mtx is held over a fetch; a fetch that failed opened a minute that no
\* later one forgets, and one that is under way was not begun inside it.
Fetching == {"fetch", "arriving"}
Spaced == fetched.ok \/ now - fetched.at >= FetchLimit
Outage ==
    /\ now \in Nat /\ lastLimited \in Int /\ lastLimited <= now
    /\ fetched \in [ok : BOOLEAN, at : Int]
    /\ ~fetched.ok => 0 <= fetched.at /\ fetched.at <= lastLimited
    /\ \A r \in Receivers : rpc[r] \in Fetching =>
          /\ keysHolder = r
          /\ rcv[r].at \in Nat /\ rcv[r].at <= now
          /\ ~rcv[r].fill => lastLimited = rcv[r].at
          /\ Spaced

LEMMA NotLimited ==
    ASSUME Outage, ~Limited
    PROVE  Spaced
  BY SsfAssumption DEF Outage, Limited, Spaced, NoTime

\* Nobody's fetch, and nothing it is timed by, is touched.
LEMMA ElsewhereOutage ==
    ASSUME Outage, UNCHANGED <<now, lastLimited, keysHolder, fetched>>,
           \A q \in Receivers : rpc'[q] \in Fetching => rpc'[q] = rpc[q] /\ rcv'[q] = rcv[q]
    PROVE  Outage'
  <1>1. Spaced' = Spaced
    BY DEF Spaced
  <1> QED
    BY <1>1 DEF Outage

\* A fetch begins, or its answer is read, or it is made again.
LEMMA FetchOutage ==
    ASSUME Local, Outage, NEW r \in Receivers,
           Refetch(r) \/ Fill(r) \/ KeysRead(r) \/ FillThenRefetch(r), UNCHANGED now
    PROVE  Outage'
  <1>a. rcv \in [Receivers -> Locals] /\ rcv[r] \in Locals
        /\ rpc \in [Receivers -> Places]
    BY DEF Local, SsfTypeOK, Places
  <1>b. Nobody \notin Receivers
    BY SsfAssumption DEF Nobody
  <1>1. CASE Refetch(r)
    <2>1. \A q \in Receivers : q # r => rpc'[q] = rpc[q] /\ rpc[q] \notin Fetching
      BY <1>1, <1>a, <1>b DEF Refetch, Move, Outage
    <2>2. rcv'[r].at = now /\ rcv'[r].fill = FALSE
      BY <1>1, <1>a DEF Refetch, Keep, Locals
    <2>3. Spaced /\ Spaced' = Spaced
      BY <1>1, NotLimited DEF Refetch, Spaced
    <2> QED
      BY <1>1, <2>1, <2>2, <2>3 DEF Refetch, Outage
  <1>2. CASE Fill(r)
    <2>1. \A q \in Receivers : q # r => rpc'[q] = rpc[q] /\ rpc[q] \notin Fetching
      BY <1>2, <1>a, <1>b DEF Fill, Move, Outage
    <2>2. rcv'[r].at = now /\ rcv'[r].fill = TRUE
      BY <1>2, <1>a DEF Fill, Keep, Locals
    <2>3. Spaced /\ Spaced' = Spaced
      BY <1>2, NotLimited DEF Fill, Spaced
    <2> QED
      BY <1>2, <2>1, <2>2, <2>3 DEF Fill, Outage
  <1>3. CASE KeysRead(r)
    <2>1. rpc[r] \in Fetching /\ UNCHANGED <<lastLimited, keysHolder, fetched>>
      BY <1>3 DEF KeysRead, Move, Fetching, cache
    <2>2. \A q \in Receivers : /\ q # r => rpc'[q] = rpc[q]
                               /\ rcv'[q].at = rcv[q].at /\ rcv'[q].fill = rcv[q].fill
      BY <1>3, <1>a DEF KeysRead, Move, Locals
    <2>3. Spaced' = Spaced
      BY <2>1 DEF Spaced
    <2> QED
      BY <2>1, <2>2, <2>3 DEF Outage
  <1>4. CASE FillThenRefetch(r)
    <2>1. rpc[r] \in Fetching /\ fetched' = [ok |-> TRUE, at |-> rcv[r].at]
          /\ lastLimited' = rcv[r].at /\ keysHolder' = keysHolder
      BY <1>4 DEF FillThenRefetch, Move, Fetching, LoadKeys
    <2>2. keysHolder = r /\ rcv[r].at \in Nat /\ rcv[r].at <= now
      BY <2>1 DEF Outage
    <2>3. \A q \in Receivers : q # r => rpc'[q] = rpc[q] /\ rpc[q] \notin Fetching
      BY <1>4, <1>a, <2>2 DEF FillThenRefetch, Move, Outage
    <2>4. rcv'[r].at = rcv[r].at /\ rcv'[r].fill = FALSE
      BY <1>4, <1>a DEF FillThenRefetch, Keep, Locals
    <2>5. Spaced' /\ fetched' \in [ok : BOOLEAN, at : Int] /\ fetched'.ok
      BY <2>1, <2>2 DEF Spaced
    <2> QED
      BY <2>1, <2>2, <2>3, <2>4, <2>5 DEF Outage
  <1> QED
    BY <1>1, <1>2, <1>3, <1>4

\* A fetch ends, with the keys or without.
LEMMA EndOutage ==
    ASSUME Local, Outage, NEW r \in Receivers,
           KeyFound(r) \/ KeyMissing(r) \/ FetchFails(r), UNCHANGED now
    PROVE  Outage'
  <1>a. rpc \in [Receivers -> Places]
    BY DEF Local, SsfTypeOK, Places
  <1>1. rpc[r] \in Fetching
    BY DEF KeyFound, KeyMissing, FetchFails, Move, Fetching
  <1>2. keysHolder = r /\ rcv[r].at \in Nat /\ rcv[r].at <= now
        /\ (~rcv[r].fill => lastLimited = rcv[r].at)
    BY <1>1 DEF Outage
  <1>3. \A q \in Receivers : rpc'[q] \notin Fetching
    BY <1>a, <1>2 DEF KeyFound, KeyMissing, FetchFails, Move, Outage, Fetching
  <1>4. CASE KeyFound(r) \/ KeyMissing(r)
    <2>1. fetched' = [ok |-> TRUE, at |-> rcv[r].at] /\ lastLimited' = lastLimited
      BY <1>4 DEF KeyFound, KeyMissing, LoadKeys
    <2> QED
      BY <1>2, <1>3, <2>1 DEF Outage
  <1>5. CASE FetchFails(r)
    <2>1. fetched' = [ok |-> FALSE, at |-> rcv[r].at] /\ lastLimited' = rcv[r].at
      BY <1>2, <1>5 DEF FetchFails, CountFailure
    <2> QED
      BY <1>2, <1>3, <2>1 DEF Outage
  <1> QED
    BY <1>4, <1>5

\* The clock stands still while a receiver works.
LEMMA FetchingGoesOn ==
    ASSUME NEW r \in Receivers, Work(r)
    PROVE  UNCHANGED now
  BY DEF Work, FetchFails, StoreFails

\* A receiver's work outside a fetch.
LEMMA RestOfWork ==
    ASSUME Local, NEW r \in Receivers, Work(r),
           ~(Refetch(r) \/ Fill(r) \/ KeysRead(r) \/ FillThenRefetch(r)
             \/ KeyFound(r) \/ KeyMissing(r) \/ FetchFails(r))
    PROVE  /\ UNCHANGED <<now, lastLimited, keysHolder, fetched>>
           /\ \A q \in Receivers : rpc'[q] \in Fetching =>
                 rpc'[q] = rpc[q] /\ rcv'[q] = rcv[q]
  <1>a. rcv \in [Receivers -> Locals] /\ rpc \in [Receivers -> Places]
    BY DEF Local, SsfTypeOK, Places
  <1>b. UNCHANGED now
    BY FetchingGoesOn
  <1>1. CASE KeyKnown(r)
    BY <1>1, <1>a, <1>b DEF KeyKnown, Move, Fetching, cache
  <1>2. CASE KeyRefused(r)
    BY <1>2, <1>a, <1>b DEF KeyRefused, Move, Keep, Refuse, Report, Fetching, cache
  <1>3. CASE KeyUnavailable(r)
    BY <1>3, <1>a, <1>b DEF KeyUnavailable, Move, Unjudged, Fetching, cache
  <1>4. CASE ClaimsRefused(r)
    BY <1>4, <1>a, <1>b DEF ClaimsRefused, Move, Keep, Refuse, Report, Fetching, cache
  <1>5. CASE StoreSpared(r)
    BY <1>5, <1>a, <1>b DEF StoreSpared, Move, Unjudged, Fetching, cache
  <1>6. CASE Accept(r)
    BY <1>6, <1>a, <1>b DEF Accept, Move, Keep, Fetching, cache
  <1>7. CASE Replayed(r)
    BY <1>7, <1>a, <1>b DEF Replayed, Move, Keep, Fetching, cache
  <1>8. CASE PollAnswered(r)
    BY <1>8, <1>a, <1>b DEF PollAnswered, Move, Fetching, cache
  <1>9. CASE PollReturns(r)
    BY <1>9, <1>a, <1>b DEF PollReturns, Move, Fetching, cache
  <1>10. CASE StoreFails(r)
    BY <1>10, <1>a, <1>b DEF StoreFails, Move, Keep, StoreFailed, Fetching, cache
  <1>11. CASE PollLost(r)
    <2>1. \A q \in Receivers : q # r => rpc'[q] = rpc[q] /\ rcv'[q] = rcv[q]
      BY <1>11, <1>a DEF PollLost
    <2>2. rpc'[r] \in {"posted", "idle"}
      BY <1>11, <1>a DEF PollLost
    <2> QED
      BY <1>11, <1>b, <2>1, <2>2 DEF PollLost, Fetching, cache
  <1>12. CASE \E s \in Sets : Take(r, s)
    BY <1>12, <1>a, <1>b DEF Take, Move, Keep, Fetching, cache
  <1> QED
    BY <1>1, <1>2, <1>3, <1>4, <1>5, <1>6, <1>7, <1>8, <1>9, <1>10, <1>11, <1>12 DEF Work, Judge

LEMMA InitOutage == SsfInit => Outage
  BY DEF SsfInit, Outage, Fetching, NoTime

LEMMA OutageStep == Local /\ Outage /\ [SsfNext]_ssfVars => Outage'
  <1> SUFFICES ASSUME Local, Outage, [SsfNext]_ssfVars PROVE Outage'
    OBVIOUS
  <1>a. rcv \in [Receivers -> Locals] /\ rpc \in [Receivers -> Places]
    BY DEF Local, SsfTypeOK, Places
  <1>1. CASE SsfTick
    <2>1. now' = now + 1 /\ UNCHANGED <<lastLimited, keysHolder, fetched, rpc, rcv>>
      BY <1>1 DEF SsfTick, Tick, cache
    <2>2. fetched.at \in Int
      BY DEF Outage
    <2>3. Spaced => Spaced'
      BY <2>1, <2>2, SsfAssumption DEF Spaced, Outage
    <2> QED
      BY <2>1, <2>3 DEF Outage
  <1>2. CASE \E s \in Sets : Write(s)
    BY <1>2, ElsewhereOutage DEF Write, cache
  <1>3. CASE \E s \in Sets, r \in Receivers : Push(r, s)
    <2>1. PICK s \in Sets, r \in Receivers : Push(r, s)
      BY <1>3
    <2>2. \A q \in Receivers : rpc'[q] \in Fetching => rpc'[q] = rpc[q] /\ rcv'[q] = rcv[q]
      BY <2>1, <1>a DEF Push, Move, Fetching
    <2> QED
      BY <2>1, <2>2, ElsewhereOutage DEF Push, cache
  <1>4. CASE \E k \in SigningKeys : ChangeKey(k)
    BY <1>4, ElsewhereOutage DEF ChangeKey, cache
  <1>5. CASE \E r \in Receivers : Poll(r)
    <2>1. PICK r \in Receivers : Poll(r)
      BY <1>5
    <2>2. \A q \in Receivers : rpc'[q] \in Fetching => rpc'[q] = rpc[q] /\ rcv'[q] = rcv[q]
      BY <2>1, <1>a DEF Poll, Move, Fetching
    <2> QED
      BY <2>1, <2>2, ElsewhereOutage DEF Poll, cache
  <1>6. ASSUME NEW r \in Receivers, Work(r) PROVE Outage'
    <2>1. CASE Refetch(r) \/ Fill(r) \/ KeysRead(r) \/ FillThenRefetch(r)
      BY <1>6, <2>1, FetchOutage, FetchingGoesOn
    <2>2. CASE KeyFound(r) \/ KeyMissing(r) \/ FetchFails(r)
      BY <1>6, <2>2, EndOutage, FetchingGoesOn
    <2>3. CASE ~(Refetch(r) \/ Fill(r) \/ KeysRead(r) \/ FillThenRefetch(r)
                 \/ KeyFound(r) \/ KeyMissing(r) \/ FetchFails(r))
      BY <1>6, <2>3, ElsewhereOutage, RestOfWork
    <2> QED
      BY <2>1, <2>2, <2>3
  <1>7. CASE UNCHANGED ssfVars
    BY <1>7, ElsewhereOutage DEF ssfVars, cache
  <1> QED
    BY <1>1, <1>2, <1>3, <1>4, <1>5, <1>6, <1>7 DEF SsfNext

-----------------------------------------------------------------------------
(* The ages of the keys. *)

\* A key removed from what was read at some time was removed after it.
Dated(k, at) == k \in published \/ removedAt[k] >= at

Cached == loadedAt <= now /\ \A k \in keys : Dated(k, loadedAt)

\* The keys a fetch has read are newer than its call, and the key that verified
\* a SET was not removed a lifetime before it.
Aged(r) ==
    /\ rcv[r].at <= now
    /\ rpc[r] = "arriving" => \A k \in rcv[r].doc : Dated(k, rcv[r].at)
    /\ rpc[r] = "claims" =>
          /\ Kid(r) \in SigningKeys
          /\ Kid(r) \in published \/ rcv[r].at - removedAt[Kid(r)] < KeyCacheLifetime

Ages == Cached /\ \A r \in Receivers : Aged(r)

LEMMA AgeTypes ==
    ASSUME Local, Outage
    PROVE  /\ now \in Nat /\ loadedAt \in Int /\ removedAt \in [SigningKeys -> Int]
           /\ published \subseteq SigningKeys /\ keys \subseteq SigningKeys
           /\ rpc \in [Receivers -> Places] /\ rcv \in [Receivers -> Locals]
           /\ \A r \in Receivers : rcv[r] \in Locals /\ rcv[r].at \in Int
                                   /\ rcv[r].doc \subseteq SigningKeys
  <1>1. rcv \in [Receivers -> Locals] /\ removedAt \in [SigningKeys -> Int]
    BY DEF Local, SsfTypeOK
  <1>2. \A r \in Receivers : rcv[r] \in Locals
    BY <1>1
  <1>3. \A r \in Receivers : rcv[r].at \in Int /\ rcv[r].doc \subseteq SigningKeys
    BY <1>2 DEF Locals
  <1>4. rpc \in [Receivers -> Places] /\ now \in Nat
    BY DEF Local, SsfTypeOK, Places, Outage
  <1>5. loadedAt \in Int /\ published \subseteq SigningKeys /\ keys \subseteq SigningKeys
    BY DEF Local, SsfTypeOK
  <1> QED
    BY <1>1, <1>2, <1>3, <1>4, <1>5

\* A lifetime after the cache was read it is cold: a key it held until then was
\* removed less than a lifetime ago.
LEMMA LessThanALifetime ==
    ASSUME NEW n \in Int, NEW read \in Int, NEW gone \in Int, NEW lifetime \in Int,
           gone >= read, n - read < lifetime
    PROVE  n - gone < lifetime
  OBVIOUS

\* The keys in the cache, when a receiver leaves it, drops it or loads its own.
LEMMA CacheAges ==
    ASSUME Local, Outage, Ages, NEW r \in Receivers,
           UNCHANGED <<now, published, removedAt>>,
           \/ UNCHANGED <<keys, loadedAt>>
           \/ keys' = {} /\ UNCHANGED loadedAt
           \/ rpc[r] = "arriving" /\ keys' = rcv[r].doc /\ loadedAt' = rcv[r].at
    PROVE  Cached'
  BY DEF Ages, Cached, Aged, Dated

\* A receiver that reads no keys and verifies nothing.
LEMMA ElsewhereAged ==
    ASSUME Local, Outage, Ages, NEW r \in Receivers, UNCHANGED now,
           rpc'[r] \in {"idle", "posted", "batch", "key", "fetch"},
           rcv'[r].at \in {rcv[r].at, now, 0}
    PROVE  Aged(r)'
  BY AgeTypes DEF Ages, Aged

LEMMA JudgeAges ==
    ASSUME Local, Outage, Ages, NEW r \in Receivers, Judge(r), UNCHANGED now
    PROVE  Cached' /\ Aged(r)'
  <1>a. UNCHANGED <<published, removedAt, sets>>
    BY JudgeTyped
  <1>b. rcv \in [Receivers -> Locals] /\ rcv[r] \in Locals /\ rpc \in [Receivers -> Places]
    BY AgeTypes
  <1>c. \A k \in SigningKeys : removedAt[k] \in Int
    BY AgeTypes
  <1>d. now \in Int /\ loadedAt \in Int /\ rcv[r].at \in Int /\ KeyCacheLifetime \in Nat \ {0}
    BY AgeTypes, SsfAssumption
  <1>e. rcv[r].doc \subseteq SigningKeys /\ keys \subseteq SigningKeys
    BY AgeTypes
  <1>1. CASE KeyKnown(r)
    <2>1. UNCHANGED <<keys, loadedAt>> /\ rpc'[r] = "claims" /\ now - loadedAt < KeyCacheLifetime
          /\ Kid(r) \in keys
      BY <1>1, <1>b, <1>d DEF KeyKnown, Move, Cold, cache
    <2>2. rcv'[r].at = now /\ rcv'[r].set = rcv[r].set
      BY <1>1, <1>b DEF KeyKnown, Locals
    <2>3. Kid(r) \in SigningKeys /\ Kid(r)' = Kid(r)
      BY <1>a, <1>e, <2>1, <2>2 DEF Kid
    <2>4. Kid(r) \in published \/ removedAt[Kid(r)] >= loadedAt
      BY <2>1 DEF Ages, Cached, Dated
    <2>5. Kid(r) \in published \/ now - removedAt[Kid(r)] < KeyCacheLifetime
      BY <1>c, <1>d, <2>1, <2>3, <2>4, LessThanALifetime
    <2>6. Aged(r)'
      BY <1>a, <1>d, <2>1, <2>2, <2>3, <2>5 DEF Aged
    <2> QED
      BY <1>a, <2>1, <2>6, CacheAges
  <1>2. CASE KeysRead(r)
    <2>1. UNCHANGED <<keys, loadedAt>> /\ rpc'[r] = "arriving"
      BY <1>2, <1>b DEF KeysRead, Move, cache
    <2>2. rcv'[r].at = rcv[r].at /\ rcv'[r].doc = published
      BY <1>2, <1>b DEF KeysRead, Locals
    <2>3. Aged(r)'
      BY <1>a, <2>1, <2>2 DEF Ages, Aged, Dated
    <2> QED
      BY <1>a, <2>1, <2>3, CacheAges
  <1>3. CASE KeyFound(r)
    <2>1. rpc[r] = "arriving" /\ keys' = rcv[r].doc /\ loadedAt' = rcv[r].at /\ rpc'[r] = "claims"
          /\ Kid(r) \in rcv[r].doc
      BY <1>3, <1>b DEF KeyFound, Move, LoadKeys
    <2>2. rcv'[r].at = rcv[r].at /\ rcv'[r].set = rcv[r].set
      BY <1>3, <1>b DEF KeyFound, Locals
    <2>3. Kid(r) \in SigningKeys /\ Kid(r)' = Kid(r)
      BY <1>a, <1>e, <2>1, <2>2 DEF Kid
    <2>4. Kid(r) \in published \/ removedAt[Kid(r)] >= rcv[r].at
      BY <2>1 DEF Ages, Aged, Dated
    <2>5. Kid(r) \in published \/ rcv[r].at - removedAt[Kid(r)] < KeyCacheLifetime
      BY <1>c, <1>d, <2>3, <2>4, LessThanALifetime
    <2>6. Aged(r)'
      BY <1>a, <1>d, <2>1, <2>2, <2>3, <2>5 DEF Ages, Aged
    <2> QED
      BY <1>a, <2>1, <2>6, CacheAges
  <1>4. CASE Refetch(r) \/ Fill(r)
    <2>1. (UNCHANGED <<keys, loadedAt>> \/ (keys' = {} /\ UNCHANGED loadedAt)) /\ rpc'[r] = "fetch"
      BY <1>4, <1>b DEF Refetch, Fill, Move
    <2>2. rcv'[r].at = now
      BY <1>4, <1>b DEF Refetch, Fill, Keep, Locals
    <2> QED
      BY <1>a, <2>1, <2>2, CacheAges, ElsewhereAged
  <1>5. CASE FillThenRefetch(r) \/ KeyMissing(r)
    <2>1. rpc[r] = "arriving" /\ keys' = rcv[r].doc /\ loadedAt' = rcv[r].at
          /\ rpc'[r] \in {"fetch", "batch"}
      BY <1>5, <1>b DEF FillThenRefetch, KeyMissing, Move, LoadKeys
    <2>2. rcv'[r].at = rcv[r].at
      BY <1>5, <1>b DEF FillThenRefetch, KeyMissing, Keep, Locals
    <2> QED
      BY <1>a, <2>1, <2>2, CacheAges, ElsewhereAged
  <1>6. CASE KeyUnavailable(r)
    <2>1. keys' = {} /\ UNCHANGED loadedAt /\ rpc'[r] = "batch"
      BY <1>6, <1>b DEF KeyUnavailable, Move
    <2>2. rcv'[r].at = rcv[r].at
      BY <1>6, <1>b DEF KeyUnavailable, Unjudged, Locals
    <2> QED
      BY <1>a, <2>1, <2>2, CacheAges, ElsewhereAged
  <1>7. CASE KeyRefused(r) \/ ClaimsRefused(r) \/ StoreSpared(r) \/ Accept(r) \/ Replayed(r)
    <2>1. UNCHANGED <<keys, loadedAt>> /\ rpc'[r] = "batch"
      BY <1>7, <1>b DEF KeyRefused, ClaimsRefused, StoreSpared, Accept, Replayed, Move, cache
    <2>2. rcv'[r].at = rcv[r].at
      <3>1. CASE KeyRefused(r)
        BY <3>1, <1>b DEF KeyRefused, Refuse, Report, Keep, Locals
      <3>2. CASE ClaimsRefused(r)
        BY <3>2, <1>b DEF ClaimsRefused, Refuse, Report, Keep, Locals
      <3>3. CASE StoreSpared(r)
        BY <3>3, <1>b DEF StoreSpared, Unjudged, Locals
      <3>4. CASE Accept(r)
        BY <3>4, <1>b DEF Accept, Keep, Locals
      <3>5. CASE Replayed(r)
        BY <3>5, <1>b DEF Replayed, Keep, Locals
      <3> QED
        BY <1>7, <3>1, <3>2, <3>3, <3>4, <3>5
    <2> QED
      BY <1>a, <2>1, <2>2, CacheAges, ElsewhereAged
  <1> QED
    BY <1>1, <1>2, <1>3, <1>4, <1>5, <1>6, <1>7 DEF Judge

LEMMA WorkAges ==
    ASSUME Local, Outage, Ages, NEW r \in Receivers,
           Poll(r) \/ (\E s \in Sets : Push(r, s)) \/ Work(r)
    PROVE  /\ UNCHANGED <<now, published, removedAt, sets>>
           /\ Cached' /\ Aged(r)'
           /\ \A q \in Receivers \ {r} : rpc'[q] = rpc[q] /\ rcv'[q] = rcv[q]
  <1>a. rcv \in [Receivers -> Locals] /\ rcv[r] \in Locals /\ rpc \in [Receivers -> Places]
    BY AgeTypes
  <1>b. \A q \in Receivers \ {r} : rpc'[q] = rpc[q] /\ rcv'[q] = rcv[q]
    BY <1>a, WorkMoves DEF Moves
  <1>1. CASE Judge(r) /\ UNCHANGED now
    BY <1>1, <1>b, JudgeAges, JudgeTyped
  <1>2. ASSUME UNCHANGED <<now, published, removedAt, sets>>, UNCHANGED <<keys, loadedAt>>,
               rpc'[r] \in {"idle", "posted", "batch", "key", "fetch"},
               rcv'[r].at \in {rcv[r].at, now, 0}
        PROVE  Cached' /\ Aged(r)'
    BY <1>2, CacheAges, ElsewhereAged
  <1>3. CASE Poll(r)
    BY <1>3, <1>a, <1>b, <1>2 DEF Poll, Move, transmitter, cache
  <1>4. CASE \E s \in Sets : Push(r, s)
    BY <1>4, <1>a, <1>b, <1>2 DEF Push, Move, Locals, transmitter, cache
  <1>5. CASE PollAnswered(r) /\ UNCHANGED now
    BY <1>5, <1>a, <1>b, <1>2 DEF PollAnswered, Move, Locals, cache
  <1>6. CASE PollLost(r) /\ UNCHANGED now
    <2>1. rcv' = [rcv EXCEPT ![r].attempt = @ + 1] \/ rcv' = [rcv EXCEPT ![r] = Idle]
      BY <1>6 DEF PollLost
    <2>2. rcv'[r].at \in {rcv[r].at, 0}
      BY <2>1, <1>a DEF Idle, Locals
    <2>3. rpc'[r] \in {"posted", "idle"}
      BY <1>6, <1>a DEF PollLost
    <2> QED
      BY <1>6, <2>2, <2>3, <1>b, <1>2 DEF PollLost, cache
  <1>7. CASE PollReturns(r) /\ UNCHANGED now
    BY <1>7, <1>a, <1>b, <1>2 DEF PollReturns, Move, Idle, transmitter, cache
  <1>8. CASE \E s \in Sets : Take(r, s) /\ UNCHANGED now
    BY <1>8, <1>a, <1>b, <1>2 DEF Take, Move, Keep, Locals, transmitter, cache
  <1>9. CASE FetchFails(r)
    BY <1>9, <1>a, <1>b, <1>2 DEF FetchFails, Keep, Locals, transmitter
  <1>10. CASE StoreFails(r)
    BY <1>10, <1>a, <1>b, <1>2 DEF StoreFails, StoreFailed, Move, Keep, Locals, transmitter, cache
  <1> QED
    BY <1>1, <1>3, <1>4, <1>5, <1>6, <1>7, <1>8, <1>9, <1>10 DEF Work

LEMMA InitAges == SsfInit => Ages
  <1> SUFFICES ASSUME SsfInit PROVE Ages
    OBVIOUS
  <1>1. \A r \in Receivers : rpc[r] = "idle" /\ rcv[r].at = 0
    BY DEF SsfInit, Idle
  <1> QED
    BY <1>1 DEF SsfInit, Ages, Cached, Aged

LEMMA AgesStep == Local /\ Outage /\ Ages /\ [SsfNext]_ssfVars => Ages'
  <1> SUFFICES ASSUME Local, Outage, Ages, [SsfNext]_ssfVars PROVE Ages'
    OBVIOUS
  <1>a. /\ now \in Nat /\ loadedAt \in Int /\ removedAt \in [SigningKeys -> Int]
        /\ \A r \in Receivers : rcv[r].at \in Int /\ rcv[r].doc \subseteq SigningKeys
        /\ keys \subseteq SigningKeys /\ published \subseteq SigningKeys
    BY AgeTypes
  <1>1. CASE SsfTick
    <2>1. now' = now + 1 /\ UNCHANGED <<published, removedAt, sets, keys, loadedAt, rpc, rcv>>
      BY <1>1 DEF SsfTick, Tick, transmitter, cache
    <2>2. \A r \in Receivers : Kid(r)' = Kid(r)
      BY <2>1 DEF Kid
    <2> QED
      BY <1>a, <2>1, <2>2 DEF Ages, Cached, Aged, Dated
  <1>2. CASE \E s \in Sets : Write(s)
    <2>1. PICK s \in Sets : Write(s)
      BY <1>2
    <2>2. UNCHANGED <<now, published, removedAt, keys, loadedAt, rpc, rcv>>
      BY <2>1 DEF Write, cache
    <2>3. \A x \in Sets : sets[x].kid \in SigningKeys => sets'[x] = sets[x]
      <3>1. sets[s].kid \notin SigningKeys
        BY <2>1, SsfAssumption DEF Write, Unwritten
      <3> QED
        BY <2>1, <3>1 DEF Write, Local, SsfTypeOK
    <2>4. \A r \in Receivers : rpc[r] = "claims" => Kid(r)' = Kid(r)
      BY <2>2, <2>3 DEF Kid, Ages, Aged, Local, Hands
    <2> QED
      BY <2>2, <2>4 DEF Ages, Cached, Aged, Dated
  <1>4. CASE \E k \in SigningKeys : ChangeKey(k)
    <2>1. PICK k \in SigningKeys : ChangeKey(k)
      BY <1>4
    <2>2. UNCHANGED <<now, sets, keys, loadedAt, rpc, rcv>>
      BY <2>1 DEF ChangeKey, cache
    <2>3. \/ published' = published \cup {k} /\ UNCHANGED removedAt
          \/ published' = published \ {k} /\ removedAt' = [removedAt EXCEPT ![k] = now]
      BY <2>1 DEF ChangeKey
    <2>4. \A r \in Receivers : Kid(r)' = Kid(r)
      BY <2>2 DEF Kid
    <2>5. \A x \in SigningKeys, at \in Int : at <= now /\ Dated(x, at) => Dated(x, at)'
      BY <1>a, <2>3 DEF Dated
    <2>6. Cached'
      BY <1>a, <2>2, <2>5 DEF Ages, Cached
    <2>7. ASSUME NEW r \in Receivers PROVE Aged(r)'
      <3>1. rcv[r].at \in Int /\ rcv[r].at <= now
        BY <1>a DEF Ages, Aged
      <3>2. ASSUME rpc[r] = "claims", Kid(r) \notin published'
            PROVE  rcv[r].at - removedAt'[Kid(r)] < KeyCacheLifetime
        <4>1. Kid(r) \in SigningKeys
              /\ (Kid(r) \in published \/ rcv[r].at - removedAt[Kid(r)] < KeyCacheLifetime)
          BY <3>2 DEF Ages, Aged
        <4>2. KeyCacheLifetime \in Nat \ {0}
          BY SsfAssumption
        <4>3. removedAt'[Kid(r)] = now \/ (removedAt'[Kid(r)] = removedAt[Kid(r)]
                                           /\ Kid(r) \notin published)
          BY <1>a, <2>3, <3>2, <4>1
        <4> QED
          BY <1>a, <3>1, <4>1, <4>2, <4>3
      <3>3. rpc[r] = "arriving" => \A x \in rcv[r].doc : Dated(x, rcv[r].at)'
        <4>1. rpc[r] = "arriving" => \A x \in rcv[r].doc : Dated(x, rcv[r].at)
          BY DEF Ages, Aged
        <4>2. rcv'[r].at = rcv[r].at /\ rcv[r].doc \subseteq SigningKeys
          BY <1>a, <2>2
        <4> QED
          BY <2>5, <3>1, <4>1, <4>2
      <3>4. rpc[r] = "arriving" => \A x \in rcv'[r].doc : Dated(x, rcv[r].at)'
        BY <2>2, <3>3
      <3> QED
        BY <2>2, <2>4, <3>1, <3>2, <3>4 DEF Ages, Aged, Dated
    <2> QED
      BY <2>6, <2>7 DEF Ages
  <1>b. ASSUME NEW r \in Receivers, Poll(r) \/ (\E s \in Sets : Push(r, s)) \/ Work(r)
        PROVE  Ages'
    <2>1. /\ UNCHANGED <<now, published, removedAt, sets>> /\ Cached' /\ Aged(r)'
          /\ \A q \in Receivers \ {r} : rpc'[q] = rpc[q] /\ rcv'[q] = rcv[q]
      BY <1>b, WorkAges
    <2>2. \A q \in Receivers \ {r} : Aged(q)'
      BY <2>1 DEF Ages, Aged, Kid, Dated
    <2> QED
      BY <2>1, <2>2 DEF Ages
  <1>5. CASE UNCHANGED ssfVars
    BY <1>5 DEF ssfVars, transmitter, cache, Ages, Cached, Aged, Dated, Kid
  <1> QED
    BY <1>1, <1>2, <1>4, <1>5, <1>b DEF SsfNext

-----------------------------------------------------------------------------
LEMMA Inductive == SsfSpec => [](SsfInv /\ Outage /\ Ages)
  <1>1. SsfInit => SsfInv /\ Outage /\ Ages
    BY InitSsfInv, InitOutage, InitAges
  <1>2. SsfInv /\ Outage /\ Ages /\ [SsfNext]_ssfVars => (SsfInv /\ Outage /\ Ages)'
    BY LocalStep, BooksStep, OutageStep, AgesStep DEF SsfInv
  <1> QED
    BY <1>1, <1>2, PTL DEF SsfSpec

\* Every variable of the receivers, their cache and their transmitter keeps its
\* type: SsfReceiver's State and the locals of poll, verify and key_for.
THEOREM ReceiverTypes == SsfSpec => []SsfTypeOK
  <1>1. SsfInv => SsfTypeOK
    BY DEF SsfInv, Local
  <1> QED
    BY Inductive, <1>1, PTL

\* check_and_record in one section of the store's mutex, and a batch returned as
\* a whole: an event is in the hands of one receiver or application only.
THEOREM HandedOutOnce == SsfSpec => []EventReceivedOnce
  <1>1. SsfInv => EventReceivedOnce
    BY DEF SsfInv, Books
  <1> QED
    BY Inductive, <1>1, PTL

\* What poll has the transmitter drop was handed out or refused: neither a
\* failed fetch nor a failed store has a SET acknowledged.
THEOREM NothingLost == SsfSpec => []NoEventLost
  <1>1. SsfInv => NoEventLost
    BY DEF SsfInv, Books
  <1> QED
    BY Inductive, <1>1, PTL

\* The cache is dated by the clock read before its fetch and is cold a lifetime
\* later: whatever was fetched meanwhile, a key removed by then verifies nothing.
THEOREM RemovedKeysExpire == SsfSpec => []RemovedKeyExpires
  <1>1. Ages => RemovedKeyExpires
    BY DEF Ages, Aged, RemovedKeyExpires
  <1> QED
    BY Inductive, <1>1, PTL

\* key_for counts a failed fetch as the minute's own, under keys_mtx: until the
\* minute has passed no receiver sends another request.
THEOREM OneFetchAMinute == SsfSpec => OutageIsOneFetchAMinute
  <1>1. ASSUME Local, Outage, [SsfNext]_ssfVars, NEW r \in Receivers,
               rpc[r] # "fetch", rpc'[r] = "fetch"
        PROVE  fetched.ok \/ now - fetched.at >= FetchLimit
    <2>1. rpc \in [Receivers -> Places]
      BY <1>1 DEF Local, SsfTypeOK, Places
    <2>2. Refetch(r) \/ Fill(r) \/ FillThenRefetch(r)
      <3>1. ASSUME NEW q \in Receivers, Work(q) PROVE Refetch(r) \/ Fill(r) \/ FillThenRefetch(r)
        <4>1. CASE Refetch(q) \/ Fill(q) \/ FillThenRefetch(q)
          BY <1>1, <2>1, <4>1 DEF Refetch, Fill, FillThenRefetch, Move
        <4>2. CASE KeysRead(q)
          BY <1>1, <2>1, <4>2 DEF KeysRead, Move
        <4>3. CASE KeyFound(q) \/ KeyMissing(q) \/ FetchFails(q)
          BY <1>1, <2>1, <4>3 DEF KeyFound, KeyMissing, FetchFails, Move
        <4> QED
          BY <1>1, <3>1, <4>1, <4>2, <4>3, RestOfWork DEF Fetching
      <3>2. CASE rpc' = rpc
        BY <1>1, <3>2
      <3>3. CASE rpc' # rpc
        <4>1. ~SsfTick /\ ~UNCHANGED ssfVars
          BY <3>3 DEF SsfTick, ssfVars
        <4>2. \A s \in Sets : ~Write(s)
          BY <3>3 DEF Write
        <4>3. \A k \in SigningKeys : ~ChangeKey(k)
          BY <3>3 DEF ChangeKey
        <4>4. \A q \in Receivers : ~Poll(q) /\ \A s \in Sets : ~Push(q, s)
          BY <1>1, <2>1 DEF Poll, Push, Move
        <4> QED
          BY <1>1, <3>1, <4>1, <4>2, <4>3, <4>4 DEF SsfNext
      <3> QED
        BY <3>2, <3>3
    <2>3. CASE Refetch(r) \/ Fill(r)
      BY <1>1, <2>3, NotLimited DEF Refetch, Fill, Spaced
    <2>4. CASE FillThenRefetch(r)
      BY <1>1, <2>4 DEF FillThenRefetch, Move, Outage, Fetching, Spaced
    <2> QED
      BY <2>2, <2>3, <2>4
  <1>2. Local /\ Outage /\ [SsfNext]_ssfVars =>
            [\A r \in Receivers : rpc[r] # "fetch" /\ rpc'[r] = "fetch" =>
                fetched.ok \/ now - fetched.at >= FetchLimit]_ssfVars
    BY <1>1
  <1> QED
    BY Inductive, <1>2, PTL DEF SsfSpec, SsfInv, OutageIsOneFetchAMinute

-----------------------------------------------------------------------------
(* The reactor. *)

LEMMA ClockFacts ==
    ASSUME wall \in Nat
    PROVE  /\ Clock \in Nat
           /\ Clock * TicksPerSecond <= wall
           /\ wall < Clock * TicksPerSecond + TicksPerSecond
  BY ReactorAssumption DEF Clock

LEMMA ClockTicks ==
    ASSUME wall \in Nat, wall' = wall + 1
    PROVE  Clock <= Clock'
  BY ReactorAssumption DEF Clock

\* The event in hand: published, and dated by the clock it came under.
EventInHand ==
    /\ spc # "waiting" => sent[event.nonce] # Unsent
    /\ event.received <= Clock
    /\ event.received * TicksPerSecond <= event.since
    /\ event.refusal = "replay" => event.nonce \in originals

\* What a nonce in the seen-set, and one that has left it, say of the event the
\* handler got: it was fresh then, and it is remembered for twice the skew.
Memory ==
    \A n \in Nonces :
        /\ seenNonces[n] # Forgotten => n \in originals
        /\ handled[n] # Never =>
              /\ handled[n] >= 0 /\ sent[n] # Unsent /\ sent[n].ours
              /\ sent[n].issued <= handled[n] + FreshnessSkew
              /\ \/ seenNonces[n] = handled[n] + 2 * FreshnessSkew
                 \/ /\ seenNonces[n] = Forgotten
                    /\ handled[n] + 2 * FreshnessSkew <= event.received

ReactorInv == ReactorTypeOK /\ EventInHand /\ Memory /\ RepliesLessThanASecondLate

LEMMA NoEventFacts ==
    /\ NoEvent \in [nonce : Nonces \cup {"none"}, received : Nat, since : Nat, refusal : Refusals]
    /\ NoEvent.received = 0 /\ NoEvent.since = 0 /\ NoEvent.refusal = "none"
  <1>1. "none" \in Nonces \cup {"none"} /\ 0 \in Nat /\ "none" \in Refusals
    BY DEF Refusals
  <1> QED
    BY <1>1 DEF NoEvent

LEMMA InitReactorInv == ReactorInit => ReactorInv
  <1> SUFFICES ASSUME ReactorInit PROVE ReactorInv
    OBVIOUS
  <1>1. wall = 0 /\ Clock \in Nat
    BY ClockFacts DEF ReactorInit
  <1>2. sent \in [Nonces -> [issued : Int, timeout : Timeouts \cup {0}, ours : BOOLEAN]]
    BY DEF ReactorInit, Unsent, Never
  <1>3. event \in [nonce : Nonces \cup {"none"}, received : Nat, since : Nat, refusal : Refusals]
    BY NoEventFacts DEF ReactorInit
  <1>4. seenNonces \in [Nonces -> Int] /\ handled \in [Nonces -> Int]
    BY DEF ReactorInit, Forgotten, Never
  <1>5. ReactorTypeOK
    <2>1. deliveries \in Nat /\ lateness \in Int /\ spc = "waiting" /\ originals \subseteq Nonces
      BY DEF ReactorInit
    <2> QED
      BY <1>1, <1>2, <1>3, <1>4, <2>1 DEF ReactorTypeOK
  <1>6. EventInHand
    BY <1>1, ReactorAssumption DEF ReactorInit, EventInHand, NoEvent
  <1>7. Memory
    BY DEF ReactorInit, Memory, Forgotten, Never
  <1>8. RepliesLessThanASecondLate
    BY ReactorAssumption DEF ReactorInit, RepliesLessThanASecondLate
  <1> QED
    BY <1>5, <1>6, <1>7, <1>8 DEF ReactorInv

-----------------------------------------------------------------------------
\* A delivery left without a reply keeps its nonce and its times.
LEMMA Dropped ==
    ASSUME ReactorTypeOK, NEW why \in Refusals, Drop(why)
    PROVE  /\ spc' = "waiting"
           /\ event' \in [nonce : Nonces \cup {"none"}, received : Nat, since : Nat,
                          refusal : Refusals]
           /\ event'.nonce = event.nonce /\ event'.received = event.received
           /\ event'.since = event.since /\ event'.refusal = why
  BY DEF ReactorTypeOK, Drop

\* One that touches nothing else, for any reason but a replay.
LEMMA SilentStep ==
    ASSUME ReactorInv, NEW why \in Refusals \ {"replay"}, Drop(why),
           UNCHANGED <<wall, sent, deliveries, seenNonces, handled, originals, lateness>>
    PROVE  ReactorInv'
  <1>1. ReactorTypeOK'
    BY Dropped DEF ReactorInv, ReactorTypeOK
  <1>2. Clock' = Clock
    BY DEF Clock
  <1>3. EventInHand'
    BY Dropped, <1>2 DEF ReactorInv, EventInHand
  <1>4. Memory'
    BY Dropped DEF ReactorInv, Memory
  <1> QED
    BY <1>1, <1>3, <1>4 DEF ReactorInv, RepliesLessThanASecondLate

\* What the sweep leaves, and what it forgets.
LEMMA SweptFacts ==
    ASSUME ReactorInv
    PROVE  /\ Swept \in [Nonces -> Int]
           /\ \A n \in Nonces :
                 /\ Swept[n] # Forgotten => Swept[n] = seenNonces[n]
                 /\ handled[n] # Never =>
                       \/ Swept[n] = handled[n] + 2 * FreshnessSkew
                       \/ /\ Swept[n] = Forgotten
                          /\ handled[n] + 2 * FreshnessSkew <= event.received
  <1>1. Swept \in [Nonces -> Int]
    BY DEF Swept, ReactorInv, ReactorTypeOK, Forgotten
  <1>2. ASSUME NEW n \in Nonces
        PROVE  Swept[n] = IF seenNonces[n] <= event.received THEN Forgotten ELSE seenNonces[n]
    BY DEF Swept
  <1>3. ASSUME NEW n \in Nonces, handled[n] # Never
        PROVE  \/ Swept[n] = handled[n] + 2 * FreshnessSkew
               \/ /\ Swept[n] = Forgotten
                  /\ handled[n] + 2 * FreshnessSkew <= event.received
    BY <1>2, <1>3, ReactorAssumption DEF ReactorInv, Memory, ReactorTypeOK
  <1> QED
    BY <1>1, <1>2, <1>3

LEMMA SkewFacts ==
    ASSUME NEW t \in Nat
    PROVE  /\ 2 * FreshnessSkew \in Nat /\ t + 2 * FreshnessSkew \in Nat
           /\ t + 2 * FreshnessSkew # Forgotten /\ t + 2 * FreshnessSkew > t
           /\ t # Never
  BY ReactorAssumption DEF Forgotten, Never

-----------------------------------------------------------------------------
LEMMA TickStep ==
    ASSUME ReactorInv, ReactorTick
    PROVE  ReactorInv'
  <1>1. ReactorTypeOK'
    BY DEF ReactorInv, ReactorTypeOK, ReactorTick
  <1>2. Clock \in Nat /\ Clock' \in Nat /\ Clock <= Clock'
    <2>1. wall \in Nat /\ wall' \in Nat /\ wall' = wall + 1
      BY DEF ReactorInv, ReactorTypeOK, ReactorTick
    <2> QED
      BY <2>1, ReactorAssumption DEF Clock
  <1>3. event.received \in Nat
    BY DEF ReactorInv, ReactorTypeOK
  <1>4. EventInHand'
    BY <1>2, <1>3 DEF ReactorInv, EventInHand, ReactorTick
  <1>5. Memory'
    BY DEF ReactorInv, Memory, ReactorTick
  <1>6. RepliesLessThanASecondLate'
    BY DEF ReactorInv, RepliesLessThanASecondLate, ReactorTick
  <1> QED
    BY <1>1, <1>4, <1>5, <1>6 DEF ReactorInv

LEMMA PublishStep ==
    ASSUME ReactorInv, NEW n \in Nonces, Publish(n)
    PROVE  ReactorInv'
  <1>1. PICK issued \in (Clock - FreshnessSkew)..(Clock + FreshnessSkew),
             timeout \in Timeouts, ours \in BOOLEAN :
          sent' = [sent EXCEPT ![n] = [issued |-> issued, timeout |-> timeout, ours |-> ours]]
    BY DEF Publish
  <1>2. issued \in Int
    BY <1>1, ReactorAssumption, ClockFacts DEF ReactorInv, ReactorTypeOK
  <1>3. sent' \in [Nonces -> [issued : Int, timeout : Timeouts \cup {0}, ours : BOOLEAN]]
    BY <1>1, <1>2 DEF ReactorInv, ReactorTypeOK
  <1>4. sent[n] = Unsent /\ \A m \in Nonces : m # n => sent'[m] = sent[m]
    BY <1>1 DEF Publish, ReactorInv, ReactorTypeOK
  <1>5. ReactorTypeOK'
    BY <1>3 DEF ReactorInv, ReactorTypeOK, Publish
  <1>6. Clock' = Clock
    BY DEF Clock, Publish
  <1>7. EventInHand'
    <2>1. spc # "waiting" => event.nonce \in Nonces /\ event.nonce # n
      BY <1>4 DEF ReactorInv, ReactorTypeOK, EventInHand
    <2>2. spc' # "waiting" => sent'[event'.nonce] # Unsent
      BY <2>1, <1>4 DEF ReactorInv, EventInHand, Publish
    <2> QED
      BY <2>2, <1>6 DEF ReactorInv, EventInHand, Publish
  <1>8. Memory'
    <2> SUFFICES ASSUME NEW m \in Nonces
                 PROVE  /\ seenNonces[m] # Forgotten => m \in originals
                        /\ handled[m] # Never =>
                              /\ handled[m] >= 0 /\ sent'[m] # Unsent /\ sent'[m].ours
                              /\ sent'[m].issued <= handled[m] + FreshnessSkew
                              /\ \/ seenNonces[m] = handled[m] + 2 * FreshnessSkew
                                 \/ /\ seenNonces[m] = Forgotten
                                    /\ handled[m] + 2 * FreshnessSkew <= event.received
      BY DEF Memory, Publish
    <2>1. handled[m] # Never => m # n
      BY <1>4 DEF ReactorInv, Memory
    <2> QED
      BY <2>1, <1>4 DEF ReactorInv, Memory
  <1>9. RepliesLessThanASecondLate'
    BY DEF ReactorInv, RepliesLessThanASecondLate, Publish
  <1> QED
    BY <1>5, <1>7, <1>8, <1>9 DEF ReactorInv

LEMMA DeliveryStep ==
    ASSUME ReactorInv, NEW n \in Nonces, NextDelivery(n)
    PROVE  ReactorInv'
  <1>1. /\ spc' \in {"altered", "verify"} /\ sent' = sent /\ wall' = wall
        /\ seenNonces' = seenNonces /\ handled' = handled /\ originals' = originals
        /\ lateness' = lateness /\ deliveries' = deliveries + 1 /\ sent[n] # Unsent
    BY DEF NextDelivery
  <1>2. wall \in Nat /\ Clock \in Nat /\ Clock * TicksPerSecond <= wall
    BY ClockFacts DEF ReactorInv, ReactorTypeOK
  <1>3. event' = [nonce |-> n, received |-> Clock, since |-> wall, refusal |-> "none"]
    BY DEF NextDelivery
  <1>4. /\ event'.nonce = n /\ event'.received = Clock /\ event'.since = wall
        /\ event'.refusal = "none"
    BY <1>3
  <1>5. event' \in [nonce : Nonces \cup {"none"}, received : Nat, since : Nat,
                    refusal : Refusals]
    <2>1. "none" \in Refusals
      BY DEF Refusals
    <2> QED
      BY <1>2, <1>3, <2>1
  <1>6. ReactorTypeOK'
    BY <1>1, <1>4, <1>5 DEF ReactorInv, ReactorTypeOK
  <1>7. Clock' = Clock
    BY <1>1 DEF Clock
  <1>8. EventInHand'
    BY <1>1, <1>2, <1>4, <1>7 DEF EventInHand
  <1>9. Memory'
    <2>1. event.received \in Nat /\ event.received <= Clock
      BY DEF ReactorInv, ReactorTypeOK, EventInHand
    <2>2. handled \in [Nonces -> Int] /\ 2 * FreshnessSkew \in Nat
      BY ReactorAssumption DEF ReactorInv, ReactorTypeOK
    <2>3. \A m \in Nonces : handled[m] + 2 * FreshnessSkew <= event.received
                             => handled[m] + 2 * FreshnessSkew <= event'.received
      BY <1>2, <1>4, <2>1, <2>2
    <2> QED
      BY <1>1, <2>3 DEF ReactorInv, Memory
  <1> QED
    BY <1>1, <1>6, <1>8, <1>9 DEF ReactorInv, RepliesLessThanASecondLate

\* A replay is refused in a seen-set just swept.
LEMMA ReplayStep ==
    ASSUME ReactorInv, RefuseReplay
    PROVE  ReactorInv'
  <1>1. /\ Swept[event.nonce] # Forgotten /\ spc = "verify" /\ Drop("replay")
        /\ seenNonces' = Swept
        /\ UNCHANGED <<wall, sent, deliveries, handled, originals, lateness>>
    BY DEF RefuseReplay
  <1>2. "replay" \in Refusals
    BY DEF Refusals
  <1>3. event.nonce \in Nonces /\ event.nonce \in originals
    BY <1>1, SweptFacts DEF ReactorInv, ReactorTypeOK, Memory
  <1>4. ReactorTypeOK'
    BY <1>1, <1>2, Dropped, SweptFacts DEF ReactorInv, ReactorTypeOK
  <1>5. Clock' = Clock
    BY <1>1 DEF Clock
  <1>6. EventInHand'
    BY <1>1, <1>2, <1>3, <1>5, Dropped DEF ReactorInv, EventInHand
  <1>7. Memory'
    BY <1>1, <1>2, Dropped, SweptFacts DEF ReactorInv, Memory
  <1> QED
    BY <1>1, <1>4, <1>6, <1>7 DEF ReactorInv, RepliesLessThanASecondLate

\* A nonce that is new, or that was forgotten, is remembered from now.  If the
\* handler had its event before, that was a full two skews ago.
LEMMA RememberFacts ==
    ASSUME ReactorInv, spc = "verify", Fresh, Swept[event.nonce] = Forgotten, Remember
    PROVE  /\ event.nonce \in Nonces /\ event.received \in Nat
           /\ seenNonces' \in [Nonces -> Int]
           /\ seenNonces'[event.nonce] = event.received + 2 * FreshnessSkew
           /\ \A n \in Nonces : n # event.nonce => seenNonces'[n] = Swept[n]
           /\ sent[event.nonce] # Unsent
           /\ sent[event.nonce].issued \in Int
           /\ sent[event.nonce].issued <= event.received + FreshnessSkew
           /\ event.received <= sent[event.nonce].issued + FreshnessSkew
           /\ handled[event.nonce] # Never =>
                 /\ event.received = handled[event.nonce] + 2 * FreshnessSkew
                 /\ sent[event.nonce].issued = handled[event.nonce] + FreshnessSkew
  <1>1. event.nonce \in Nonces /\ event.received \in Nat /\ sent[event.nonce] # Unsent
    BY DEF ReactorInv, ReactorTypeOK, EventInHand
  <1>2. event.received + 2 * FreshnessSkew \in Int
    BY <1>1, ReactorAssumption
  <1>3. /\ seenNonces' \in [Nonces -> Int]
        /\ seenNonces'[event.nonce] = event.received + 2 * FreshnessSkew
        /\ \A n \in Nonces : n # event.nonce => seenNonces'[n] = Swept[n]
    BY <1>1, <1>2, SweptFacts DEF Remember
  <1>4. sent[event.nonce].issued \in Int /\ handled[event.nonce] \in Int
    BY <1>1 DEF ReactorInv, ReactorTypeOK
  <1>5. /\ sent[event.nonce].issued <= event.received + FreshnessSkew
        /\ event.received <= sent[event.nonce].issued + FreshnessSkew
    BY <1>1, <1>4, ReactorAssumption DEF Fresh, Drift
  <1>6. ASSUME handled[event.nonce] # Never
        PROVE  /\ event.received = handled[event.nonce] + 2 * FreshnessSkew
               /\ sent[event.nonce].issued = handled[event.nonce] + FreshnessSkew
    <2>1. /\ handled[event.nonce] >= 0
          /\ sent[event.nonce].issued <= handled[event.nonce] + FreshnessSkew
      BY <1>1, <1>6 DEF ReactorInv, Memory
    <2>2. handled[event.nonce] + 2 * FreshnessSkew # Forgotten
      BY <1>4, <2>1, ReactorAssumption DEF Forgotten
    <2>3. handled[event.nonce] + 2 * FreshnessSkew <= event.received
      BY <1>1, <1>6, <2>2, SweptFacts
    <2> QED
      BY <1>1, <1>4, <1>5, <2>1, <2>3, ReactorAssumption
  <1> QED
    BY <1>1, <1>3, <1>4, <1>5, <1>6

LEMMA ForeignStep ==
    ASSUME ReactorInv, RefuseForeign
    PROVE  ReactorInv'
  <1>1. /\ spc = "verify" /\ Fresh /\ Swept[event.nonce] = Forgotten /\ Remember
        /\ ~sent[event.nonce].ours /\ Drop("foreign")
        /\ originals' = originals \cup {event.nonce}
        /\ UNCHANGED <<wall, sent, deliveries, handled, lateness>>
    BY DEF RefuseForeign
  <1>2. "foreign" \in Refusals /\ "foreign" # "replay"
    BY DEF Refusals
  <1>3. /\ event.nonce \in Nonces /\ seenNonces' \in [Nonces -> Int]
        /\ \A n \in Nonces : n # event.nonce => seenNonces'[n] = Swept[n]
    BY <1>1, RememberFacts
  <1>4. ReactorTypeOK'
    BY <1>1, <1>2, <1>3, Dropped DEF ReactorInv, ReactorTypeOK
  <1>5. Clock' = Clock
    BY <1>1 DEF Clock
  <1>6. EventInHand'
    BY <1>1, <1>2, <1>5, Dropped DEF ReactorInv, EventInHand
  <1>7. Memory'
    <2>1. event'.received = event.received
      BY <1>1, <1>2, Dropped DEF ReactorInv
    <2>2. handled[event.nonce] = Never
      BY <1>1, <1>3 DEF ReactorInv, Memory
    <2>3. \A n \in Nonces : seenNonces'[n] # Forgotten => n \in originals'
      BY <1>1, <1>3, SweptFacts DEF ReactorInv, Memory
    <2>4. \A n \in Nonces : handled[n] # Never =>
            /\ n # event.nonce
            /\ handled[n] >= 0 /\ sent[n] # Unsent /\ sent[n].ours
            /\ sent[n].issued <= handled[n] + FreshnessSkew
            /\ \/ seenNonces'[n] = handled[n] + 2 * FreshnessSkew
               \/ /\ seenNonces'[n] = Forgotten
                  /\ handled[n] + 2 * FreshnessSkew <= event.received
      BY <1>3, <2>2, SweptFacts DEF ReactorInv, Memory
    <2> QED
      BY <1>1, <2>1, <2>3, <2>4 DEF Memory
  <1> QED
    BY <1>1, <1>4, <1>6, <1>7 DEF ReactorInv, RepliesLessThanASecondLate

LEMMA HandlerStep ==
    ASSUME ReactorInv, CallHandler
    PROVE  ReactorInv'
  <1>1. /\ spc = "verify" /\ Fresh /\ Swept[event.nonce] = Forgotten /\ Remember
        /\ sent[event.nonce].ours /\ spc' = "handling"
        /\ originals' = originals \cup {event.nonce}
        /\ handled' = [handled EXCEPT ![event.nonce] = event.received]
        /\ UNCHANGED <<wall, sent, deliveries, event, lateness>>
    BY DEF CallHandler
  <1>2. /\ event.nonce \in Nonces /\ event.received \in Nat
        /\ seenNonces' \in [Nonces -> Int]
        /\ seenNonces'[event.nonce] = event.received + 2 * FreshnessSkew
        /\ \A n \in Nonces : n # event.nonce => seenNonces'[n] = Swept[n]
        /\ sent[event.nonce] # Unsent
        /\ sent[event.nonce].issued <= event.received + FreshnessSkew
    BY <1>1, RememberFacts
  <1>3. /\ handled' \in [Nonces -> Int] /\ handled'[event.nonce] = event.received
        /\ \A n \in Nonces : n # event.nonce => handled'[n] = handled[n]
    BY <1>1, <1>2 DEF ReactorInv, ReactorTypeOK
  <1>4. ReactorTypeOK'
    BY <1>1, <1>2, <1>3 DEF ReactorInv, ReactorTypeOK
  <1>5. Clock' = Clock
    BY <1>1 DEF Clock
  <1>6. EventInHand'
    BY <1>1, <1>2, <1>5 DEF ReactorInv, EventInHand
  <1>7. Memory'
    <2>1. \A n \in Nonces : seenNonces'[n] # Forgotten => n \in originals'
      BY <1>1, <1>2, SweptFacts DEF ReactorInv, Memory
    <2>2. \A n \in Nonces : n # event.nonce /\ handled[n] # Never =>
            /\ handled[n] >= 0 /\ sent[n] # Unsent /\ sent[n].ours
            /\ sent[n].issued <= handled[n] + FreshnessSkew
            /\ \/ seenNonces'[n] = handled[n] + 2 * FreshnessSkew
               \/ /\ seenNonces'[n] = Forgotten
                  /\ handled[n] + 2 * FreshnessSkew <= event.received
      BY <1>2, SweptFacts DEF ReactorInv, Memory
    <2>3. handled'[event.nonce] >= 0
      BY <1>2, <1>3
    <2> QED
      BY <1>1, <1>2, <1>3, <2>1, <2>2, <2>3 DEF Memory
  <1> QED
    BY <1>1, <1>4, <1>6, <1>7 DEF ReactorInv, RepliesLessThanASecondLate

\* What a clock of whole seconds can promise: a window not seen to close, from a
\* start not seen to pass, closed less than a second ago.
LEMMA WholeSeconds ==
    ASSUME NEW T \in Nat \ {0}, NEW clock \in Nat, NEW came \in Nat, NEW since \in Nat,
           NEW time \in Nat, NEW window \in Nat,
           time < clock * T + T, came * T <= since, (clock - came) * T <= window
    PROVE  time - since - window < T
  <1>1. clock * T \in Nat /\ came * T \in Nat
    OBVIOUS
  <1>2. (clock - came) * T = clock * T - came * T
    OBVIOUS
  <1> QED
    BY <1>1, <1>2

LEMMA ReplyStep ==
    ASSUME ReactorInv, Reply
    PROVE  ReactorInv'
  <1> DEFINE window == sent[event.nonce].timeout
  <1>1. /\ spc = "handling" /\ Drop("none") /\ (window > 0 => ~WindowClosed(window))
        /\ lateness' = IF window = 0 THEN 0 ELSE wall - event.since - window
        /\ UNCHANGED <<wall, sent, deliveries, seenNonces, handled, originals>>
    BY DEF Reply
  <1>2. "none" \in Refusals /\ "none" # "replay"
    BY DEF Refusals
  <1>3. event.nonce \in Nonces /\ event.received \in Nat /\ event.since \in Nat
    BY <1>1 DEF ReactorInv, ReactorTypeOK
  <1>4. window \in Nat /\ wall \in Nat
    <2>1. sent[event.nonce] \in [issued : Int, timeout : Timeouts \cup {0}, ours : BOOLEAN]
      BY <1>3 DEF ReactorInv, ReactorTypeOK
    <2>2. window \in Timeouts \cup {0}
      BY <2>1
    <2>3. wall \in Nat
      BY DEF ReactorInv, ReactorTypeOK
    <2>4. Timeouts \cup {0} \subseteq Nat
      BY ReactorAssumption
    <2> HIDE DEF window
    <2> QED
      BY <2>2, <2>3, <2>4
  <1>5. lateness' \in Int /\ lateness' < TicksPerSecond
    <2>1. CASE window = 0
      BY <1>1, <2>1, ReactorAssumption
    <2>2. CASE window # 0
      <3>1. Clock \in Nat /\ wall < Clock * TicksPerSecond + TicksPerSecond
        BY <1>4, ClockFacts
      <3>2. event.received * TicksPerSecond <= event.since
        BY DEF ReactorInv, EventInHand
      <3>3. (Clock - event.received) * TicksPerSecond \in Int
        BY <1>3, <3>1, ReactorAssumption
      <3>4. (Clock - event.received) * TicksPerSecond <= window
        BY <1>1, <1>4, <2>2, <3>3 DEF WindowClosed
      <3>5. wall - event.since - window < TicksPerSecond
        BY <1>3, <1>4, <3>1, <3>2, <3>4, WholeSeconds, ReactorAssumption
      <3>6. lateness' = wall - event.since - window
        BY <1>1, <2>2
      <3> QED
        BY <1>3, <1>4, <3>5, <3>6
    <2> QED
      BY <2>1, <2>2
  <1>6. ReactorTypeOK'
    BY <1>1, <1>2, <1>5, Dropped DEF ReactorInv, ReactorTypeOK
  <1>7. Clock' = Clock
    BY <1>1 DEF Clock
  <1>8. EventInHand'
    BY <1>1, <1>2, <1>7, Dropped DEF ReactorInv, EventInHand
  <1>9. Memory'
    BY <1>1, <1>2, Dropped DEF ReactorInv, Memory
  <1> QED
    BY <1>5, <1>6, <1>8, <1>9 DEF ReactorInv, RepliesLessThanASecondLate

\* A later call of reactor_serve remembers nothing, and has handled nothing.
LEMMA ServeStep ==
    ASSUME ReactorInv, ServeAgain
    PROVE  ReactorInv'
  <1>1. /\ spc = "waiting" /\ originals' = {} /\ event' = NoEvent
        /\ seenNonces' = [n \in Nonces |-> Forgotten]
        /\ handled' = [n \in Nonces |-> Never]
        /\ UNCHANGED <<wall, sent, deliveries, spc, lateness>>
    BY DEF ServeAgain
  <1>2. seenNonces' \in [Nonces -> Int] /\ handled' \in [Nonces -> Int]
    BY <1>1 DEF Forgotten, Never
  <1>3. ReactorTypeOK'
    BY <1>1, <1>2, NoEventFacts DEF ReactorInv, ReactorTypeOK
  <1>4. Clock \in Nat /\ Clock' = Clock /\ 0 * TicksPerSecond = 0
    BY <1>1, ClockFacts, ReactorAssumption DEF Clock, ReactorInv, ReactorTypeOK
  <1>5. EventInHand'
    BY <1>1, <1>4, NoEventFacts DEF EventInHand
  <1>6. Memory'
    BY <1>1 DEF Memory
  <1> QED
    BY <1>1, <1>3, <1>5, <1>6 DEF ReactorInv, RepliesLessThanASecondLate

LEMMA StutterStep ==
    ASSUME ReactorInv, UNCHANGED reactorVars
    PROVE  ReactorInv'
  <1>1. Clock' = Clock
    BY DEF reactorVars, Clock
  <1> QED
    BY <1>1 DEF reactorVars, ReactorInv, ReactorTypeOK, EventInHand, Memory,
                RepliesLessThanASecondLate

LEMMA StepReactorInv == ReactorInv /\ [ReactorNext]_reactorVars => ReactorInv'
  <1> SUFFICES ASSUME ReactorInv, [ReactorNext]_reactorVars PROVE ReactorInv'
    OBVIOUS
  <1>1. CASE ReactorTick
    BY <1>1, TickStep
  <1>2. CASE \E n \in Nonces : Publish(n) \/ NextDelivery(n)
    BY <1>2, PublishStep, DeliveryStep
  <1>3. CASE RefuseAltered \/ RefuseStale \/ NoAnswer \/ Abandon
    <2>1. PICK why \in {"bad MAC", "stale", "no answer", "abandoned"} :
            /\ Drop(why)
            /\ UNCHANGED <<wall, sent, deliveries, seenNonces, handled, originals, lateness>>
      BY <1>3 DEF RefuseAltered, RefuseStale, NoAnswer, Abandon
    <2>2. why \in Refusals \ {"replay"}
      BY DEF Refusals
    <2> QED
      BY <2>1, <2>2, SilentStep
  <1>4. CASE RefuseReplay \/ RefuseForeign
    BY <1>4, ReplayStep, ForeignStep
  <1>5. CASE CallHandler \/ Reply
    BY <1>5, HandlerStep, ReplyStep
  <1>6. CASE ServeAgain
    BY <1>6, ServeStep
  <1>7. CASE UNCHANGED reactorVars
    BY <1>7, StutterStep
  <1> QED
    BY <1>1, <1>2, <1>3, <1>4, <1>5, <1>6, <1>7 DEF ReactorNext

LEMMA ReactorInductive == ReactorSpec => []ReactorInv
  BY InitReactorInv, StepReactorInv, PTL DEF ReactorSpec

-----------------------------------------------------------------------------
\* reactor_serve's variables keep their ranges.
THEOREM ReactorTypes == ReactorSpec => []ReactorTypeOK
  <1>1. ReactorInv => ReactorTypeOK
    BY DEF ReactorInv
  <1> QED
    BY <1>1, ReactorInductive, PTL

\* Whatever the broker redelivers, whenever: within a serve call the handler gets
\* an event a second time only at the instant its nonce is forgotten, a full
\* skew after a date that was a full skew ahead.
THEOREM HandledOnce == ReactorSpec => HandledOnceButAtTheEdge
  <1>1. ReactorInv /\ [ReactorNext]_reactorVars =>
          [\A n \in Nonces :
              handled[n] # Never /\ spc = "verify" /\ spc' = "handling" /\ event.nonce = n =>
                  /\ event.received = handled[n] + 2 * FreshnessSkew
                  /\ sent[n].issued = handled[n] + FreshnessSkew]_reactorVars
    <2> SUFFICES ASSUME ReactorInv, ReactorNext, NEW n \in Nonces, handled[n] # Never,
                        spc = "verify", spc' = "handling", event.nonce = n
                 PROVE  /\ event.received = handled[n] + 2 * FreshnessSkew
                        /\ sent[n].issued = handled[n] + FreshnessSkew
      OBVIOUS
    <2>1. CallHandler
      BY DEF ReactorNext, ReactorTick, Publish, NextDelivery, RefuseAltered, RefuseStale,
             RefuseReplay, RefuseForeign, NoAnswer, Abandon, Reply, ServeAgain, Drop
    <2> QED
      BY <2>1, RememberFacts DEF CallHandler
  <1> QED
    BY <1>1, ReactorInductive, PTL DEF ReactorSpec, HandledOnceButAtTheEdge

\* An altered copy, however early, never makes the genuine event a replay.
THEOREM AlterationSilencesNothing == ReactorSpec => []ReplayNeedsAnOriginal
  <1>1. ReactorInv => ReplayNeedsAnOriginal
    BY DEF ReactorInv, EventInHand, ReplayNeedsAnOriginal
  <1> QED
    BY <1>1, ReactorInductive, PTL

\* However long the handler takes, a reply goes out less than a second past the
\* window, or not at all.
THEOREM RepliesInTime == ReactorSpec => []RepliesLessThanASecondLate
  <1>1. ReactorInv => RepliesLessThanASecondLate
    BY DEF ReactorInv
  <1> QED
    BY <1>1, ReactorInductive, PTL
=============================================================================
