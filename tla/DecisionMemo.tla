---------------------------- MODULE DecisionMemo ----------------------------
(***************************************************************************)
(* detail::DecisionMemo (src/src/decision_memo.hpp): a small cache of      *)
(* authorization decisions with a short time to live.  Each operation runs *)
(* under the memo's own mutex, so each is one step.                        *)
(*                                                                         *)
(* The memo is a map, entries_, and a queue of its keys, order_, the       *)
(* oldest in front.  Nothing but the operations keeps the two in step.     *)
(***************************************************************************)
EXTENDS Integers, Sequences, SequencesExt

CONSTANTS
    RequestedTtl,    \* decision_memo_ttl as the builder was given it
    MaxTtl,          \* kMemoMaxTtl
    MaxEntries       \* kMemoMaxEntries

ASSUME MemoAssumption ==
    /\ RequestedTtl \in Int
    /\ MaxTtl \in Nat \ {0}
    /\ MaxEntries \in Nat \ {0}

VARIABLES
    memo,     \* [entries: key -> [decision, storedAt], order: keys, oldest first]
    now       \* the steady clock the memo reads

\* The constructor clamps the configured time to live: 0 means disabled.
Ttl == IF RequestedTtl <= 0 THEN 0
       ELSE IF RequestedTtl < MaxTtl THEN RequestedTtl ELSE MaxTtl

Enabled == Ttl > 0

Without(entries, keys) == [k \in DOMAIN entries \ keys |-> entries[k]]

\* The first place of key k in a queue that holds it.
PlaceOf(order, k) ==
    CHOOSE i \in DOMAIN order : order[i] = k /\ \A j \in 1 .. (i - 1) : order[j] # k

\* Mutant: the entry leaves the map, and its key stays in the queue.
ErasedFromMap(m, k) == [m EXCEPT !.entries = Without(m.entries, {k})]

\* erase_locked: nothing when the map has no entry of k; else the entry leaves
\* the map and the first occurrence of its key, if there is one, the queue.
Erased(m, k) ==
    IF k \notin DOMAIN m.entries THEN m
    ELSE [entries |-> Without(m.entries, {k}),
          order |-> IF \E i \in DOMAIN m.order : m.order[i] = k
                    THEN RemoveAt(m.order, PlaceOf(m.order, k)) ELSE m.order]

\* get(): an entry as old as the time to live is no longer an answer.
Expired(e) == now - e.storedAt >= Ttl

Hit(k) == Enabled /\ k \in DOMAIN memo.entries /\ ~Expired(memo.entries[k])

Cached(k) == memo.entries[k]

\* What get(k) leaves behind when it answers nothing.
AfterMiss(k) == IF Enabled THEN Erased(memo, k) ELSE memo

\* The queue's front leaves until the cap holds, and with each key its entry.
Evicted(m) ==
    LET excess == Len(m.order) - MaxEntries
    IN  IF excess <= 0 THEN m
        ELSE [entries |-> Without(m.entries, {m.order[i] : i \in 1 .. excess}),
              order |-> SubSeq(m.order, excess + 1, Len(m.order))]

\* emplace and push_back: the map takes an entry of k only if it has none.
Added(m, k, e) ==
    [entries |-> [j \in DOMAIN m.entries \cup {k} |->
                     IF j \in DOMAIN m.entries THEN m.entries[j] ELSE e],
     order |-> Append(m.order, k)]

\* put(k, d): the key's old entry goes, the new one is the youngest, and the
\* oldest entries go until the cap holds.
AfterPut(k, d) ==
    IF Enabled
    THEN Evicted(Added(Erased(memo, k), k, [decision |-> d, storedAt |-> now]))
    ELSE memo

Cleared == [entries |-> <<>>, order |-> <<>>]

-----------------------------------------------------------------------------
\* §17.1 rule 8 and the agreement of the map with its eviction order, which a
\* chain of puts, expiries, evictions and clears must keep: the queue holds every
\* key of the map and no other, each once, never more than the cap, in the order
\* the entries were stored.
MemoWellFormed ==
    LET order == memo.order  entries == memo.entries IN
    /\ {order[i] : i \in DOMAIN order} = DOMAIN entries
    /\ Len(order) <= MaxEntries
    /\ \A i, j \in DOMAIN order :
          i < j => /\ order[i] # order[j]
                   /\ entries[order[i]].storedAt <= entries[order[j]].storedAt
    /\ \A k \in DOMAIN entries : entries[k].storedAt <= now
=============================================================================
