---------------------------- MODULE SsfReceiver ----------------------------
(***************************************************************************)
(* SsfReceiver (src/src/ssf.cpp): security event tokens (SETs) polled from *)
(* a transmitter, or pushed by it, and judged one by one against the       *)
(* transmitter's keys and a replay store.                                  *)
(*                                                                         *)
(* Copies of a receiver share one State: Receivers are the threads using   *)
(* it.  keys_mtx is held over a key fetch; the replay store is atomic.     *)
(* The application does what ssf.hpp asks of it: it acknowledges events    *)
(* and replays, reports refusals, and leaves unjudged SETs alone.  The     *)
(* clock counts minutes, so the replay window (seven days at least) never  *)
(* elapses here.                                                           *)
(***************************************************************************)
EXTENDS SteadyClock

CONSTANTS
    Receivers,
    Sets,             \* the jtis of the SETs
    SigningKeys,      \* kids the transmitter signs with
    FetchLimit,       \* the once-a-minute limit of step 4
    KeyCacheLifetime, \* kKeyCacheLifetime
    PollAttempts,     \* kRetryMaxAttempts
    MaxPolls,         \* bound: polls and pushes
    MaxKeyChanges,    \* bound: keys published or removed
    MaxFailures       \* bound: SETs gone wrong, failed fetches and store calls

ASSUME SsfAssumption ==
    /\ FetchLimit \in Nat /\ KeyCacheLifetime \in Nat \ {0} /\ PollAttempts \in Nat
    /\ "nobody" \notin Receivers /\ "none" \notin SigningKeys

VARIABLES
    published,   \* the keys the transmitter publishes now
    removedAt,   \* when each was last removed, -1 before
    sets,        \* the SETs written so far: their key, and a claim gone wrong
    offered,     \* the SETs the transmitter still holds
    keys,        \* keys
    haveKeys,    \* have_keys
    loadedAt,    \* loaded_at
    lastLimited, \* last_limited_fetch, NoTime while unset
    keysHolder,  \* the receiver holding keys_mtx
    seen,        \* the replay store
    rpc,         \* where each receiver is
    rcv,         \* the locals of poll, verify and key_for
    owed,        \* what each application acknowledges or reports next
    received,    \* the events applications were handed
    refused,     \* the SETs ever refused by a verdict other than replayed
    unsettled,   \* those refused for a key the fetch before had failed to bring
    fetched,     \* how the last key fetch ended, and when its call began
    tally        \* polls, key changes and failures so far

transmitter == <<published, removedAt, sets, offered>>
cache == <<keys, haveKeys, loadedAt, lastLimited>>
verdicts == <<owed, received, refused, unsettled>>
ssfVars == <<now, transmitter, cache, keysHolder, seen, rpc, rcv, verdicts, fetched, tally>>

NoTime == -1
Nobody == "nobody"
Unwritten == [kid |-> "none", flawed |-> FALSE]

\* todo: the rest of the batch; set: the one judged; at: the clock read under
\* keys_mtx; fill: the fetch fills an empty cache; attempt: poll attempts.
Idle == [todo |-> {}, set |-> Nobody, at |-> 0, doc |-> {}, fill |-> FALSE,
         events |-> {}, others |-> {}, storeFailed |-> FALSE, attempt |-> 1]

SsfInit ==
    /\ now = 0
    /\ published \in {{k} : k \in SigningKeys}
    /\ removedAt = [k \in SigningKeys |-> -1]
    /\ sets = [s \in Sets |-> Unwritten] /\ offered = {}
    /\ keys = {} /\ haveKeys = FALSE /\ loadedAt = 0 /\ lastLimited = NoTime
    /\ keysHolder = Nobody /\ seen = {}
    /\ rpc = [r \in Receivers |-> "idle"] /\ rcv = [r \in Receivers |-> Idle]
    /\ owed = [r \in Receivers |-> {}]
    /\ received = {} /\ refused = {} /\ unsettled = {}
    /\ fetched = [ok |-> TRUE, at |-> NoTime]
    /\ tally = [polls |-> 0, changes |-> 0, failures |-> 0]

Keep(r, local) == rcv' = [rcv EXCEPT ![r] = local]
Move(r, from, to) == rpc[r] = from /\ rpc' = [rpc EXCEPT ![r] = to]
Kid(r) == sets[rcv[r].set].kid

-----------------------------------------------------------------------------
(* The transmitter. *)

Fail == tally.failures < MaxFailures /\ tally' = [tally EXCEPT !.failures = @ + 1]

Write(s) ==
    /\ sets[s] = Unwritten
    /\ \E k \in published, flawed \in BOOLEAN :
          /\ sets' = [sets EXCEPT ![s] = [kid |-> k, flawed |-> flawed]]
          /\ IF flawed THEN Fail ELSE UNCHANGED tally
    /\ offered' = offered \cup {s}
    /\ UNCHANGED <<now, published, removedAt, cache, keysHolder, seen, rpc, rcv,
                   verdicts, fetched>>

ChangeKey(k) ==
    /\ tally.changes < MaxKeyChanges /\ tally' = [tally EXCEPT !.changes = @ + 1]
    /\ \/ k \notin published /\ published' = published \cup {k} /\ UNCHANGED removedAt
       \/ /\ k \in published /\ published' = published \ {k}
          /\ removedAt' = [removedAt EXCEPT ![k] = now]
    /\ UNCHANGED <<now, sets, offered, cache, keysHolder, seen, rpc, rcv, verdicts, fetched>>

-----------------------------------------------------------------------------
(* poll: one request, retried; then the batch, one SET after another. *)

Begin == tally.polls < MaxPolls /\ tally' = [tally EXCEPT !.polls = @ + 1]

Poll(r) ==
    /\ Begin /\ Move(r, "idle", "posted")
    /\ UNCHANGED <<now, transmitter, cache, keysHolder, seen, rcv, verdicts, fetched>>

\* verify_set on a pushed SET: a batch of one.
Push(r, s) ==
    /\ Begin /\ Move(r, "idle", "batch")
    /\ s \in offered
    /\ rcv' = [rcv EXCEPT ![r].todo = {s}]
    /\ UNCHANGED <<now, transmitter, cache, keysHolder, seen, verdicts, fetched>>

\* The transmitter drops what was acknowledged and answers what is left.
PollAnswered(r) ==
    /\ Move(r, "posted", "batch")
    /\ offered' = offered \ owed[r]
    /\ owed' = [owed EXCEPT ![r] = {}]
    /\ rcv' = [rcv EXCEPT ![r].todo = offered']
    /\ UNCHANGED <<published, removedAt, sets, cache, keysHolder, seen, received, refused,
                   unsettled, fetched>>

\* The request or its answer is lost: sent again, and given up after the last.
PollLost(r) ==
    /\ rpc[r] = "posted"
    /\ offered' \in {offered, offered \ owed[r]}
    /\ IF rcv[r].attempt < PollAttempts
       THEN rcv' = [rcv EXCEPT ![r].attempt = @ + 1] /\ UNCHANGED rpc
       ELSE rcv' = [rcv EXCEPT ![r] = Idle] /\ rpc' = [rpc EXCEPT ![r] = "idle"]
    /\ UNCHANGED <<published, removedAt, sets, cache, keysHolder, seen, verdicts, fetched>>

\* Steps 1 to 3 hold of every SET here; the order of the batch is any order.
Take(r, s) ==
    /\ Move(r, "batch", "key")
    /\ s \in rcv[r].todo
    /\ Keep(r, [rcv[r] EXCEPT !.set = s, !.todo = @ \ {s}])
    /\ UNCHANGED <<transmitter, cache, keysHolder, seen, verdicts, fetched>>

\* The batch is judged: events are handed over, and what is to be acknowledged
\* or reported is kept for the next poll.
PollReturns(r) ==
    /\ rcv[r].todo = {} /\ Move(r, "batch", "idle")
    /\ owed' = [owed EXCEPT ![r] = @ \cup rcv[r].events \cup rcv[r].others]
    /\ received' = received \cup rcv[r].events
    /\ rcv' = [rcv EXCEPT ![r] = Idle]
    /\ UNCHANGED <<transmitter, cache, keysHolder, seen, refused, unsettled, fetched>>

\* Neither a verdict nor a record: unjudged.
Unjudged(r) == rcv' = [rcv EXCEPT ![r].set = Nobody]

Report(r) == Keep(r, [rcv[r] EXCEPT !.others = @ \cup {rcv[r].set}, !.set = Nobody])

Refuse(r) ==
    /\ Report(r)
    /\ refused' = refused \cup {rcv[r].set} /\ UNCHANGED unsettled

-----------------------------------------------------------------------------
(* Step 4, key_for. *)

Limited == lastLimited # NoTime /\ now - lastLimited < FetchLimit

\* Mutant: the cached keys never expire.
EmptyOnly == ~haveKeys

\* The cache is empty, or older than its lifetime.
Cold == ~haveKeys \/ now - loadedAt >= KeyCacheLifetime

KeyKnown(r) ==
    /\ Move(r, "key", "claims")
    /\ keysHolder = Nobody /\ ~Cold /\ Kid(r) \in keys
    /\ rcv' = [rcv EXCEPT ![r].at = now]
    /\ UNCHANGED <<transmitter, cache, keysHolder, seen, verdicts, fetched>>

\* An unknown kid, with the refetch of this minute spent: a verdict, whether that
\* refetch brought the keys or failed.
KeyRefused(r) ==
    /\ Move(r, "key", "batch")
    /\ keysHolder = Nobody /\ ~Cold /\ Kid(r) \notin keys /\ Limited
    /\ Report(r)
    /\ IF fetched.ok THEN refused' = refused \cup {rcv[r].set} /\ UNCHANGED unsettled
       ELSE unsettled' = unsettled \cup {rcv[r].set} /\ UNCHANGED refused
    /\ UNCHANGED <<transmitter, cache, keysHolder, seen, owed, received, fetched>>

\* A cold cache inside the minute a failed fetch opened: no request, no verdict.
KeyUnavailable(r) ==
    /\ Move(r, "key", "batch")
    /\ keysHolder = Nobody /\ Cold /\ Limited
    /\ haveKeys' = FALSE /\ keys' = {}
    /\ Unjudged(r)
    /\ UNCHANGED <<transmitter, loadedAt, lastLimited, keysHolder, seen, verdicts, fetched>>

Refetch(r) ==
    /\ Move(r, "key", "fetch") /\ keysHolder' = r
    /\ keysHolder = Nobody /\ ~Cold /\ Kid(r) \notin keys /\ ~Limited
    /\ lastLimited' = now
    /\ Keep(r, [rcv[r] EXCEPT !.at = now, !.fill = FALSE])
    /\ UNCHANGED <<transmitter, keys, haveKeys, loadedAt, seen, verdicts, fetched>>

Fill(r) ==
    /\ Move(r, "key", "fetch") /\ keysHolder' = r
    /\ keysHolder = Nobody /\ Cold /\ ~Limited
    /\ haveKeys' = FALSE /\ keys' = {}
    /\ Keep(r, [rcv[r] EXCEPT !.at = now, !.fill = TRUE])
    /\ UNCHANGED <<transmitter, loadedAt, lastLimited, seen, verdicts, fetched>>

KeysRead(r) ==
    /\ Move(r, "fetch", "arriving")
    /\ rcv' = [rcv EXCEPT ![r].doc = published]
    /\ UNCHANGED <<transmitter, cache, keysHolder, seen, verdicts, fetched>>

LoadKeys(r) ==
    /\ keys' = rcv[r].doc /\ haveKeys' = TRUE /\ loadedAt' = rcv[r].at
    /\ fetched' = [ok |-> TRUE, at |-> rcv[r].at]

KeyFound(r) ==
    /\ Move(r, "arriving", "claims") /\ keysHolder' = Nobody
    /\ Kid(r) \in rcv[r].doc
    /\ LoadKeys(r)
    /\ rcv' = [rcv EXCEPT ![r].doc = {}]
    /\ UNCHANGED <<transmitter, lastLimited, seen, verdicts>>

\* A fill that lacks the kid leaves the one refetch available, and takes it.
FillThenRefetch(r) ==
    /\ Move(r, "arriving", "fetch")
    /\ Kid(r) \notin rcv[r].doc /\ rcv[r].fill
    /\ LoadKeys(r)
    /\ lastLimited' = rcv[r].at
    /\ Keep(r, [rcv[r] EXCEPT !.doc = {}, !.fill = FALSE])
    /\ UNCHANGED <<transmitter, keysHolder, seen, verdicts>>

KeyMissing(r) ==
    /\ Move(r, "arriving", "batch") /\ keysHolder' = Nobody
    /\ Kid(r) \notin rcv[r].doc /\ ~rcv[r].fill
    /\ LoadKeys(r)
    /\ Keep(r, [rcv[r] EXCEPT !.doc = {}, !.set = Nobody,
                                            !.others = @ \cup {rcv[r].set}])
    /\ refused' = refused \cup {rcv[r].set}
    /\ UNCHANGED <<transmitter, lastLimited, seen, owed, received, unsettled>>

\* Mutant: only the refetch counts toward the limit, a failed fill does not.
FillUncounted(r) == lastLimited

CountFailure(r) == IF rcv[r].fill THEN rcv[r].at ELSE lastLimited

\* Neither the discovery document nor the keys: the SET is no worse for it.
FetchFails(r) ==
    /\ Fail
    /\ rpc[r] \in {"fetch", "arriving"}
    /\ rpc' = [rpc EXCEPT ![r] = "batch"] /\ keysHolder' = Nobody
    /\ lastLimited' = CountFailure(r)
    /\ fetched' = [ok |-> FALSE, at |-> rcv[r].at]
    /\ Keep(r, [rcv[r] EXCEPT !.doc = {}, !.set = Nobody])
    /\ UNCHANGED <<now, transmitter, keys, haveKeys, loadedAt, seen, verdicts>>

-----------------------------------------------------------------------------
(* Steps 5 to 9. *)

ClaimsRefused(r) ==
    /\ Move(r, "claims", "batch")
    /\ sets[rcv[r].set].flawed
    /\ Refuse(r)
    /\ UNCHANGED <<transmitter, cache, keysHolder, seen, owed, received, fetched>>

\* The store failed earlier in this batch: it is not asked again.
StoreSpared(r) ==
    /\ Move(r, "claims", "batch")
    /\ ~sets[rcv[r].set].flawed /\ rcv[r].storeFailed
    /\ Unjudged(r)
    /\ UNCHANGED <<transmitter, cache, keysHolder, seen, verdicts, fetched>>

StoreAsked(r) == ~sets[rcv[r].set].flawed /\ ~rcv[r].storeFailed

\* Mutant: the receiver looks, and records only when the event is handed out.
RecordNothing(s) == s \notin seen /\ UNCHANGED seen

\* MemoryReplayStore::check_and_record, in one section of its mutex.
FirstSight(s) == s \notin seen /\ seen' = seen \cup {s}

Accept(r) ==
    /\ Move(r, "claims", "batch")
    /\ StoreAsked(r)
    /\ FirstSight(rcv[r].set)
    /\ Keep(r, [rcv[r] EXCEPT !.events = @ \cup {rcv[r].set}, !.set = Nobody])
    /\ UNCHANGED <<transmitter, cache, keysHolder, verdicts, fetched>>

Replayed(r) ==
    /\ Move(r, "claims", "batch")
    /\ StoreAsked(r)
    /\ rcv[r].set \in seen
    /\ Keep(r, [rcv[r] EXCEPT !.others = @ \cup {rcv[r].set}, !.set = Nobody])
    /\ UNCHANGED <<transmitter, cache, keysHolder, seen, verdicts, fetched>>

\* Mutant: a store that cannot answer reads as one that has seen the jti.
FailureReadsReplayed(r) ==
    Keep(r, [rcv[r] EXCEPT !.others = @ \cup {rcv[r].set}, !.set = Nobody,
                                        !.storeFailed = TRUE])

StoreFailed(r) == Keep(r, [rcv[r] EXCEPT !.set = Nobody, !.storeFailed = TRUE])

StoreFails(r) ==
    /\ Move(r, "claims", "batch")
    /\ StoreAsked(r)
    /\ Fail
    /\ StoreFailed(r)
    /\ UNCHANGED <<now, transmitter, cache, keysHolder, seen, verdicts, fetched>>

-----------------------------------------------------------------------------
Judge(r) ==
    \/ KeyKnown(r) \/ KeyRefused(r) \/ KeyUnavailable(r) \/ Refetch(r) \/ Fill(r)
    \/ KeysRead(r) \/ KeyFound(r) \/ FillThenRefetch(r) \/ KeyMissing(r)
    \/ ClaimsRefused(r) \/ StoreSpared(r) \/ Accept(r) \/ Replayed(r)

Work(r) ==
    \/ /\ Judge(r) \/ PollAnswered(r) \/ PollLost(r) \/ PollReturns(r)
          \/ \E s \in Sets : Take(r, s)
       /\ UNCHANGED <<now, tally>>
    \/ FetchFails(r) \/ StoreFails(r)

SsfTick ==
    /\ Tick
    /\ UNCHANGED <<transmitter, cache, keysHolder, seen, rpc, rcv, verdicts, fetched, tally>>

SsfNext ==
    \/ SsfTick
    \/ \E s \in Sets : Write(s) \/ \E r \in Receivers : Push(r, s)
    \/ \E k \in SigningKeys : ChangeKey(k)
    \/ \E r \in Receivers : Poll(r) \/ Work(r)

SsfSpec == SsfInit /\ [][SsfNext]_ssfVars

-----------------------------------------------------------------------------
Locals ==
    [todo : SUBSET Sets, set : Sets \cup {Nobody}, at : Int, doc : SUBSET SigningKeys,
     fill : BOOLEAN, events : SUBSET Sets, others : SUBSET Sets, storeFailed : BOOLEAN,
     attempt : Nat]

SsfTypeOK ==
    /\ published \subseteq SigningKeys /\ keys \subseteq SigningKeys
    /\ removedAt \in [SigningKeys -> Int]
    /\ sets \in [Sets -> [kid : SigningKeys \cup {"none"}, flawed : BOOLEAN]]
    /\ offered \subseteq Sets /\ seen \subseteq Sets
    /\ haveKeys \in BOOLEAN /\ loadedAt \in Int /\ lastLimited \in Int
    /\ keysHolder \in Receivers \cup {Nobody}
    /\ rpc \in [Receivers -> {"idle", "posted", "batch", "key", "fetch", "arriving",
                              "claims"}]
    /\ rcv \in [Receivers -> Locals]
    /\ owed \in [Receivers -> SUBSET Sets]
    /\ received \subseteq Sets /\ refused \subseteq Sets /\ unsettled \subseteq Sets

InHand == UNION {rcv[r].events : r \in Receivers}

\* §32.7 step 9: whichever receivers verify a SET together, in polls that
\* overlap or by a push beside a poll, its event reaches one application once.
EventReceivedOnce ==
    /\ received \cap InHand = {}
    /\ \A q, r \in Receivers : q # r => rcv[q].events \cap rcv[r].events = {}

\* The SETs of which the transmitter has more to say, an application was handed
\* the event, or a verdict settled the matter.
AccountedFor == offered \cup received \cup InHand \cup refused

\* §34.2 P1, "poll never keeps a jti it does not return": a SET the transmitter
\* dropped was handed to an application, or refused by a verdict.  Neither a
\* store that failed, nor another receiver's replay, loses one; nor does a fetch
\* that failed, but for the one case of key_for's warm cache (ssf.cpp:201), where
\* a kid it lacks is refused on the strength of a refetch that brought nothing.
NoEventLost ==
    \A s \in Sets : sets[s] # Unwritten => s \in AccountedFor \cup unsettled

\* ssf.hpp:252-256 as it stands: a failed fetch is no verdict, and a SET that
\* needed it is not lost to it.
OutageLosesNoEvent ==
    \A s \in Sets : sets[s] # Unwritten => s \in AccountedFor

\* §34.2 P6: a key the transmitter removed verifies no SET of a call that read
\* the clock a lifetime after the removal or later.
RemovedKeyExpires ==
    \A r \in Receivers :
        rpc[r] = "claims" /\ Kid(r) \notin published =>
            rcv[r].at - removedAt[Kid(r)] < KeyCacheLifetime

\* §34.2 P6, "a JWKS outage is not one fetch per SET": after a failed fetch no
\* request goes out before the minute has passed, by whichever receiver.
OutageIsOneFetchAMinute ==
    [][\A r \in Receivers :
          rpc[r] # "fetch" /\ rpc'[r] = "fetch" =>
              fetched.ok \/ now - fetched.at >= FetchLimit]_ssfVars

=============================================================================
