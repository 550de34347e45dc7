----------------------------- MODULE JwksCache -----------------------------
(***************************************************************************)
(* JwksVerifier (src/src/jwks.cpp): the issuer's signing keys, cached for  *)
(* CacheTtl, with one forced re-fetch per Cooldown for a key nobody knows. *)
(*                                                                         *)
(* A verification holds mtx_ from its staleness check to its verdict, the  *)
(* fetches included.  The issuer reads its keys some time before its       *)
(* answer arrives.  Signatures are genuine here: what is in question is    *)
(* which keys are honoured, and when.                                      *)
(***************************************************************************)
EXTENDS SteadyClock

CONSTANTS
    Threads,
    Kids,         \* key identifiers the issuer uses
    NoKid,        \* not a key identifier: refresh_keys() looks none up
    CacheTtl,     \* cache_ttl_
    Cooldown,     \* kOidcJwksRefetchCooldownSeconds
    MaxVerifications,     \* bound: verifications and refreshes
    MaxRotations  \* bound: keys published or withdrawn

ASSUME JwksAssumption ==
    /\ NoKid \notin Kids /\ CacheTtl \in Nat /\ Cooldown \in Nat
    /\ "no thread" \notin Threads

VARIABLES
    published,      \* the keys the issuer publishes now
    withdrawnAt,    \* when each key was last withdrawn
    keys,           \* keys_
    haveKeys,       \* have_keys_
    fetchedAt,      \* fetched_at_
    cooldownUntil,  \* refetch_cooldown_until_
    holder,         \* the thread holding mtx_
    vpc,            \* where each verification is
    ver,            \* its locals, and what the properties remember of it
    verifications,          \* calls made so far
    rotations       \* changes of the issuer's keys so far

issuerVars == <<published, withdrawnAt>>
bounds == <<verifications, rotations>>
cacheVars == <<keys, haveKeys, fetchedAt, cooldownUntil>>
jwksVars == <<now, issuerVars, cacheVars, holder, vpc, ver, verifications, rotations>>

NoThread == "no thread"

\* kid is looked up; at is the time ensure_keys_locked read; doc is the answer
\* on its way; again: the cooldown was opened here.  failed and steady serve
\* the properties: the last fetch brought no key set; kid stayed published.
NoVer == [kid |-> NoKid, at |-> 0, doc |-> {}, again |-> FALSE,
          failed |-> FALSE, steady |-> FALSE]

JwksInit ==
    /\ now = 0 /\ verifications = 0 /\ rotations = 0
    /\ published \in {{k} : k \in Kids}
    /\ withdrawnAt = [k \in Kids |-> -1]
    /\ keys = {} /\ haveKeys = FALSE /\ fetchedAt = 0 /\ cooldownUntil = 0
    /\ holder = NoThread
    /\ vpc = [t \in Threads |-> "idle"] /\ ver = [t \in Threads |-> NoVer]

Goto(t, from, to) == vpc[t] = from /\ vpc' = [vpc EXCEPT ![t] = to]

\* The issuer starts or stops publishing a key.
Rotate ==
    /\ rotations < MaxRotations /\ rotations' = rotations + 1
    /\ \E k \in Kids :
          \/ /\ k \notin published
             /\ published' = published \cup {k}
             /\ UNCHANGED <<withdrawnAt, ver>>
          \/ /\ k \in published
             /\ published' = published \ {k}
             /\ withdrawnAt' = [withdrawnAt EXCEPT ![k] = now]
             /\ ver' = [t \in Threads |-> [ver[t] EXCEPT !.steady = @ /\ ver[t].kid # k]]
    /\ UNCHANGED <<now, cacheVars, holder, vpc, verifications>>

\* verify_with_reason for a token whose header names k; refresh_keys for NoKid.
Verify(t, k) ==
    /\ verifications < MaxVerifications /\ verifications' = verifications + 1
    /\ Goto(t, "idle", "lock")
    /\ ver' = [ver EXCEPT ![t] = [NoVer EXCEPT !.kid = k, !.steady = k \in published]]
    /\ UNCHANGED <<now, issuerVars, cacheVars, holder, rotations>>

KeysFresh == haveKeys /\ now - fetchedAt < CacheTtl

\* ensure_keys_locked up to the request: the clock is read before it.
LockKeys(t) ==
    /\ holder = NoThread /\ holder' = t
    /\ ver[t].kid # NoKid
    /\ Goto(t, "lock", IF KeysFresh THEN "find" ELSE "fetch")
    /\ ver' = [ver EXCEPT ![t].at = now]
    /\ UNCHANGED <<issuerVars, cacheVars>>

\* refresh_keys(): whatever is cached is fetched again.
LockAndRefresh(t) ==
    /\ holder = NoThread /\ holder' = t
    /\ ver[t].kid = NoKid
    /\ Goto(t, "lock", "fetch")
    /\ haveKeys' = FALSE
    /\ ver' = [ver EXCEPT ![t].at = now]
    /\ UNCHANGED <<issuerVars, keys, fetchedAt, cooldownUntil>>

IssuerAnswers(t) ==
    /\ Goto(t, "fetch", "arriving")
    /\ ver' = [ver EXCEPT ![t].doc = published]
    /\ UNCHANGED <<issuerVars, cacheVars, holder>>

\* Mutant: the age of the keys counts from the answer's arrival.
LoadKeysLate(t, doc, when) ==
    /\ Goto(t, "arriving", "find")
    /\ keys' = doc /\ fetchedAt' = now /\ haveKeys' = TRUE
    /\ UNCHANGED <<issuerVars, cooldownUntil, holder>>

\* load_from_json and what ensure_keys_locked records of it.
LoadKeys(t, doc, when) ==
    /\ Goto(t, "arriving", "find")
    /\ keys' = doc /\ fetchedAt' = when /\ haveKeys' = TRUE
    /\ UNCHANGED <<issuerVars, cooldownUntil, holder>>

KeysArrive(t) ==
    /\ LoadKeys(t, ver[t].doc, ver[t].at)
    /\ ver' = [ver EXCEPT ![t].doc = {}, ![t].failed = FALSE]

\* 200 with a body that is no key set: the cached keys are gone.
KeysUnreadable(t) ==
    /\ LoadKeys(t, {}, ver[t].at)
    /\ ver' = [ver EXCEPT ![t].doc = {}, ![t].failed = TRUE]

\* Transport error or another status: the cached keys stay.
FetchFails(t) ==
    /\ vpc[t] \in {"fetch", "arriving"}
    /\ vpc' = [vpc EXCEPT ![t] = "find"]
    /\ ver' = [ver EXCEPT ![t].doc = {}, ![t].failed = TRUE]
    /\ UNCHANGED <<issuerVars, cacheVars, holder>>

Unlock(t, to) == Goto(t, "find", to) /\ holder' = NoThread

Known(t) == ver[t].kid \in keys

Verified(t) ==
    /\ Unlock(t, "verified")
    /\ Known(t)
    /\ UNCHANGED <<issuerVars, cacheVars, ver>>

\* Mutant: the cooldown opens, but the cached keys still count as fresh.
RefetchFromCache(t) ==
    /\ ~Known(t) /\ ver[t].kid # NoKid
    /\ ~ver[t].again /\ now >= cooldownUntil
    /\ Goto(t, "find", IF KeysFresh THEN "find" ELSE "fetch")
    /\ cooldownUntil' = now + Cooldown
    /\ ver' = [ver EXCEPT ![t].again = TRUE, ![t].at = now]
    /\ UNCHANGED <<issuerVars, keys, haveKeys, fetchedAt, holder>>

\* An unknown kid outside the cooldown opens it and fetches once more.
Refetch(t) ==
    /\ ~Known(t) /\ ver[t].kid # NoKid
    /\ ~ver[t].again /\ now >= cooldownUntil
    /\ Goto(t, "find", "fetch")
    /\ cooldownUntil' = now + Cooldown
    /\ haveKeys' = FALSE
    /\ ver' = [ver EXCEPT ![t].again = TRUE, ![t].at = now]
    /\ UNCHANGED <<issuerVars, keys, fetchedAt, holder>>

\* kUnknownKid; refresh_keys() ends here too.
UnknownKid(t) ==
    /\ Unlock(t, "refused")
    /\ ~Known(t)
    /\ ver[t].kid = NoKid \/ ver[t].again \/ now < cooldownUntil
    /\ UNCHANGED <<issuerVars, cacheVars, ver>>

\* The verdict is returned: a genuine signature, or unknown_kid.
ReturnVerdict(t) ==
    /\ vpc[t] \in {"verified", "refused"}
    /\ vpc' = [vpc EXCEPT ![t] = "idle"]
    /\ ver' = [ver EXCEPT ![t] = NoVer]
    /\ UNCHANGED <<issuerVars, cacheVars, holder>>

JwksSection(t) ==
    \/ LockKeys(t) \/ LockAndRefresh(t) \/ IssuerAnswers(t) \/ KeysArrive(t)
    \/ KeysUnreadable(t) \/ FetchFails(t)
    \/ Verified(t) \/ Refetch(t) \/ UnknownKid(t) \/ ReturnVerdict(t)

JwksStep(t) == JwksSection(t) /\ UNCHANGED <<now, bounds>>

JwksTime == Tick /\ UNCHANGED <<issuerVars, cacheVars, holder, vpc, ver, bounds>>

JwksDone ==
    /\ verifications = MaxVerifications /\ rotations = MaxRotations /\ now = MaxNow
    /\ \A t \in Threads : vpc[t] = "idle"
    /\ UNCHANGED jwksVars

JwksNext ==
    \/ JwksDone \/ JwksTime \/ Rotate
    \/ \E t \in Threads : JwksStep(t) \/ \E k \in Kids \cup {NoKid} : Verify(t, k)

JwksSpec == JwksInit /\ [][JwksNext]_jwksVars

-----------------------------------------------------------------------------
\* A key the issuer withdrew is honoured no longer than the cache's time to
\* live after the withdrawal, counted to the moment the verification checked
\* the cache, unless its own fetch brought no key set (ensure_keys_locked).
WithdrawnKeyBounded ==
    \A t \in Threads :
        vpc[t] = "verified" /\ ver[t].kid \notin published /\ ~ver[t].failed =>
            ver[t].at - withdrawnAt[ver[t].kid] <= CacheTtl

\* §12.4 rule 2: a key published all through a verification is unknown to it
\* only inside a cooldown another one opened, or after a fetch of its own that
\* brought no key set.  A rotation is picked up by the first token that needs it.
UnknownKidExcused ==
    \A t \in Threads :
        vpc[t] = "refused" /\ ver[t].steady =>
            ver[t].failed \/ ~ver[t].again

=============================================================================
