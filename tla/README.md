# A TLA+ model of the AXIAM C++ SDK

The SDK (`src/src`, `src/include/axiam`) is a C++17 client of the AXIAM
identity service. It logs in, refreshes its session, asks for access decisions
and caches them, verifies tokens, drives OAuth and CIBA grants, receives
security events and manages tenants. One `Client` is used by any number of
threads, and almost everything difficult about it is in what those threads, the
server and the network do to each other. This directory models those parts in
TLA+, checks them with TLC and proves the most important of them with TLAPS.

`PROJECT.json` lists the components, the runs, the source lines each definition
stands for, the hazards, the disagreements found and the theorems.

## 1. Inventory

### The components

| Component | State | Operations | What makes it correct |
|---|---|---|---|
| **Refresh guard** `refresh_guard.hpp`, `do_single_flight_refresh`, `perform_refresh` in `client_impl.hpp` | `inflight_` (a shared future), `generation_`, `mtx_`; `refresh_count`; the refresh token in the cookie jar | `run` by any caller whose request met a 401 or who calls `refresh()` | A refresh token is single-use, so at most one refresh is on the wire; whoever finds no refresh running finds the rotated token in the jar; a waiter is always woken |
| **Access check** `Client::check_access`, `Impl::execute_retrying` | locals of a call; the session flag; `acting_tenant_id` | check, retry up to three times, refresh once on a 401, store the decision | Requests are bounded; a decision is returned only to the principal and tenant it was taken for |
| **Decision memo** `decision_memo.hpp` | `entries_`, `order_`, time to live | `get`, `put`, `clear`, each under `mtx_` | Bounded, ordered, never older than the time to live or the ceiling; emptied when the credentials change |
| **HTTP transport** `http_curl.cpp` | two pools of libcurl handles with their mutexes and condition variables, the shared cookie jar, `cookie_lock` | `perform`, `perform_isolated`, cookie merge, reads of the jar | A handle is never lost and never driven by two threads; libcurl's cookie list is not walked while it changes; session cookies stay off `/oauth2/`; a write is not repeated by a dead connection |
| **Client session** `client.cpp`, `client_impl.hpp` | session, tenant, principal, device credential, CSRF token, closed flag | login, MFA, logout, device authentication, SSO completion, `acting_tenant`, enrolment, `close` | A request runs as the principal of the last session operation; nothing of a previous session survives into the next; no use after close |
| **JWKS verifier** `jwks.cpp` | `keys_`, `have_keys_`, `fetched_at_`, re-fetch cooldown, `mtx_` held across the request | verify, `refresh_keys` | A withdrawn key is forgotten in time, a rotated one found at once, and a key nobody has does not cause a request per token |
| **Revocation feed** `revocation.cpp` | the revoked set, last attempt, `mtx_`, `fetch_mtx_` | `is_revoked`, `refresh` | A revocation is heard within an interval and is not forgotten because a poll failed |
| **Token authenticator, guards** `authenticator.cpp`, `guard.hpp` | none beyond the two caches | `authenticate`, `require_*` | Claims checked in full after the signature; errors refuse |
| **OIDC relying party** `oidc.cpp` | discovery cache, single flights keyed by refresh token | authorization code with PKCE, ID-token checks, refresh, SSO, PAR, token exchange, registration | No refresh token used twice by racing callers, no ID token accepted with a check left out |
| **Polling grants** `device_login`, `ciba_await` in `oidc.cpp`, `retry.hpp` | locals of the loop: interval, floor, deadline, attempt | poll, retry inside a poll, slow down, stop | Nothing sent past the deadline or ahead of the server's pace; an approved grant is not lost to a server restart |
| **SSF receiver** `ssf.cpp` | keys with one limited fetch a minute and their lock, a replay store | verify, push, `poll` batches | Each event handed out once, none acknowledged and lost, a failed refetch aside; an outage is one fetch a minute |
| **Reactor** `reactor.cpp` | seen nonces, the event in hand, the handler's window | verify, serve | An event is handled once, a replay refused, an altered copy harmless, late work abandoned |
| **Manifest** `management_manifest.cpp` | the report; the tenant at the server | `plan`, `apply` | An apply that fails halfway can be repeated and ends where the manifest says; what it leaves behind is reported |
| **Management transport** `management_transport.cpp`, `management_helpers.cpp` | none of its own; the client's credential | one send loop; four `to_input` conversions | A write is sent once; a request carries a credential; a replacement resets nothing, and reverts nothing where a version guards it |
| **Generated management operations** `management_ops.cpp`, `management_models.cpp` | none | 202 operations over some 300 bodies | `from_json` and `to_json` of each body agree; a value a later server added is read and not sent |
| **Account, OPAQUE, WebAuthn, webhook, MCP/UMA, JOSE** | foreign handles; none | ceremonies, checks, encodings | Consume-once handles; pure checks |

### How they interact

* Every request goes through the transport; the cookie jar that carries the
  session and refresh token is the transport's, shared by all threads.
* A 401 sends an access check into the refresh guard; the owner's
  `perform_refresh` is a request like any other, and the transport puts the
  rotated cookies in the jar before the guard publishes the outcome.
* `login`, `logout`, a refresh and the other credential changes clear the
  decision memo, while checks of other threads are between their request and
  their `put`.
* A device credential takes the place of the jar: a request with a bearer
  carries no session cookie. Every session operation says which of the two is
  presented from then on.
* `authenticate()` consults the JWKS cache and then the revocation feed. Both
  hold a mutex across a network request on purpose.
* The polling grants use the sessionless half of the transport and the retry
  policy of `retry.hpp`, under a deadline of their own.
* Receivers of one process share a key cache and a replay store; a reactor has
  a seen-set per serve call.
* A manifest is read and written through the management operations, each one
  call of the management transport, over the generated codec.

### What is hard

Concurrency: callers of one guard, threads in one pool, verifiers behind one
mutex, a check racing a login, receivers racing on one event, administrators
editing one row. Failure: an answer lost after the server acted, a keep-alive
connection found dead, a fetch that brings nothing, a store that fails in the
middle of a batch, an apply that stops halfway. Ordering: publish before
vacate, install before publish, store after clear, verify before remembering.
Time: caches counted from the request or from the answer, sleeps that overrun a
deadline, a nonce forgotten at the very second its event is still fresh. The
hazards are listed one by one, at their lines, in `PROJECT.json`.

## 2. Modules

| Module | Models | Composition |
|---|---|---|
| `SingleFlight` | what the refresh guard promises: numbered flights, one in the air, a result for everyone aboard | abstract specification |
| `RefreshGuard` | the guard, its wire call, the single-use token and the server that rotates it | implements `SingleFlight` (`INSTANCE ... WITH`); in `MCFlights` |
| `SteadyClock` | the clock the caches read | extended by the caches |
| `JwksCache`, `RevocationFeed` | the verifier's key cache; the feed's cache | with `HandlePool` in `MCShared` |
| `DecisionMemo` | the memo: lookup, store, eviction, expiry, clearing | extended by `AccessCheck` |
| `AccessCheck` | a check with its retries and refresh, over the memo, racing a credential change | |
| `HandlePool` | both handle pools, condition variables, the cookie walk, routing, reuse of dead connections, merging of cookies | |
| `ClientSession` | whose credential a client presents, through login, SSO, device, logout, refresh, enrolment and close | in `MCReceivers` |
| `OidcRefresh` | `oidc_refresh`'s flights keyed by refresh token | in `MCFlights` |
| `GrantPolling` | `device_login` and `ciba_await` | in `MCFlights` |
| `SsfReceiver` | polls, verification, the key cache and its lock, the replay store | with `Reactor` in `MCReceivers` |
| `Reactor` | `reactor_serve` and `reactor_verify_event` | |
| `Manifest` | `plan` and `apply` over the nine kinds | extended by `MCManagement` |
| `ManagementEnums`, `ManagementBodies` | the enumerations, and what each body's `from_json` reads | extended by the operations, the codec and the edits |
| `ManagementTypes` | the members of each C++ structure, and what its `to_json` writes | `INSTANCE`d by `ManagementCodec` |
| `ManagementAccessOps`, `ManagementOps` | each operation's method, scope, body and answer | extended by `ManagementTransport` |
| `ManagementCodec` | `from_json` and `to_json` | in `MCManagement` |
| `ManagementEdits` | the read, `to_input`, edit and write of four replaced configurations | in `MCManagement` |
| `ManagementTransport` | one management call | in `MCManagement` |

Eight modules ending in `Proofs` hold the theorems: `GuardsProofs` of
`RefreshGuard`, `JwksCache` and `RevocationFeed`, `SessionProofs` of
`ClientSession` and `OidcRefresh`, `ReceiversProofs` of `SsfReceiver` and
`Reactor`, `ManagementProofs` of `ManagementTransport` and `ManagementEdits`,
the others of the module they are named after. The `MC` modules hold values a
`.cfg` cannot write and put components that do not meet side by side: their variable `part` says which one a behaviour
exercises, the others keep their initial state. The states of such a run are
the sum, not the product, of its parts'.

### RefreshGuard

One step is one section under `mtx_`, one atomic operation, one promise
operation or one leg of the wire call. `slot` is `inflight_`, named by the
generation whose future it holds; `Live` is `live_locked()`. `Own`, `Join`,
`Publish`, `Vacate` and `Wake` are the parts of `run` and of `OwnerScope`. The
refresh token is a number in the jar: the server takes token *n* once and
answers with *n + 1*, the answer arrives or is lost, and `InstallCookies` is
the transport writing the jar. `lost` and `replayed` are history: which
rotations the client never heard of, which spent tokens the server was shown.

### DecisionMemo and AccessCheck

`entries` is the map and `order` the deque of keys, which the code updates in
turn: a key is erased from both, an eviction takes the front of the one out of
the other. A decision carries what
the properties tell apart: whose session and which acting tenant the server
answered it under, and whether its check was under way while either changed.
`AccessCheck` follows `check_access` from the key it builds, through the lookup,
the request built from the *current* jar and tenant, the answers of
`execute_retrying`, to the `put`. A change of credentials takes two steps, as in
the code: the jar changes with the answer, the memo is cleared after it (and, in `login`,
before the request too).

### HandlePool

`acquire` has the code's three outcomes: take an idle handle, create one below
the cap, park on the condition variable (with spurious wake-ups and
`notify_one`). A request that must not touch the session goes to the second
pool, which has no share and a jar that is discarded. Holding the cookie lock
from the pre-request callback to the first byte is modelled with the points at
which libcurl reads and releases its list. A connection kept alive may be dead,
and then libcurl sends again unless the write was marked unrepeatable.

### JwksCache and RevocationFeed

A tick is the unit of the clock. A fetch reads the issuer's document at one
moment and delivers it later, or delivers nothing, or delivers something
unreadable. In `JwksCache` the mutex is held from the staleness check to the
verdict; in `RevocationFeed` the two mutexes have the code's order, so a guard
that decided to poll may poll after another already has.

### ClientSession

A principal stands for its tenant. A session operation is three steps: the call
(`ensure_open`, `build_request`), the exchange (where the jar changes, inside
the transport) and the section of `state_mtx` that applies the answer; another
thread's step may fall between any two. A request is built with the bearer of
the moment and completed with the jar of a later one; a 401 reads
`have_session` under the lock and builds the refresh outside it. `crossed` says
that a session operation ran beside a call, `tangled` that two writers of the
jar overlapped: the properties promise nothing then, because the code does not.
A login is one exchange: the MFA and OPAQUE round trips before its answer leave
no state in the client. An answer may be a 2xx with a body the client rejects,
after the transport has stored its cookies: `SignInRejected` sets `torn`, the
jar is then one principal's and the login result another's until the next
completed operation, and the properties say what holds meanwhile.
`ExplicitRefresh` is `refresh()` or `refresh_async()`, which ask for no session
and send whatever is held, a device's bearer included.

### OidcRefresh

`flights` is `oidc_refresh_flights`. A leader unlinks its flight and publishes
in one section; followers hear the outcome whatever scope they asked for. The
server spends a token at the grant; a failed grant may have spent it or not.

### GrantPolling

A tick is five seconds. `grant` says which of the two loops runs; they differ in
where the deadline counts from, in what a 429 means and in which answers end the
call. `Deadline`, `Wait`, `GiveUp`, `SleepInterval`, `Send` and `Overslept` are
the loop; the `Answers...` actions are the answers it dispatches on;
`RetryLater`, `RetryTooLate` and `BudgetSpent` the retry inside a poll. The
server's side of the grant (`atServer`) is decided by a person at any time and is
spent by an answer, delivered or not. `asked`, `asked`, `slowdowns`, `shown`, `due`,
`wished` and `heed` are history: `wished` is the time the last Retry-After asked
for, and `heed` whether the code reads it. It does not read that of CIBA's
`rate_limit_exceeded`, nor that of the failure that spends the retry budget. Turning retries off is the round in which the budget is already
spent. The clock a caller may inject into `ciba_await` is taken to be the one
its sleeps advance.

### SsfReceiver and Reactor

A receiver is at a poll, a push, or one of the verification steps of the SET in
its hand; `events` are those a batch has accepted. The transmitter drops a SET
when a poll answers the one before, so what a receiver holds is all there is of
it. `key_for` is `Limited`, `Cold`, `Fill`, `Refetch` and their outcomes,
under the lock it keeps across a fetch. `unsettled` is history: the SETs refused
for a key that a refetch had just failed to bring. The replay store is asked under the
same call and may fail; the rest of that batch is returned unjudged.

In `Reactor` the runtime's clock counts whole seconds and `wall` is finer, so
that what a truncated clock cannot see is visible. The broker may deliver any
published event again, late, altered, or from a clock that is off by the skew.
`ServeAgain` is a new serve call, with a seen-set of its own.

### Manifest

`rows` and `bindings` are the tenant. `plan` reads a page per kind and lists the
changes in the order of `ordered`, which is stated as the one permutation of the
entities that is sorted; `apply` performs them one write at a time, and `at` is
the index of the next one that `pending()` keeps.
Every write can be done, refused, or done with its answer lost, and a failed
apply is run again. A binding in the wrong shape is unassigned and assigned, and
restored when the second step fails; `accused` is what the report names. A plan is
refused when an update would have to carry an enumeration value that the SDK
does not know (`CarriesUnknown`). Of an
entity's data two members are kept, one that every kind has a form of and one
that only the network kinds have; drift is their difference. The hops that
`validate` and `depth_of` make from a resource to the one it is declared under
are sets of keys here (`Parent`, `Lineage`): a declaration has a cycle when a
resource is in its own lineage, and the depth is the size of the lineage.

### The management API

The generated files are tables in the code (one structure, one decoder, one
encoder, one operation after another), and they are tables here. There are two
of the bodies, translated from different functions: `ManagementBodies` from each
`from_json` (what must be there, what may be absent or null, what has a default,
what is kept as JSON text, which values of an enumeration, or of the elements of
a list of one, the SDK knows) and `ManagementTypes` from each structure and its
`to_json` (which members are always written, which when set, which not when the
list is empty). `ManagementCodec` decodes by the one and encodes by the other, so
that a body whose two functions disagree is seen. A body inside another is
checked as a body of its own. A union whose variants the SDK knows refuses to
send another and drops a secret that a server put in it; one that it forwards
(`OpenUnion`: a provider's configuration, the outcome of a metadata refresh) is
written back as it came, new variants included, and as `{}` when its text does
not parse.

`ManagementEdits` has the read, the input and the write of the four replaced
configurations; the caller changes one member of the input, or edits a stream by
`to_input(changes)`, may name the requested events, and may drop the version.
`landed` keeps, of the last write, the row it was made from and the row it
replaced. `ManagementTransport` takes a call's attempts from its operation's
method.

## 3. Runs

| Run | What it asks | Bounds |
|---|---|---|
| `flights` | one refresh on the wire, no token replayed by the client's own doing, rotated before vacated, the abstract single flight implemented, every call returns; racing OIDC callers present no spent token; the polling schedule; every grant call ends | refresh: three callers, three calls: an owner, a waiter, and one that arrives while the first vacates, which is the most the generation check tells apart. OIDC: three callers, one token (tokens do not interact), two scopes, four calls. Polling: lifetimes negative, too short for a second poll, and nine ticks; intervals negative, absent, one and two; hints of none and two; three sends a poll; one tick of jitter and of lag. Callers that have not called yet are interchangeable, so the run lets them start in one order |
| `shared` | handles conserved, the cookie lists safe, sessionless exchanges apart, writes sent once, every request returns; a withdrawn key bounded, an unknown key's fetch excused; a known revocation holds, a new one is heard | pools: three threads and two handles per pool, so that one must wait; three requests, one of each kind that is routed or repeated differently; a libcurl with the cookie-list race. Keys: two threads, two keys, one rotation, time to live two ticks, cooldown one, three ticks. Feed: two guards, one session, three checks, an interval of two (the requested one is below the floor). The keys are interchangeable, so the run fixes which is published first |
| `access_check` | the memo's map and queue stay in step, bounded, ordered and young; a wrong principal or tenant in it needs a race; requests bounded; every check returns | two checkers, two questions, three checks, a memo of two entries (so that the third answer evicts the oldest), a requested time to live above the ceiling, one change of credentials, one tick |
| `receivers` | each event handed out once, none lost but on a failed refetch, a removed key expires, one fetch a minute; an event handled once, a replay has an original, a reply in time; requests run as the last session, a 401 spends its session | SETs: two receivers, two events, two keys, a key lifetime of two ticks and a fetch limit of one, three polls, one key change, one failure. Reactor: one event, a skew of one second, two ticks to the second, windows of none, one and two ticks, four deliveries, eight ticks: enough for an event dated ahead to outlive its nonce. Session: two threads, two users and a device, three session operations, two requests, so that a login, a second one and a logout cross a request and its refresh. Symmetric in receivers, events and keys |
| `management` | a complete apply has converged, a subject left wider is reported, an undisturbed apply succeeds, secrets are reported, unstated members survive; calls are safe; bodies survive the trip; edits are confined and narrowings hold | seven tenants with their manifests (a narrowed account, a group with another role, two network segments, a profile that carries a newer value, a key shared by two kinds, two accounts of one name), four applies, three faults, two edits by somebody else; two threads and two calls; every body, in every variation of one member; two administrators, two event types, three writes. Symmetric in threads, administrators and event types |
| `refresh_role` (violation) | `RefreshEvent` has one leader per flight | the refresh part of `flights` |
| `revocation_burst` (violation) | guards that find the set stale together cause one fetch | the feed part of `shared` |
| `memo_principal` (violation) | after a login the memo holds no decision of the previous principal | as `access_check` |
| `session_tenant` (violation) | an enrolment of one's own password names one's own tenant | the session part of `receivers` |
| `key_outage` (violation) | an event whose key a failed fetch did not bring is not lost | the first part of `receivers` |
| `manifest_order` (violation) | dependencies are performed first | the manifest whose keys are shared |
| `manifest_page` (violation) | a complete apply has converged, past the first page | a page of one object |

Bounds named in the modules (`MaxCalls`, `MaxChecks`, `MaxChanges`,
`MaxRequests`, `MaxSessions`, `MaxNow`, `MaxRotations`, `MaxPolls`, `MaxRuns`,
`MaxDeliveries` and their like) only stop callers from starting more work, the
environment from failing once more, or the clock from ticking: nothing already
begun is cut short by them. In `shared` and `access_check` the
models stop in a named stuttering step, so that deadlock is checked: a state in
which somebody is inside an operation and nobody can move is an error.
`flights`, `receivers` and `management` say `CHECK_DEADLOCK FALSE`: their calls
and their clocks are bounded and end in states where nobody has more to ask.
That no call hangs there is what `EveryCallReturns` and `EveryGrantCallEnds`
say of the refresh and polling calls.

Each property is paired with a mutation of the model, the slip that would break
it (the operators whose comment begins with "Mutant" or "A slip"): the property
is violated when the mutated definition takes the place of the faithful one.

### Fairness

Every liveness property assumes weak fairness of the steps of a thread that is
inside an operation, and nothing of those that start one, change credentials,
rotate keys, revoke, approve or advance the caches' clock. The code justifies
it: threads are scheduled, the sections under a mutex are short or end with a
request, and every request ends because the transport sets a total timeout.
Mutexes and condition variables are not assumed fair. `EveryRequestReturns`
therefore holds because the requests in a behaviour are bounded; under endless
competition a parked thread may be overtaken for ever, in the code too. It is
checked for one thread, all of them being alike. The polling loop needs
fairness of its own steps only: its sleeps end, and its interval is never nought.
`RevocationHeard` is an action property and needs none. The receivers and the
management parts state safety only: a poll is a call of the application's, and
an apply that fails is run again by a person.

### Disagreements with what the code says of itself

* `refresh_role`: `do_single_flight_refresh` reads `refresh_count` before it
  enters the guard. A caller that read it before the owner counted its wire
  call and then rode along reports itself the leader of the refresh.
* `memo_principal`: a decision is stored whenever its request returns. A check
  that was under way during a login stores the previous principal's decision
  after the login has cleared the memo, and the next check reads it. The
  passing run states what does hold: such an entry needs a check and a change
  under way together, and lives no longer than the time to live.
* `revocation_burst`: `refresh` does not look again whether the set is stale
  once it has `fetch_mtx_`, so guards queued behind a poll poll again in turn.
* `session_tenant`: `principal_tenant_id` is set by a login that reports a
  tenant and by nothing else, so after an SSO completion, a device
  authentication or a login without a user the enrolment names the previous
  principal's tenant.
* `manifest_order`: `depth_of` looks a parent up by key whatever its kind, and
  stops counting when it finds another kind. A manifest whose role and parent
  resource share a key is accepted and then fails as internally disordered.
* `key_outage`: the minute that a fetch opens postpones a SET when the cache is
  cold, and refuses it when the cache is warm, the fetch having failed or not.
  The verdict is acknowledged and the transmitter drops the event, where
  `include/axiam/ssf.hpp:252` announces an error that is retried. `NoEventLost`
  states what does hold: nothing else loses one.
* `manifest_page`: `read_existing` reads one page per kind. An object past it is
  planned as a creation at every run, and the report is complete.

Observations no run is spent on:

* `jwks.cpp:131`: the forced re-fetch clears `have_keys_` before a request that
  may fail, and while it is false every verification fetches, cooldown or not.
  `UnknownKidExcused` states what holds: such a fetch follows a failed one.
* `device_login` counts `expires_in` from the return of `display()` and of
  discovery, so it may poll for that much longer than the response allowed:
  `NoRequestPastDeadline` states the deadline as the code has it. And an answer
  that is not OAuth at all ends `ciba_await` and not `device_login`, because of
  the `NetworkError` both map it to: `AnswersOdd`.
* `ciba_await` waits its bare interval after `rate_limit_exceeded`
  (`oidc.cpp:2798`), and both loops do after a failure that spent the retry
  budget, whatever Retry-After that answer carried; `retry.hpp:50-56` calls a
  retry sooner than the hint not permitted, of the retry inside a poll.
  `PollsSpaced` excepts these two answers by name.
* A sign-in whose 2xx has a malformed body leaves the transport with the new
  cookies; `oidc.cpp:1463-1468` says that whatever the client held before is left
  untouched, which holds of its fields.
* `refresh()` on a client that presents a device sends the device's bearer, and
  without a session it is sent all the same: the check of a held session is in
  the 401 path only.
* An edit of a directory or of a service provider, which have no version,
  reverts what another administrator wrote since the read. A stream's caller who
  drops the version, or names the requested events, may widen what the receiver
  has narrowed: `NarrowingHolds` excepts these two.
* `management_manifest.cpp:800`: when the answer to an unassign is lost, the
  subject may be bare, and the next run assigns without the `tenant_scope` that
  was carried over before. `WideningIsReported` says that the report named it.
* `management_manifest.cpp` compares a metadata text that does not parse as
  never equal, and a resource's parent not at all.
* An empty `tenant_scope` is left out of the body, and the assignment reaches
  wherever the role does: the server, which refuses an empty one
  (`include/axiam/management_models.hpp:1653`), never sees it. The comment speaks
  of the server, and the tests ask for the omission.
* A logout that could not reach the server leaves the jar as it was: what it
  leaves is still presented (`ApplyLogout`).

## 4. What is proved

Every theorem holds for every value of the constants that the named ASSUMEs of
the modules allow:

* bounds and times are naturals, those a caller configures (`RequestedTtl`,
  `RequestedInterval`) any integers;
* the ceiling and the cap of the memo, the polling floor, the lifetime of the
  cached keys, the freshness skew and the clock's resolution are at least one,
  as those constants of the code are;
* a device is no user, and a name that stands for nobody (`"nobody"`,
  `"no thread"`, `"no guard"`, `"none"`, `NoKid`) is that of no device, thread,
  receiver, guard or key;
* a tenant is one the server can hold (`WorldAssumption`): it numbers its
  objects with naturals, across kinds (a profile is read under its segment's
  number); gives a name once in each kind but those of accounts and profiles,
  and has one policy; assigns a role to a subject once; and assigns roles to
  objects of its own only. `plan` relies on these rules when it matches by name,
  and `current_bindings` when it keys by role. Only the network kinds of a
  manifest state the member only they have.

| Module | Theorems |
|---|---|
| `GuardsProofs`, the refresh flight | `TypeCorrect`, `SingleRefreshOnTheWire`, `SpentTokenNotShownAgain`, `RotatedBeforeVacated`, `NoOrphanedWaiter`, `GuardImplementsSingleFlight` |
| `GuardsProofs`, the issuer's keys | `WithdrawnKeysExpire`, `RotationsArePickedUp` |
| `GuardsProofs`, the revoked sessions | `KnownRevocationsHold`, `RevocationsAreHeard` |
| `AccessCheckProofs` | `MemoStaysSound`, `OnlyRacesMisfile` |
| `HandlePoolProofs` | `HandlesAreConserved`, `SessionlessStaysApart`, `WritesAreSentOnce`, `CookieListsStaySafe` |
| `SessionProofs` | `RequestsRunAsTheLastSession`, `RefreshesSpendTheSession`, `NoRacerPresentsSpent` |
| `GrantPollingProofs` | `TypeCorrect`, `SilentPastDeadline`, `PaceKept`, `GrantKeptToTheEnd` |
| `ReceiversProofs`, the SETs | `ReceiverTypes`, `HandedOutOnce`, `NothingLost`, `RemovedKeysExpire`, `OneFetchAMinute` |
| `ReceiversProofs`, the reactor | `ReactorTypes`, `HandledOnce`, `AlterationSilencesNothing`, `RepliesInTime` |
| `ManifestProofs` | `UnstatedIsKept`, `SecretsReachTheReport`, `WideningIsNamed`, `CompleteApplyConverges`, `UndisturbedApplyEndsWell` |
| `ManagementProofs` | `ManagementCallsAreSafe`, `EditsAreConfined`, `ReceiversAreNeverWidened` |

None of the invariants is inductive as the runs state it. What each needs:

* **RefreshGuard.** `SlotInv` ties the slot to the generations: only the newest
  can be pending, it is in the slot while it is, and it has an owner still on
  the way to publishing it. From that follows that `Own` is enabled only when
  nobody else is unpublished. `TokenInv` says where the newest token can be: in
  the jar, on its way there with an owner, or lost. That the token in a request
  is the one in the jar needs one refresh at a time, which needs `SlotInv`;
  hence the invariant is their conjunction with `TypeOK`. The refinement maps
  every step to one of the abstract flight or to a stutter.
* **JwksCache.** `KeysLocked`: whoever is between the staleness check and the
  verdict holds `mtx_`. `KeysDated`: every cached key was published when the
  fetch that brought it began, so was each key of an answer on its way, and a
  cache its holder has looked at is younger than its time to live or comes from
  the holder's own fetch. So the age of what verifies is counted from before the
  request, and nothing is looked at twice. `SteadyKeysArrive`: a key that stays
  published is in every answer read meanwhile; what is left to refuse it is a
  cooldown or a fetch that brought nothing.
* **RevocationFeed.** `FeedLocked`: `fetch_mtx_` is held over the request and its
  answer, so an answer is taken in before the next one is asked for, and what
  was known before is in it. `ChkDated`: a check that relies on the set does so
  within an interval of the last attempt. `EntriesDated`: unless a poll has
  failed, nobody revoked before the newest poll began is missing from the set.
* **AccessCheck and DecisionMemo.** `Kept`: the queue holds the keys of the map,
  each once and in the order of age, and is within the cap. `Young`: an answer from the
  memo is not as old as configured, nor as the ceiling. `Fits`: a check under way
  that is not marked as raced carries the cookies in the jar and files under the
  tenant it asks about, and none is unmarked between the two ends of a change of
  credentials; `Fitting`: the same of a decision in the memo.
* **HandlePool.** `Counted` says, at each place of a request, how often it has been on
  the wire: a second time only when it may be repeated and the first went out on
  a kept connection that had died. `Routed` ties the pool a call waits at to
  its route, or to the merge that follows. `WaitersParked` says that whoever a
  condition variable can wake is parked there, and `WindowLocked` that on a
  libcurl with the race the cookie lock spans the list and the walk.
  `HandlesConserved` is inductive with those: a handle is idle or in one call's
  hand.
* **GrantPolling.** `Schedule`: the interval is the server's plus its
  slow_downs; a floor is pending only at the top of the loop; there the next
  wait ends exactly when the next request is due; after any sleep the request is
  due already; on the wire the clock is before the deadline, which is counted
  from `shown`. Both directions of the pace, never too soon and never given up
  too early, come from the one equation `due = now + Wait`.
* **ClientSession.** `Crossings`: a call beside a session operation is marked as
  crossed, however it came to be beside it; `OneWriter`: while nothing is
  tangled one thread at most writes the jar; `Known`: while no answer waits to
  be applied, the credential the client holds is one the last operation allows,
  an uncrossed request not yet sent has the client's own bearer, and a refresh
  under way carries the jar as it still is. A refresh then gives the jar back to
  the same principal, and an operation that ends leaves no uncrossed request
  behind.
* **OidcRefresh.** A leader's flight stays linked under its token, and two
  leaders never share a token: so nobody spends it between a leader's look and
  its grant.
* **SsfReceiver.** `Recorded`: the store knows exactly the events that were
  handed out or are in a hand; `Settled`: what a receiver owes was recorded or
  refused. A fetch is in the hands of the lock's holder, which is why an outage
  is one fetch an interval for all receivers together. `Ages`: a cached key was
  still published when the cache was dated, which is before its fetch; the
  answer a receiver is reading is newer than its call; and a key that verified
  was removed, if at all, less than a lifetime before.
* **Reactor.** `Memory`: an event the handler got was fresh then, and its nonce
  is remembered for two skews after, or has been forgotten because two skews
  have passed. Fresh again means at most two skews later; the two bounds meet in
  one instant, the exception the property names. The reply's second is the
  remainder of the truncated clock.
* **Manifest.** `Planned`: each change is of a declared entity, and the row it was
  planned from is the tenant's still or an older version of it. `Resolving`: what
  is behind in the plan, or needed no write, has an id, and that id is of an
  object with the entity's name; the order by rank then has every role resolved
  before the subjects that are bound to it. With those a full replacement carries
  the tenant's own values (`UnstatedIsKept`), for the version it is compared by
  is that of the row read. `SecretsKept`: what has arrived is what was reported
  before and what stands on the changes up to `at`. `BindInv`: while a subject is
  worked on, the bindings read are still the tenant's or were taken away, and
  what was taken away is in hand, back with its scope, or its subject is accused.
  The number of the next pending change is the least of a set of naturals, which
  exists because `<` on them is well founded.
  *A complete apply has converged* (`ConvergeInv`): `Matched` gives each planned
  entity one object, the one of the id `apply` goes by, or none yet, so no write
  makes a second object of a name; `Agreed`, that an object whose write is behind
  differs from its entity in no member; `BoundSoFar`, that the bindings of the
  subjects behind, and those of the present one up to `role`, are there in the
  declared shape; `HeldStill`, that what was read of the bindings still to come
  is true yet. A second plan would then find every entity unchanged. The theorem
  is of a tenant whose kinds fit on the page `read_existing` asks for
  (`PageHoldsAll`, without which `manifest_page` refutes it), and of a manifest
  with no name under two keys of a kind (`NamesTellApart`): `validate` sees to
  that for the network kinds only, and two roles of one name plan two writes of
  one object, so that each run undoes what the other entity's write did.
  *An undisturbed apply succeeds* (`SucceedInv`): `ReadsCurrent`, that what a
  write to come was planned from is what the tenant has, so no version is
  refused; `VersionsKnown`, that a profile's write names the version its segment
  was given by the write just before it; `ParentsFirst`, that a resource comes
  after the one it is declared under; `AllRead` and `Cleared`, that no role is
  assigned to a subject that still has it; `NewHoldsNone`, that a subject just
  created, for which nothing is read, has none. `ParentsFirst` rests on a lemma
  about `Depth` (`ParentsAreHigher`): in an acyclic declaration the lineage of a
  resource holds that of its parent and one more. That is an argument about
  cardinalities, which is why the model has lineages and no recursion. The
  theorem asks for `PageHoldsAll` (what is not read is created again, and the
  server refuses its name) and, in the property itself, for `NamesTellApart` and
  for `KeysTellApart`, without which the run `manifest_order` refutes the order
  that `ParentsFirst` states.
* **ManagementTransport.** A write on its way has not acted; a call on its way
  without a credential was starved of it.
* **ManagementEdits.** A copy whose version is the row's is the row; and, for
  each of the four forms, what `to_input` does not copy is a secret
  (`NothingForgotten`, computed from the tables of bodies).
  `EditsAreConfined` says of every form that a write resets nothing, and of those
  with a version that it reverts nothing if the version is kept; a directory's
  or a service provider's late write is not claimed to.

Proving changed the models in five places. A `CASE` whose arms overlap has no
definite value in TLA+ (TLC takes the first): the ends of a request in
`HandlePool` and of a call in `ManagementTransport` had such arms, which are now
disjoint. `erase_locked` of the memo removes the first place of a key in
the queue, where it filtered the queue before. `Manifest` sorted its entities with a recursive
operator of the library and filtered the plan into its pending part; it now
chooses the sorted permutation and steps over what needs no write. The depth of
a resource was a recursion over hops and is the size of a set of keys now. And
`Held`, what a converged tenant has of an entity, asked a policy for the name
its entity has, though a tenant's one policy is found without, and every entity
for roles, which `apply` gives to subjects only. In the run the names agree and
no other entity has roles; the proof met both.

Only model-checked:

* All liveness: fairness and `ENABLED` are beyond the prover.
* What the findings refute, on instances outside the hypotheses above.
* `BodiesSurviveTheTrip`: it compares two tables of some 160 concrete bodies, and
  is a computation over them, which TLC does in full for documents that depart
  from the plain one in one member. A theorem would be of the codec for tables
  already assumed to agree, which is what is in question.

Every other invariant and action property of the passing runs is stated by a
theorem.

## 5. Not modelled

* Components with status `not_modelled`. Account operations, OPAQUE and WebAuthn
  are sequential exchanges whose one effect on the client, a completed session,
  is `ClientSession`'s login. The webhook check, the MCP and UMA helpers, and
  the JOSE and encoding functions keep no state: each is a function of its
  arguments, with nothing for an interleaving or a failure to reach.
* Parts of `partly` components: TLS options and the text of headers and cookie
  lines; signature arithmetic; the discovery cache, PKCE, PAR, registration and
  token exchange of the relying party; the claim checks behind `authenticate()`;
  the CSRF token; the reactor's canonical form and broker address.
* Data: message bodies outside the management API, whose members are kept but
  whose values are one of a few.
* Telemetry events, except the role in a `RefreshEvent`.
* Arithmetic widths. The one place where they matter, the product
  `interval * 1000` in `device_login`, is listed as a hazard without a property.

## 6. What could come next

1. The sequential checks as operators against reference definitions: ID-token
   and access-token claims, the webhook's age and version, `Retry-After`.
2. The authorization-code flow with its state and nonce, and the discovery
   cache.
3. A tenant larger than a page, and names that two keys share, as hypotheses
   the code could discharge: `apply` reading every page, and `validate` refusing
   a name twice in every kind.
