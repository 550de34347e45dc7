-------------------------- MODULE ManagementProofs --------------------------
(***************************************************************************)
(* A management call, for any threads and any number of calls: what is not *)
(* a read acts once, and no request goes bare that was checked to have a   *)
(* credential and kept it.  And editing what is replaced whole, for any    *)
(* administrators, event types and number of writes: an edit is confined   *)
(* to its member, and a stream's receiver is never widened.                *)
(***************************************************************************)
EXTENDS ManagementTransport, ManagementEdits, TLAPS

-----------------------------------------------------------------------------
(* Calls. *)

CallEnds == {"no id", "unsendable", "closed", "no session", "sending",
         "network error", "returned", "error"}

Underway == [pc : {"sending", "sent", "over"}, end : CallEnds, get : BOOLEAN, decoded : BOOLEAN,
             attempt : Nat, acted : Nat, bare : BOOLEAN, starved : BOOLEAN, without : BOOLEAN]

CallTypes == calls \in [Threads -> Underway \cup {Idle}]

\* What holds of a call that is not idle: a write on its way has not acted, and
\* only one that has lost its credential is on its way without.
Sound(c) ==
    /\ c.pc # "over" /\ ~c.get => c.attempt = 1 /\ c.acted = 0
    /\ ~c.get => c.acted <= 1
    /\ c.without => c.pc = "over"
    /\ c.bare => c.starved /\ ~c.without
    /\ c.end = "no session" => c.without

Fed(c, held) == c.pc # "over" /\ held = {} => c.starved

CallsInv ==
    /\ CallTypes
    /\ \A t \in Threads : calls[t] # Idle => Sound(calls[t]) /\ Fed(calls[t], credentials)

LEMMA UnderwayIsNotIdle == \A c \in Underway : c.pc # "idle" /\ c # Idle
  BY DEF Underway, Idle

LEMMA NotIdle ==
    ASSUME CallTypes, NEW t \in Threads, calls[t].pc # "idle"
    PROVE  calls[t] \in Underway /\ calls[t] # Idle
  BY DEF CallTypes, Idle

\* A step of one call that leaves the credentials alone.
LEMMA OneCall ==
    ASSUME CallsInv, NEW t \in Threads, NEW c, Set(t, c), credentials' = credentials,
           c = Idle \/ (c \in Underway /\ Sound(c) /\ Fed(c, credentials))
    PROVE  CallsInv'
  <1>1. /\ calls' \in [Threads -> Underway \cup {Idle}] /\ calls'[t] = c
        /\ \A u \in Threads : u # t => calls'[u] = calls[u]
    BY DEF CallsInv, CallTypes, Set
  <1>2. ASSUME NEW u \in Threads, calls'[u] # Idle
        PROVE  Sound(calls'[u]) /\ Fed(calls'[u], credentials')
    <2>1. CASE u = t
      BY <1>1, <1>2, <2>1
    <2>2. CASE u # t
      BY <1>1, <1>2, <2>2 DEF CallsInv
    <2> QED
      BY <2>1, <2>2
  <1> QED
    BY <1>1, <1>2 DEF CallsInv, CallTypes

LEMMA ZeroOne == 0 <= 1
  OBVIOUS

LEMMA KindFacts == \A k \in Kinds : k.get \in BOOLEAN /\ k.decoded \in BOOLEAN
  <1> SUFFICES ASSUME NEW op \in Operations
               PROVE  Kind(op).get \in BOOLEAN /\ Kind(op).decoded \in BOOLEAN
    BY DEF Kinds
  <1>1. Kind(op).get = (op.method = "GET") /\ Kind(op).decoded = (op.answer # Nothing)
    BY DEF Kind
  <1> QED
    BY <1>1

-----------------------------------------------------------------------------
\* Whatever the check before the first attempt finds: without a credential the
\* call is over.
LEMMA BeginStep ==
    ASSUME CallsInv, NEW t \in Threads, Begin(t)
    PROVE  CallsInv'
  <1>1. PICK k \in Kinds, unsendable \in BOOLEAN :
          LET end == IF ~(k.scope \subseteq known) THEN "no id"
                     ELSE IF k.body /\ unsendable THEN "unsendable"
                     ELSE IF ~open THEN "closed"
                     ELSE IF ~MayCall THEN "no session" ELSE "sending"
          IN  Set(t, [pc |-> IF end = "sending" THEN "sending" ELSE "over", end |-> end,
                      get |-> k.get, decoded |-> k.decoded, attempt |-> 1, acted |-> 0,
                      bare |-> FALSE, starved |-> FALSE, without |-> credentials = {}])
    BY DEF Begin
  <1>2. PICK end \in {"no id", "unsendable", "closed", "no session", "sending"} :
          /\ end \in {"no session", "sending"} =>
                end = IF credentials # {} THEN "sending" ELSE "no session"
          /\ Set(t, [pc |-> IF end = "sending" THEN "sending" ELSE "over", end |-> end,
                     get |-> k.get, decoded |-> k.decoded, attempt |-> 1, acted |-> 0,
                     bare |-> FALSE, starved |-> FALSE, without |-> credentials = {}])
    BY <1>1 DEF MayCall
  <1> DEFINE c == [pc |-> IF end = "sending" THEN "sending" ELSE "over", end |-> end,
                   get |-> k.get, decoded |-> k.decoded, attempt |-> 1, acted |-> 0,
                   bare |-> FALSE, starved |-> FALSE, without |-> credentials = {}]
  <1>3. (credentials = {}) \in BOOLEAN /\ k.get \in BOOLEAN /\ k.decoded \in BOOLEAN
    BY KindFacts
  <1>4. c \in Underway
    BY <1>3 DEF Underway, CallEnds
  <1>5. /\ c.pc = IF end = "sending" THEN "sending" ELSE "over"
        /\ c.end = end /\ c.attempt = 1 /\ c.acted = 0 /\ c.bare = FALSE
        /\ c.without = (credentials = {})
    OBVIOUS
  <1>6. Sound(c) /\ Fed(c, credentials)
    <2> HIDE DEF c
    <2>1. /\ c.pc # "over" => end = "sending" /\ credentials # {}
          /\ c.end = "no session" => credentials = {}
      BY <1>2, <1>5
    <2>2. c.without <=> credentials = {}
      BY <1>5
    <2>3. ~c.bare
      BY <1>5
    <2> QED
      BY <1>5, <2>1, <2>2, <2>3, ZeroOne DEF Sound, Fed
  <1>7. Set(t, c) /\ credentials' = credentials
    BY <1>2 DEF Begin
  <1> QED
    BY <1>4, <1>6, <1>7, OneCall

LEMMA SendStep ==
    ASSUME CallsInv, NEW t \in Threads, Send(t)
    PROVE  CallsInv'
  <1> DEFINE was == calls[t]
             c == [was EXCEPT !.pc = "sent", !.bare = @ \/ credentials = {}]
  <1>1. was \in Underway /\ was # Idle /\ was.pc = "sending"
    BY NotIdle DEF Send, CallsInv
  <1>2. Sound(was) /\ Fed(was, credentials)
    BY <1>1 DEF CallsInv
  <1> HIDE DEF was
  <1>3. (was.bare \/ credentials = {}) \in BOOLEAN
    OBVIOUS
  <1>4. c \in Underway
    BY <1>1, <1>3 DEF Underway
  <1>5. /\ c.pc = "sent" /\ c.bare = (was.bare \/ credentials = {})
        /\ c.get = was.get /\ c.attempt = was.attempt /\ c.acted = was.acted
        /\ c.end = was.end /\ c.starved = was.starved /\ c.without = was.without
    BY <1>1 DEF Underway
  <1>6. Sound(c) /\ Fed(c, credentials)
    <2>1. Sound(c)
      BY <1>1, <1>2, <1>5 DEF Sound, Fed
    <2>2. Fed(c, credentials)
      BY <1>1, <1>2, <1>5 DEF Fed
    <2> QED
      BY <2>1, <2>2
  <1>7. Set(t, c) /\ credentials' = credentials
    BY DEF Send, was
  <1> QED
    BY <1>4, <1>6, <1>7, OneCall

\* An attempt acts once at most, and a call that is not a read has only one.
LEMMA AnswerStep ==
    ASSUME CallsInv, NEW t \in Threads, Answer(t)
    PROVE  CallsInv'
  <1> DEFINE was == calls[t]
             answered(acted) == [was EXCEPT !.acted = @ + acted]
             retried(acted) == [answered(acted) EXCEPT !.pc = "sending",
                                                       !.attempt = answered(acted).attempt + 1]
             over(acted, end) == [answered(acted) EXCEPT !.pc = "over", !.end = end]
  <1>1. was \in Underway /\ was # Idle /\ was.pc = "sent"
    BY NotIdle DEF Answer, CallsInv
  <1>2. Sound(was) /\ Fed(was, credentials)
    BY <1>1 DEF CallsInv
  <1>3. PICK outcome : \E acted \in Acted(outcome) :
          IF Again(answered(acted), outcome) THEN Set(t, retried(acted))
          ELSE Set(t, over(acted, End(answered(acted), outcome)))
    BY DEF Answer
  <1>4. PICK acted \in Acted(outcome) :
          IF Again(answered(acted), outcome) THEN Set(t, retried(acted))
          ELSE Set(t, over(acted, End(answered(acted), outcome)))
    BY <1>3
  <1>5. acted \in {0, 1}
    BY <1>4 DEF Acted
  <1>6. End(answered(acted), outcome) \in CallEnds \ {"no session"}
    BY DEF End, CallEnds
  <1>7. credentials' = credentials
    BY DEF Answer
  <1> HIDE DEF was
  <1>8. was.acted \in Nat /\ was.attempt \in Nat
    BY <1>1 DEF Underway
  <1>9. was.acted + acted \in Nat
    BY <1>5, <1>8
  <1>10. /\ answered(acted) \in Underway
        /\ answered(acted).acted = was.acted + acted
        /\ answered(acted).pc = was.pc /\ answered(acted).get = was.get
        /\ answered(acted).attempt = was.attempt /\ answered(acted).end = was.end
        /\ answered(acted).bare = was.bare /\ answered(acted).starved = was.starved
        /\ answered(acted).without = was.without
    BY <1>1, <1>9 DEF Underway
  <1> HIDE DEF answered
  <1>11. CASE Again(answered(acted), outcome)
    <2>1. was.get
      <3> SUFFICES ASSUME ~was.get PROVE FALSE
        OBVIOUS
      <3>1. was.attempt = 1
        BY <1>1, <1>2 DEF Sound
      <3>2. ~answered(acted).get /\ answered(acted).attempt = 1
        BY <1>10, <3>1
      <3>3. Budget(answered(acted)) = 1
        BY <3>2 DEF Budget
      <3>4. answered(acted).attempt < Budget(answered(acted))
        BY <1>11 DEF Again
      <3> QED
        BY <3>2, <3>3, <3>4
    <2> DEFINE tries == answered(acted).attempt + 1
    <2>2. tries \in Nat
      BY <1>8, <1>10
    <2> HIDE DEF tries
    <2>3. /\ retried(acted) \in Underway /\ retried(acted).pc = "sending"
          /\ retried(acted).get = was.get /\ retried(acted).end = was.end
          /\ retried(acted).bare = was.bare /\ retried(acted).starved = was.starved
          /\ retried(acted).without = was.without
      <3>1. retried(acted) = [answered(acted) EXCEPT !.pc = "sending", !.attempt = tries]
        BY DEF tries
      <3> HIDE DEF retried
      <3>2. [answered(acted) EXCEPT !.pc = "sending", !.attempt = tries] \in Underway
        BY <1>10, <2>2 DEF Underway
      <3>3. retried(acted) \in Underway
        BY <3>1, <3>2
      <3> QED
        BY <1>10, <3>1, <3>3 DEF Underway
    <2> HIDE DEF retried
    <2>4. Sound(retried(acted)) /\ Fed(retried(acted), credentials)
      BY <1>1, <1>2, <2>1, <2>3 DEF Sound, Fed
    <2> QED
      BY <1>4, <1>7, <1>11, <2>3, <2>4, OneCall
  <1>12. CASE ~Again(answered(acted), outcome)
    <2> DEFINE c == over(acted, End(answered(acted), outcome))
    <2>1. /\ c \in Underway /\ c.pc = "over" /\ c.end # "no session"
          /\ c.acted = was.acted + acted /\ c.get = was.get
          /\ c.bare = was.bare /\ c.starved = was.starved /\ c.without = was.without
      <3> DEFINE end == End(answered(acted), outcome)
      <3>1. end \in CallEnds /\ end # "no session"
        BY <1>6
      <3> HIDE DEF end
      <3>2. c = [answered(acted) EXCEPT !.pc = "over", !.end = end]
        BY DEF end
      <3> HIDE DEF c, over
      <3>3. [answered(acted) EXCEPT !.pc = "over", !.end = end] \in Underway
        BY <1>10, <3>1 DEF Underway
      <3> QED
        BY <1>10, <3>1, <3>2, <3>3 DEF Underway
    <2>2. Set(t, c)
      BY <1>4, <1>12
    <2> HIDE DEF c
    <2>3. ~c.get => c.acted <= 1
      <3> SUFFICES ASSUME ~c.get PROVE c.acted <= 1
        OBVIOUS
      <3>1. was.acted = 0
        BY <1>1, <1>2, <2>1 DEF Sound
      <3>2. c.acted = 0 + acted
        BY <2>1, <3>1
      <3> QED
        BY <1>5, <3>2
    <2>4. Sound(c) /\ Fed(c, credentials)
      BY <1>1, <1>2, <2>1, <2>3 DEF Sound, Fed
    <2> QED
      BY <1>7, <2>1, <2>2, <2>4, OneCall
  <1> QED
    BY <1>11, <1>12

\* Who loses the credential finds every call under way starved of it.
LEMMA LoseStep ==
    ASSUME CallsInv, Lose
    PROVE  CallsInv'
  <1>1. calls' = [t \in Threads |-> IF calls[t] = Idle THEN Idle
                                   ELSE [calls[t] EXCEPT !.starved = TRUE]]
    BY DEF Lose
  <1>2. ASSUME NEW t \in Threads
        PROVE  /\ calls'[t] \in Underway \cup {Idle}
               /\ calls'[t] # Idle => Sound(calls'[t]) /\ Fed(calls'[t], credentials')
    <2> DEFINE was == calls[t]
               c == [was EXCEPT !.starved = TRUE]
    <2>1. CASE calls[t] = Idle
      BY <1>1, <2>1
    <2>2. CASE calls[t] # Idle
      <3>1. was \in Underway /\ Sound(was)
        BY <2>2 DEF CallsInv, CallTypes
      <3>2. calls'[t] = c
        BY <1>1, <2>2
      <3> HIDE DEF was
      <3>3. /\ c \in Underway /\ c.starved
            /\ c.pc = was.pc /\ c.get = was.get /\ c.attempt = was.attempt
            /\ c.acted = was.acted /\ c.end = was.end /\ c.bare = was.bare
            /\ c.without = was.without
        BY <3>1 DEF Underway
      <3> HIDE DEF c
      <3>4. Sound(c) /\ Fed(c, credentials')
        BY <3>1, <3>3 DEF Sound, Fed
      <3> QED
        BY <3>2, <3>3, <3>4
    <2> QED
      BY <2>1, <2>2
  <1>3. calls' \in [Threads -> Underway \cup {Idle}]
    <2>1. DOMAIN calls' = Threads /\ calls' = [t \in Threads |-> calls'[t]]
      BY <1>1
    <2> QED
      BY <1>2, <2>1
  <1> QED
    BY <1>2, <1>3 DEF CallsInv, CallTypes

\* Gaining a credential feeds whoever was hungry; the rest touches no call.
LEMMA GainStep ==
    ASSUME CallsInv, calls' = calls, credentials' = credentials \/ credentials' # {}
    PROVE  CallsInv'
  <1>1. \A t \in Threads : calls[t] # Idle =>
          Sound(calls[t]) /\ Fed(calls[t], credentials')
    BY DEF CallsInv, Fed
  <1> QED
    BY <1>1 DEF CallsInv, CallTypes

LEMMA InitCalls == TransportInit => CallsInv
  BY DEF TransportInit, CallsInv, CallTypes

LEMMA StepCalls == CallsInv /\ [TransportNext]_transportVars => CallsInv'
  <1> SUFFICES ASSUME CallsInv, [TransportNext]_transportVars PROVE CallsInv'
    OBVIOUS
  <1>1. CASE \E t \in Threads : Begin(t) \/ Send(t) \/ Answer(t) \/ Return(t)
    <2>1. PICK t \in Threads : Begin(t) \/ Send(t) \/ Answer(t) \/ Return(t)
      BY <1>1
    <2>2. CASE Return(t)
      <3>1. Set(t, Idle) /\ credentials' = credentials
        BY <2>2 DEF Return
      <3> QED
        BY <3>1, OneCall
    <2> QED
      BY <2>1, <2>2, BeginStep, SendStep, AnswerStep
  <1>2. CASE Gain
    <2>1. calls' = calls /\ (credentials' = credentials \/ credentials' # {})
      BY <1>2 DEF Gain
    <2> QED
      BY <2>1, GainStep
  <1>3. CASE Lose
    BY <1>3, LoseStep
  <1>4. CASE Shut \/ UNCHANGED transportVars
    <2>1. calls' = calls /\ credentials' = credentials
      BY <1>4 DEF Shut, transportVars
    <2> QED
      BY <2>1, GainStep
  <1> QED
    BY <1>1, <1>2, <1>3, <1>4 DEF TransportNext

-----------------------------------------------------------------------------
\* Whatever is lost, garbled or repeated, and whoever logs in and out meanwhile,
\* of any number of management calls: one that is not a read acts once at most,
\* and a request without a credential lost it on its way.
THEOREM ManagementCallsAreSafe == TransportSpec => []CallsAreSafe
  <1>1. CallsInv => CallsAreSafe
    BY DEF CallsInv, Sound, CallsAreSafe, WritesActOnce, OnlyTheStarvedGoBare
  <1> QED
    BY <1>1, InitCalls, StepCalls, PTL DEF TransportSpec

-----------------------------------------------------------------------------
(* Edits. *)

Forms == {"directory", "provider", "stream", "target"}

-----------------------------------------------------------------------------
(* to_input forgets no member that a replacement would put back to its default. *)

LEMMA StreamCopied == Stored("stream") \ Secrets("stream") \subseteq Copied("stream")
  <1>1. Members(SsfStreamInput) =
          {"audience", "delivery_method", "events_allowed", "receiver_client_id",
           "authorization_header", "clear_authorization_header", "description",
           "endpoint_url", "events_requested", "expected_updated_at", "status",
           "status_reason", "subject_format"}
    BY DEF Members, SsfStreamInput, Enums, Body
  <1>2. "authorization_header" \notin Members(SsfStream)
        /\ "clear_authorization_header" \notin Members(SsfStream)
    BY DEF Members, SsfStream, Enums, Body
  <1> QED
    BY <1>1, <1>2 DEF Stored, Secrets, Copied, Read, Input, StreamToInput, EventLists

LEMMA TargetCopied == Stored("target") \ Secrets("target") \subseteq Copied("target")
  <1>1. Members(ScimTargetInput) =
          {"auth", "base_url", "name", "scope", "credential", "deprovision", "enabled",
           "expected_updated_at", "push_groups", "user_name_from"}
    BY DEF Members, ScimTargetInput, Enums, Body
  <1>2. "credential" \notin Members(ScimTargetResponse)
    BY DEF Members, ScimTargetResponse, Enums, Body
  <1> QED
    BY <1>1, <1>2 DEF Stored, Secrets, Copied, Read, Input, TargetToInput

LEMMA DirectoryCopied == Stored("directory") \ Secrets("directory") \subseteq Copied("directory")
  <1>1. Members(SetDirectoryConfig) =
          {"base_dn", "bind_dn", "enabled", "kind", "start_tls", "url", "user_filter",
           "bind_secret", "group_base_dn", "group_filter", "group_mappings",
           "group_member_attribute", "group_nesting_depth", "jit_provisioning",
           "sync_interval_secs", "trust_anchors_pem", "user_attribute_map"}
    BY DEF Members, SetDirectoryConfig, Enums, Body
  <1>2. "bind_secret" \notin Members(DirectoryConfig)
    BY DEF Members, DirectoryConfig, Enums, Body
  <1> QED
    BY <1>1, <1>2 DEF Stored, Secrets, Copied, Read, Input, DirectoryToInput

LEMMA ProviderCopied == Stored("provider") \ Secrets("provider") \subseteq Copied("provider")
  <1>1. Members(SamlServiceProviderInput) =
          {"acs_urls", "display_name", "entity_id", "allow_idp_initiated",
           "allowed_groups", "attribute_mappings", "enabled", "encrypt_assertions",
           "name_id_format", "sign_responses", "slo_binding", "slo_url",
           "sp_encryption_cert_pem", "sp_signing_cert_pem", "want_authn_requests_signed"}
    BY DEF Members, SamlServiceProviderInput, Enums, Body
  <1> QED
    BY <1>1 DEF Stored, Copied, Input, ServiceProviderToInput

LEMMA NothingForgotten == \A f \in Forms : Stored(f) \ Secrets(f) \subseteq Copied(f)
  BY StreamCopied, TargetCopied, DirectoryCopied, ProviderCopied DEF Forms

LEMMA StreamsNameVersions == NamesVersion("stream")
  BY DEF NamesVersion, Copied, StreamToInput

-----------------------------------------------------------------------------
\* A row, as the server stores it or as it was read.
Row(r) ==
    /\ r = [members |-> r.members, version |-> r.version,
            allowed |-> r.allowed, requested |-> r.requested]
    /\ r.version \in Nat
    /\ r.requested \subseteq r.allowed
    /\ form # "stream" => r.requested = Events /\ r.allowed = Events

\* A copy is as old as its version says, and of the row as it was.
Copies ==
    \A a \in Admins : copy[a] # Nobody =>
        /\ Row(copy[a].row) /\ copy[a].row.version <= row.version
        /\ copy[a].row.version = row.version => copy[a].row = row

EditsInv ==
    /\ form \in Forms /\ DOMAIN copy = Admins /\ Row(row) /\ Copies
    /\ OnlyTheEditedMemberChanges

LEMMA InitEdits == EditInit => EditsInv
  <1> SUFFICES ASSUME EditInit PROVE EditsInv
    OBVIOUS
  <1>1. Row(row)
    BY DEF EditInit, Row
  <1>2. \A a \in Admins : copy[a] = Nobody
    BY DEF EditInit
  <1> QED
    BY <1>1, <1>2 DEF EditInit, EditsInv, Forms, Copies, OnlyTheEditedMemberChanges

LEMMA OneCopy ==
    ASSUME EditsInv, NEW a \in Admins, NEW c, copy' = [copy EXCEPT ![a] = c]
    PROVE  DOMAIN copy' = Admins /\ copy'[a] = c /\ \A b \in Admins : b # a => copy'[b] = copy[b]
  BY DEF EditsInv

LEMMA GetStep ==
    ASSUME EditsInv, NEW a \in Admins, Get(a)
    PROVE  EditsInv'
  <1>1. copy' = [copy EXCEPT ![a] = [admin |-> a, row |-> row]] /\ UNCHANGED <<form, row, landed>>
    BY DEF Get
  <1>2. /\ DOMAIN copy' = Admins /\ copy'[a] = [admin |-> a, row |-> row]
        /\ \A b \in Admins : b # a => copy'[b] = copy[b]
    BY <1>1, OneCopy
  <1>3. row.version \in Nat /\ Row(row)' /\ Row(row)
    BY <1>1 DEF EditsInv, Row
  <1>4. ASSUME NEW b \in Admins, copy'[b] # Nobody
        PROVE  /\ Row(copy[b].row)' /\ copy'[b].row.version <= row.version
               /\ copy'[b].row.version = row.version => copy'[b].row = row
    <2>1. CASE b = a
      <3>1. copy'[b].row = row
        BY <1>2, <2>1
      <3> QED
        BY <1>1, <1>3, <3>1 DEF Row
    <2>2. CASE b # a
      <3>1. copy'[b] = copy[b] /\ copy[b] # Nobody
        BY <1>2, <1>4, <2>2
      <3>2. Row(copy[b].row) /\ copy[b].row.version <= row.version
            /\ (copy[b].row.version = row.version => copy[b].row = row)
        BY <3>1 DEF EditsInv, Copies
      <3> QED
        BY <1>1, <3>1, <3>2 DEF Row
    <2> QED
      BY <2>1, <2>2
  <1>5. Copies'
    BY <1>1, <1>4 DEF Copies
  <1>6. OnlyTheEditedMemberChanges'
    BY <1>1 DEF EditsInv, OnlyTheEditedMemberChanges
  <1> QED
    BY <1>1, <1>2, <1>3, <1>5, <1>6 DEF EditsInv

\* The other copies fall behind a row whose version moves on.
LEMMA CopiesFallBehind ==
    ASSUME EditsInv, NEW a \in Admins, form' = form, row.version \in Nat,
           row'.version = row.version + 1,
           \A b \in Admins : copy'[b] # Nobody => copy'[b] = copy[b]
    PROVE  Copies'
  <1> SUFFICES ASSUME NEW b \in Admins, copy'[b] # Nobody
               PROVE  /\ Row(copy[b].row)' /\ copy'[b].row.version <= row'.version
                      /\ copy'[b].row.version # row'.version
    BY DEF Copies
  <1>1. copy'[b] = copy[b] /\ copy[b] # Nobody
    OBVIOUS
  <1>2. Row(copy[b].row) /\ copy[b].row.version <= row.version
    BY <1>1 DEF EditsInv, Copies
  <1>3. copy[b].row.version \in Nat
    BY <1>2 DEF Row
  <1>4. Row(copy[b].row)'
    BY <1>1, <1>2 DEF Row
  <1> QED
    BY <1>1, <1>2, <1>3, <1>4

\* A write that names the version it read is made from the row as it is.
LEMMA GuardedRead ==
    ASSUME EditsInv, NEW a \in Admins, copy[a] # Nobody, NamesVersion(form),
           Accepted(a, "kept")
    PROVE  copy[a].row = row
  BY DEF Accepted, EditsInv, Copies

LEMMA LandStep ==
    ASSUME EditsInv, NEW a \in Admins, copy[a] # Nobody, NEW version, Accepted(a, version),
           NEW m, NEW events,
           NEW allowed, NEW requested, requested \subseteq allowed,
           form # "stream" => requested = Events /\ allowed = Events,
           Land(a, m, allowed, requested, version, events)
    PROVE  EditsInv'
  <1>1. /\ row' = [members |-> Overwritten(a, m), version |-> row.version + 1,
                   allowed |-> allowed, requested |-> requested]
        /\ landed' = [admin |-> a, member |-> m, read |-> copy[a].row.members,
                      was |-> row.members, version |-> version, events |-> events]
        /\ copy' = [copy EXCEPT ![a] = Nobody]
        /\ form' = form
    BY DEF Land
  <1>2. row.version \in Nat
    BY DEF EditsInv, Row
  <1>3. /\ row'.members = Overwritten(a, m) /\ row'.version = row.version + 1
        /\ row'.allowed = allowed /\ row'.requested = requested
    BY <1>1
  <1>4. Row(row)'
    BY <1>1, <1>2, <1>3 DEF Row
  <1>5. /\ DOMAIN copy' = Admins
        /\ \A b \in Admins : copy'[b] # Nobody => copy'[b] = copy[b]
    BY <1>1, OneCopy
  <1>6. Copies'
    BY <1>1, <1>2, <1>3, <1>5, CopiesFallBehind
  <1>7. /\ landed'.member = m /\ landed'.read = copy[a].row.members
        /\ landed'.was = row.members /\ landed'.version = version
    BY <1>1
  <1>8. ASSUME NEW n \in Stored(form) \ ({m} \cup Secrets(form))
        PROVE  /\ row'.members[n] = landed'.read[n]
               /\ NamesVersion(form) /\ version = "kept" => row'.members[n] = landed'.was[n]
    <2>1. n \in Copied(form)
      BY NothingForgotten DEF EditsInv
    <2>2. row'.members[n] = copy[a].row.members[n]
      BY <1>3, <2>1 DEF Overwritten
    <2>3. NamesVersion(form) /\ version = "kept" => copy[a].row = row
      BY GuardedRead
    <2> QED
      BY <1>7, <2>2, <2>3
  <1>9. OnlyTheEditedMemberChanges'
    <2>1. /\ Stored(form)' = Stored(form) /\ Secrets(form)' = Secrets(form)
          /\ NamesVersion(form)' = NamesVersion(form)
      BY <1>1
    <2> QED
      BY <1>1, <1>7, <1>8, <2>1 DEF OnlyTheEditedMemberChanges
  <1> QED
    BY <1>1, <1>4, <1>5, <1>6, <1>9 DEF EditsInv

\* What a write does to the two event lists.
LEMMA LandedLists ==
    ASSUME NEW a, NEW m, NEW allowed, NEW requested, NEW version, NEW events,
           Land(a, m, allowed, requested, version, events)
    PROVE  /\ row'.requested = requested /\ row'.allowed = allowed
           /\ landed'.version = version /\ landed'.events = events
           /\ "version" \in DOMAIN landed'
  BY DEF Land

\* Narrowed, or not by such a write as the property is about.
Kept ==
    \/ row'.requested \subseteq row.requested
    \/ landed' # Nobody /\ (landed'.version = "dropped" \/ landed'.events = "named")

LEMMA PutStep ==
    ASSUME EditsInv, NEW a \in Admins, Put(a)
    PROVE  EditsInv' /\ Kept /\ row'.requested \subseteq row'.allowed
  <1>1. copy[a] # Nobody
    BY DEF Put
  <1>2. PICK m \in Stored(form), version \in Versions :
            /\ Accepted(a, version)
            /\ Land(a, m, copy[a].row.allowed, copy[a].row.requested, version, "read")
    BY DEF Put
  <1>3. Row(copy[a].row)
    BY <1>1 DEF EditsInv, Copies
  <1>4. EditsInv'
    BY <1>1, <1>2, <1>3, LandStep DEF Row
  <1>5. /\ row'.requested = copy[a].row.requested /\ row'.allowed = copy[a].row.allowed
        /\ landed'.version = version /\ landed' # Nobody
    BY <1>2, LandedLists DEF Nobody
  <1>6. version = "kept" \/ version = "dropped"
    BY DEF Versions
  <1>7. version = "kept" => copy[a].row.requested \subseteq row.requested
    <2>1. CASE form = "stream"
      BY <1>1, <1>2, <2>1, StreamsNameVersions, GuardedRead
    <2>2. CASE form # "stream"
      BY <1>3, <2>2 DEF EditsInv, Row
    <2> QED
      BY <2>1, <2>2
  <1> QED
    BY <1>3, <1>4, <1>5, <1>6, <1>7 DEF Kept, Row

LEMMA ChangesStep ==
    ASSUME EditsInv, NEW a \in Admins, PutChanges(a)
    PROVE  EditsInv' /\ Kept /\ row'.requested \subseteq row'.allowed
  <1>1. form = "stream" /\ copy[a] # Nobody
    BY DEF PutChanges
  <1>2. PICK allowed \in SUBSET Events, version \in Versions :
          /\ Accepted(a, version)
          /\ \/ Land(a, "events_allowed", allowed, CutTo(allowed, copy[a].row.requested),
                     version, "read")
             \/ \E requested \in SUBSET allowed :
                   Land(a, "events_allowed", allowed, requested, version, "named")
    BY DEF PutChanges
  <1>3. CASE Land(a, "events_allowed", allowed, CutTo(allowed, copy[a].row.requested),
                  version, "read")
    <2>1. CutTo(allowed, copy[a].row.requested) = copy[a].row.requested \cap allowed
      BY DEF CutTo
    <2>2. EditsInv'
      BY <1>1, <1>2, <1>3, <2>1, LandStep
    <2>3. /\ row'.requested = copy[a].row.requested \cap allowed /\ row'.allowed = allowed
          /\ landed'.version = version /\ landed' # Nobody
      BY <1>3, <2>1, LandedLists DEF Nobody
    <2>4. version = "kept" => copy[a].row = row
      BY <1>1, <1>2, StreamsNameVersions, GuardedRead
    <2>5. version = "kept" \/ version = "dropped"
      BY DEF Versions
    <2> QED
      BY <2>2, <2>3, <2>4, <2>5 DEF Kept
  <1>4. ASSUME NEW requested \in SUBSET allowed,
               Land(a, "events_allowed", allowed, requested, version, "named")
        PROVE  EditsInv' /\ Kept /\ row'.requested \subseteq row'.allowed
    <2>1. EditsInv'
      BY <1>1, <1>2, <1>4, LandStep
    <2>2. /\ row'.requested = requested /\ row'.allowed = allowed
          /\ landed'.events = "named" /\ landed' # Nobody
      BY <1>4, LandedLists DEF Nobody
    <2> QED
      BY <2>1, <2>2 DEF Kept
  <1> QED
    BY <1>2, <1>3, <1>4

LEMMA NarrowStep ==
    ASSUME EditsInv, Narrow
    PROVE  /\ EditsInv'
           /\ row'.requested \subseteq row.requested /\ row'.requested \subseteq row'.allowed
  <1>1. PICK fewer \in SUBSET row.requested :
          row' = [row EXCEPT !.requested = fewer, !.version = @ + 1]
    BY DEF Narrow
  <1>2. form = "stream" /\ landed' = Nobody /\ UNCHANGED <<form, copy>>
    BY DEF Narrow
  <1>3. row.version \in Nat /\ row.requested \subseteq row.allowed
    BY DEF EditsInv, Row
  <1>4. row' = [members |-> row.members, version |-> row.version + 1,
                allowed |-> row.allowed, requested |-> fewer]
    <2> DEFINE next == row.version + 1
    <2>1. row' = [row EXCEPT !.requested = fewer, !.version = next]
      BY <1>1
    <2>2. row = [members |-> row.members, version |-> row.version,
                 allowed |-> row.allowed, requested |-> row.requested]
      BY DEF EditsInv, Row
    <2> HIDE DEF next
    <2>3. row' = [members |-> row.members, version |-> next,
                  allowed |-> row.allowed, requested |-> fewer]
      BY <2>1, <2>2
    <2> QED
      BY <2>3 DEF next
  <1>5. /\ row'.members = row.members /\ row'.version = row.version + 1
        /\ row'.allowed = row.allowed /\ row'.requested = fewer
    BY <1>4
  <1>6. Row(row)'
    BY <1>2, <1>3, <1>4, <1>5 DEF Row
  <1>7. Copies'
    <2>1. CASE Admins = {}
      BY <2>1 DEF Copies
    <2>2. CASE Admins # {}
      BY <1>2, <1>3, <1>5, <2>2, CopiesFallBehind
    <2> QED
      BY <2>1, <2>2
  <1>8. OnlyTheEditedMemberChanges'
    BY <1>2 DEF OnlyTheEditedMemberChanges
  <1> QED
    BY <1>2, <1>3, <1>5, <1>6, <1>7, <1>8 DEF EditsInv

LEMMA RefuseStep ==
    ASSUME EditsInv, NEW a \in Admins, Refuse(a)
    PROVE  EditsInv'
  <1>1. copy' = [copy EXCEPT ![a] = Nobody] /\ UNCHANGED <<form, row, landed>>
    BY DEF Refuse
  <1>2. /\ DOMAIN copy' = Admins
        /\ \A b \in Admins : copy'[b] # Nobody => copy'[b] = copy[b]
    BY <1>1, OneCopy
  <1>3. \A b \in Admins : copy'[b] # Nobody =>
          /\ Row(copy[b].row) /\ copy'[b] = copy[b] /\ copy[b].row.version <= row.version
          /\ copy[b].row.version = row.version => copy[b].row = row
    BY <1>2 DEF EditsInv, Copies
  <1>4. Copies' /\ Row(row)'
    BY <1>1, <1>3 DEF EditsInv, Copies, Row
  <1>5. OnlyTheEditedMemberChanges'
    BY <1>1 DEF EditsInv, OnlyTheEditedMemberChanges
  <1> QED
    BY <1>1, <1>2, <1>4, <1>5 DEF EditsInv

LEMMA StepEdits ==
    EditsInv /\ [EditNext]_editVars =>
        /\ EditsInv'
        /\ [Kept /\ row'.requested \subseteq row'.allowed]_editVars
  <1> SUFFICES ASSUME EditsInv, [EditNext]_editVars
               PROVE  /\ EditsInv'
                      /\ \/ Kept /\ row'.requested \subseteq row'.allowed
                         \/ UNCHANGED editVars
    OBVIOUS
  <1>1. CASE UNCHANGED editVars
    BY <1>1 DEF editVars, EditsInv, Copies, Row, OnlyTheEditedMemberChanges
  <1>2. ASSUME NEW a \in Admins, Get(a) \/ Refuse(a)
        PROVE  EditsInv' /\ row' = row
    BY <1>2, GetStep, RefuseStep DEF Get, Refuse
  <1>3. ASSUME NEW a \in Admins, Put(a) \/ PutChanges(a)
        PROVE  EditsInv' /\ Kept /\ row'.requested \subseteq row'.allowed
    BY <1>3, PutStep, ChangesStep
  <1>4. row.requested \subseteq row.allowed
    BY DEF EditsInv, Row
  <1>5. row'.requested \subseteq row.requested => Kept
    BY DEF Kept
  <1>6. ASSUME NEW a \in Admins, Get(a) \/ Refuse(a)
        PROVE  EditsInv' /\ Kept /\ row'.requested \subseteq row'.allowed
    BY <1>2, <1>4, <1>5, <1>6
  <1>7. CASE Narrow
    BY <1>5, <1>7, NarrowStep
  <1> QED
    BY <1>1, <1>3, <1>6, <1>7 DEF EditNext

-----------------------------------------------------------------------------
\* None of the four to_input leaves out a member that a replacement would put
\* back to its default; and where the input names the version that was read, a
\* write that keeps it reverts nothing written since, by whomever.
THEOREM EditsAreConfined == EditSpec => []OnlyTheEditedMemberChanges
  <1>1. EditsInv => OnlyTheEditedMemberChanges
    BY DEF EditsInv
  <1> QED
    BY <1>1, InitEdits, StepEdits, PTL DEF EditSpec

\* A write that keeps the version it read and leaves the list of requested events
\* to to_input widens none, however late; and no write leaves a receiver asking
\* for what it is not allowed.
THEOREM ReceiversAreNeverWidened == EditSpec => NarrowingHolds
  BY InitEdits, StepEdits, PTL DEF EditSpec, NarrowingHolds, Kept
=============================================================================
