--------------------------- MODULE ManagementEdits ---------------------------
(***************************************************************************)
(* Editing what the management API replaces whole: an administrator reads  *)
(* a directory, a service provider, an event stream or a provisioning      *)
(* target, turns the read into an input (the to_input of                   *)
(* management_helpers.cpp), changes one member and writes it back.  Other  *)
(* administrators do the same meanwhile, and the receiver of a stream      *)
(* narrows the events it asks for.                                         *)
(***************************************************************************)
EXTENDS ManagementBodies, Integers

CONSTANTS
    Admins,     \* administrators
    NoAdmin,    \* not one of them
    Events,     \* event types
    EditBound   \* bound: writes

VARIABLES
    form,       \* what is edited
    row,        \* as the server stores it
    copy,       \* what each administrator read, if anything
    landed,     \* the last write, with the row it was made from and the one it met
    writes      \* bound: writes so far

editVars == <<form, row, copy, landed, writes>>

\* DirectoryConfig::to_input
DirectoryToInput ==
    {"enabled", "kind", "url", "start_tls", "bind_dn", "base_dn", "user_filter",
     "group_base_dn", "group_filter", "group_mappings", "group_member_attribute",
     "group_nesting_depth", "jit_provisioning", "sync_interval_secs", "trust_anchors_pem",
     "user_attribute_map"}

\* SamlServiceProvider::to_input
ServiceProviderToInput ==
    {"display_name", "entity_id", "acs_urls", "allow_idp_initiated", "allowed_groups",
     "attribute_mappings", "enabled", "encrypt_assertions", "name_id_format",
     "sign_responses", "slo_binding", "slo_url", "sp_encryption_cert_pem",
     "sp_signing_cert_pem", "want_authn_requests_signed"}

\* A slip: two members are forgotten.
StreamToInputShort ==
    {"receiver_client_id", "audience", "delivery_method", "events_allowed", "description",
     "endpoint_url", "events_requested", "status", "expected_updated_at"}

\* SsfStream::to_input
StreamToInput ==
    {"receiver_client_id", "audience", "delivery_method", "events_allowed", "description",
     "endpoint_url", "events_requested", "status", "status_reason", "subject_format",
     "expected_updated_at"}

\* ScimTargetResponse::to_input
TargetToInput ==
    {"name", "base_url", "auth", "scope", "deprovision", "enabled", "push_groups",
     "user_name_from", "expected_updated_at"}

Read(f) ==
    CASE f = "directory" -> DirectoryConfig
      [] f = "provider"  -> SamlServiceProvider
      [] f = "stream"    -> SsfStream
      [] f = "target"    -> ScimTargetResponse

Input(f) ==
    CASE f = "directory" -> SetDirectoryConfig
      [] f = "provider"  -> SamlServiceProviderInput
      [] f = "stream"    -> SsfStreamInput
      [] f = "target"    -> ScimTargetInput

Copied(f) ==
    CASE f = "directory" -> DirectoryToInput
      [] f = "provider"  -> ServiceProviderToInput
      [] f = "stream"    -> StreamToInput
      [] f = "target"    -> TargetToInput

\* What the server compares with its own updated_at, where a write names it.
NamesVersion(f) == "expected_updated_at" \in Copied(f)

\* The members of a stored row: those that a read carries, and the secrets that
\* none does.  The two event lists of a stream are modelled apart.
EventLists == {"events_allowed", "events_requested"}
Stored(f) == Members(Input(f)) \ (EventLists \cup {"expected_updated_at"})
Secrets(f) == Stored(f) \ Members(Read(f))

Nobody == [admin |-> NoAdmin]

EditInit ==
    /\ form \in {"directory", "provider", "stream", "target"}
    /\ row = [members |-> [m \in Stored(form) |-> NoAdmin], version |-> 0,
              allowed |-> Events, requested |-> Events]
    /\ copy = [a \in Admins |-> Nobody]
    /\ landed = Nobody /\ writes = 0

Get(a) ==
    /\ copy[a] = Nobody /\ writes < EditBound
    /\ copy' = [copy EXCEPT ![a] = [admin |-> a, row |-> row]]
    /\ UNCHANGED <<form, row, landed, writes>>

\* The caller may take the version out of the input before it is sent.
Versions == {"kept", "dropped"}
Accepted(a, version) ==
    NamesVersion(form) /\ version = "kept" => copy[a].row.version = row.version

\* The server stores the input: an absent member takes its default, an absent
\* secret stays.
Overwritten(a, m) ==
    [n \in Stored(form) |->
        IF n = m THEN a
        ELSE IF n \in Copied(form) THEN copy[a].row.members[n]
        ELSE IF n \in Secrets(form) THEN row.members[n]
        ELSE "default"]

\* events: how the input came by its list of requested events.
Land(a, m, allowed, requested, version, events) ==
    /\ row' = [members |-> Overwritten(a, m), version |-> row.version + 1,
               allowed |-> allowed, requested |-> requested]
    /\ landed' = [admin |-> a, member |-> m, read |-> copy[a].row.members,
                  was |-> row.members, version |-> version, events |-> events]
    /\ copy' = [copy EXCEPT ![a] = Nobody]
    /\ writes' = writes + 1
    /\ UNCHANGED form

\* An administrator changes one member of the input and writes it.
Put(a) ==
    /\ copy[a] # Nobody /\ writes < EditBound
    /\ \E m \in Stored(form), version \in Versions :
          /\ version = "dropped" => NamesVersion(form)
          /\ Accepted(a, version)
          /\ Land(a, m, copy[a].row.allowed, copy[a].row.requested, version, "read")

\* A slip: the receiver is made to ask for all it may.
CutToCeiling(allowed, requested) == allowed

\* SsfStream::to_input(changes): a lower ceiling cuts the list that was read.
CutTo(allowed, requested) == requested \cap allowed

\* Or the caller names the list, which is sent as given: the server takes one
\* within the ceiling and answers any other 400.
PutChanges(a) ==
    /\ form = "stream" /\ copy[a] # Nobody /\ writes < EditBound
    /\ \E allowed \in SUBSET Events, version \in Versions :
          /\ Accepted(a, version)
          /\ \/ LET requested == CutTo(allowed, copy[a].row.requested)
                IN  /\ requested \subseteq allowed
                    /\ Land(a, "events_allowed", allowed, requested, version, "read")
             \/ \E requested \in SUBSET allowed :
                   Land(a, "events_allowed", allowed, requested, version, "named")

\* The server refuses a version that is not its own: 409.
Refuse(a) ==
    /\ copy[a] # Nobody /\ ~Accepted(a, "kept")
    /\ copy' = [copy EXCEPT ![a] = Nobody]
    /\ UNCHANGED <<form, row, landed, writes>>

\* The receiver of a stream narrows what it asks for.
Narrow ==
    /\ form = "stream" /\ writes < EditBound
    /\ \E fewer \in SUBSET row.requested :
          row' = [row EXCEPT !.requested = fewer, !.version = @ + 1]
    /\ landed' = Nobody /\ writes' = writes + 1
    /\ UNCHANGED <<form, copy>>

EditNext == Narrow \/ \E a \in Admins : Get(a) \/ Put(a) \/ PutChanges(a) \/ Refuse(a)

EditSpec == EditInit /\ [][EditNext]_editVars

-----------------------------------------------------------------------------
\* A replacement leaves out no member that would take its default: beside the
\* one edited, the row is what was read.  And where the input names the version
\* that was read, and the caller keeps it there, the row is as it was: no write
\* that landed since the read is reverted.  A directory and a service provider
\* name none; a late write reverts theirs.
OnlyTheEditedMemberChanges ==
    landed # Nobody =>
        \A n \in Stored(form) \ ({landed.member} \cup Secrets(form)) :
            /\ row.members[n] = landed.read[n]
            /\ NamesVersion(form) /\ landed.version = "kept" =>
                  row.members[n] = landed.was[n]

\* No edit that keeps the version it read and leaves the requested events to
\* to_input widens what a stream's receiver asks for, however late it is; and none
\* at all leaves the receiver asking for what it is not allowed.
NarrowingHolds ==
    [][/\ row'.requested \subseteq row'.allowed
       /\ \/ row'.requested \subseteq row.requested
          \/ /\ landed' # Nobody
             /\ landed'.version = "dropped" \/ landed'.events = "named"]_editVars
=============================================================================
