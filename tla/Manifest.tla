------------------------------ MODULE Manifest ------------------------------
(***************************************************************************)
(* The declarative layer of the management API                             *)
(* (management_manifest.cpp): an operator describes a tenant; plan() reads *)
(* what the tenant has and lists the differences; apply() plans, then      *)
(* sends the writes one by one and stops at the first that fails.  A       *)
(* failed apply is resumed by running it again.                            *)
(*                                                                         *)
(* An entity's stated members are two: `text' (a description, a resource's *)
(* metadata, a cap, a VLAN, a timeout) and `extra' (what only a segment or *)
(* a profile has: rank, filters, idle timeout), None when the manifest     *)
(* says nothing.  The tenant is `rows' and `bindings'; a write that is     *)
(* "lost" was applied and its answer was not received, one "refused" was   *)
(* not applied.  Somebody else may edit a segment meanwhile.               *)
(***************************************************************************)
EXTENDS Integers, FiniteSets, SequencesExt

CONSTANTS
    Worlds,     \* manifests, each with the tenant it meets
    None,       \* an unset optional
    Texts,      \* the values of a stated member
    ScanLimit,  \* kScanLimit
    MaxRuns,    \* bound: applies
    MaxFaults,  \* bound: writes lost or refused
    MaxEdits    \* bound: edits by somebody else

Rank == [resource |-> 0, permission |-> 1, role |-> 2, group |-> 3,
         service_account |-> 4, policy |-> 5, segment |-> 6, profile |-> 7]
Network == {"policy", "segment", "profile"}
Subjects == {"group", "service_account"}

Entities ==
    [kind : DOMAIN Rank, key : Nat, name : STRING, depends : Nat \cup {None},
     text : Texts \cup {None}, extra : Texts \cup {None}, segment : Nat \cup {None},
     roles : Seq([role : Nat, resource : Nat \cup {None}, narrow : BOOLEAN]),
     global : BOOLEAN, typed : BOOLEAN]

Rows == [kind : DOMAIN Rank, name : STRING, id : Nat, version : Nat,
         text : Texts \cup {None}, extra : Texts \cup {None}]

\* What the tenant keeps to: an id belongs to one object, a profile having its
\* segment's; there is one policy; a name is taken once in its kind, but for
\* accounts; and a subject holds a role once.
Numbered(some) ==
    /\ \A r \in some : r.kind # "profile" =>
          r.id <= Cardinality({q \in some : q.kind # "profile"})
    /\ \A r, q \in some : r.id = q.id =>
          r = q \/ (r.kind # q.kind /\ "profile" \in {r.kind, q.kind})
    /\ \A r \in some : r.kind = "profile" => \E s \in some : s.kind = "segment" /\ s.id = r.id

NamedOnce(some) ==
    /\ \E r \in some : r.kind = "policy"
    /\ \A r, q \in some :
          /\ r.kind = q.kind /\ r.kind \notin {"service_account", "profile"}
          /\ r.kind = "policy" \/ r.name = q.name
          => r = q

HeldOnce(some) ==
    \A x, y \in some : x.subject = y.subject /\ x.role = y.role => x = y

HeldBySomebody(assigned, some) ==
    \A x \in assigned : \E r \in some : r.kind \in Subjects /\ r.id = x.subject

ASSUME WorldAssumption ==
    /\ None \notin Nat \cup Rows /\ "theirs" \in Texts /\ ScanLimit \in Nat
    /\ \A w \in Worlds :
          /\ w.manifest \in Seq(Entities)
          /\ \A e \in ToSet(w.manifest) : e.extra # None => e.kind \in Network
          /\ w.rows \subseteq Rows /\ IsFiniteSet(w.rows)
          /\ Numbered(w.rows) /\ NamedOnce(w.rows) /\ HeldOnce(w.bindings)
          /\ HeldBySomebody(w.bindings, w.rows)

VARIABLES
    rows,       \* the tenant's objects
    bindings,   \* the tenant's role assignments
    lapsed,     \* the role assignments apply() has taken away
    manifest,   \* the declaration
    pc,         \* where the operator's thread is
    plan,       \* computed.changes
    at,         \* the index of the change being performed, the next of those pending
    ids,        \* resolved: the server ids known, by kind and key
    versions,   \* segment_versions
    held,       \* current: the subject's bindings as apply() read them
    role,       \* the index of the binding being reconciled
    status,     \* how the last apply ended
    secrets,    \* accounts whose one-time secret arrived, and those reported
    accused,    \* the subjects named by a failed apply
    used        \* applies, faults and edits so far; calm: none since the plan

manifestVars == <<rows, bindings, lapsed, manifest, pc, plan, at, ids, versions,
                  held, role, status, secrets, accused, used>>
tenant == <<rows, bindings, lapsed>>
progress == <<plan, at, ids, versions, held, role>>
-----------------------------------------------------------------------------
\* The declaration: look-ups, validate() and ordered().

FindKey(key) == SelectInSeq(manifest, LAMBDA e : e.key = key)

FindOfKind(kind, key) ==
    SelectInSeq(manifest, LAMBDA e : e.kind = kind /\ e.key = key)

\* The entity that entity i depends on, or 0: that of any kind, or of its own.
DependsOn(i) == IF manifest[i].depends = None THEN 0 ELSE FindKey(manifest[i].depends)

Parent(i) ==
    LET p == DependsOn(i) IN IF p # 0 /\ manifest[p].kind = manifest[i].kind THEN p ELSE 0

\* Of any entities one depends on none of them: no chain comes back.
Acyclic ==
    \A some \in (SUBSET DOMAIN manifest) \ {{}} : \E i \in some : DependsOn(i) \notin some

WellDeclared ==
    \A i \in DOMAIN manifest :
        LET e == manifest[i]
        IN  /\ FindOfKind(e.kind, e.key) = i
            /\ e.kind = "resource" => e.typed
            /\ e.depends # None => FindKey(e.depends) # 0

NetworkDeclared ==
    /\ \A i, j \in DOMAIN manifest :
          LET e == manifest[i]  f == manifest[j]
          IN  i # j /\ e.kind = f.kind =>
                  /\ e.kind # "policy"
                  /\ e.kind = "segment" => e.name # f.name
                  /\ e.kind = "profile" => e.segment # f.segment
    /\ \A i \in DOMAIN manifest :
          manifest[i].kind = "profile" =>
              FindOfKind("segment", manifest[i].segment) # 0

RolesDeclared ==
    \A e \in ToSet(manifest) : e.kind \in Subjects =>
        /\ \A b \in ToSet(e.roles) :
              /\ FindOfKind("role", b.role) # 0
              /\ b.resource # None => FindOfKind("resource", b.resource) # 0
              /\ b.narrow =>
                    /\ b.resource # None
                    /\ ~manifest[FindOfKind("role", b.role)].global
        /\ \A i, j \in DOMAIN e.roles : i # j => e.roles[i].role # e.roles[j].role

Valid == WellDeclared /\ Acyclic /\ NetworkDeclared /\ RolesDeclared

\* An entity with all it reaches by dependencies within its kind.
WithParents(some) == \A i \in some : Parent(i) \in some \cup {0}

Lineage(i) ==
    {j \in DOMAIN manifest :
        \A some \in SUBSET DOMAIN manifest : i \in some /\ WithParents(some) => j \in some}

\* The depth of a dependency chain within the entity's own kind.
Depth(i) == Cardinality(Lineage(i)) - 1

Before(i, j) ==
    LET e == manifest[i]  f == manifest[j]
    IN  \/ Rank[e.kind] < Rank[f.kind]
        \/ e.kind = f.kind /\ Depth(i) < Depth(j)
        \/ e.kind = f.kind /\ Depth(i) = Depth(j) /\ e.key < f.key

\* ordered(): the one permutation of the entities that is sorted.
Ordered(order) == \A k, l \in DOMAIN manifest : k < l => Before(order[k], order[l])
-----------------------------------------------------------------------------
\* plan(): what the tenant has, and what differs.

\* One page of one kind, in the order the server lists it.
Scanned(kind) ==
    {r \in rows : r.kind = kind /\
        Cardinality({q \in rows : q.kind = kind /\ q.id < r.id}) < ScanLimit}

SegmentOf(e) ==
    {r \in rows : r.kind = "segment" /\
        r.name = manifest[FindOfKind("segment", e.segment)].name}

Matches(e) ==
    CASE e.kind = "policy"  -> {r \in rows : r.kind = "policy"}
      [] e.kind = "segment" -> {r \in rows : r.kind = "segment" /\ r.name = e.name}
      [] e.kind = "profile" -> {r \in rows : r.kind = "profile" /\
                                  \E s \in SegmentOf(e) : s.id = r.id}
      [] OTHER              -> {r \in Scanned(e.kind) : r.name = e.name}

Ambiguous(e) == e.kind = "service_account" /\ Cardinality(Matches(e)) > 1

MembersDiffer(e, r) ==
    \/ e.text # None /\ e.text # r.text
    \/ e.extra # None /\ e.extra # r.extra


\* Whether the tenant's binding x already is the declared binding b.
BindingSatisfied(x, b, resource) == x.resource = resource /\ x.narrow = b.narrow

RoleName(b) == manifest[FindOfKind("role", b.role)].name

\* The binding of that role among some, by the role's name.
Current(some, b) ==
    {x \in some : \E r \in rows : r.kind = "role" /\ r.id = x.role /\ r.name = RoleName(b)}

ScopedTo(b) ==
    IF b.resource = None THEN {None}
    ELSE {r.id : r \in {q \in Scanned("resource") :
             q.name = manifest[FindOfKind("resource", b.resource)].name}}

\* A slip: a role that is held in any shape is no drift.
RolesMissing(e, r) ==
    e.kind \in Subjects /\
    \E b \in ToSet(e.roles) : Current({y \in bindings : y.subject = r.id}, b) = {}

BindingsDiffer(e, r) ==
    e.kind \in Subjects /\
    \E b \in ToSet(e.roles) :
        ~\E x \in Current({y \in bindings : y.subject = r.id}, b) :
            \E resource \in ScopedTo(b) : BindingSatisfied(x, b, resource)


\* A slip: what is not stated is left out of a full replacement.
CarriesNothing(e, r) == e.extra

\* Full replacements carry what the manifest does not state from the row read.
Carried(e, r) == IF e.extra = None THEN r.extra ELSE e.extra

Change(e) ==
    IF Matches(e) = {}
    THEN [entity |-> e, action |-> "create", id |-> None, read |-> None, secret |-> None]
    ELSE LET r == CHOOSE r \in Matches(e) : \A q \in Matches(e) : r.id <= q.id
         IN  [entity |-> e, id |-> r.id, read |-> r, secret |-> None,
              action |-> IF MembersDiffer(e, r) \/ BindingsDiffer(e, r)
                         THEN "update" ELSE "unchanged"]

\* refuse_unknown_carried: an update would have to carry a value of one of the
\* profile's enumerations that a later server added.
CarriesUnknown(e) ==
    /\ e.kind = "profile" /\ e.extra = None
    /\ Change(e).action = "update" /\ Change(e).read.extra = "new"

Changes(order) == [k \in DOMAIN manifest |-> Change(manifest[order[k]])]

\* The next pending change after the k-th change, or the end.
Pending(changes, k) ==
    LET later == {i \in DOMAIN changes : i > k /\ changes[i].action # "unchanged"}
    IN  IF later = {} THEN Len(changes) + 1 ELSE Min(later)

\* Every id that was read, of what stays as it is too.
Seeded(changes) ==
    {[kind |-> c.entity.kind, key |-> c.entity.key, id |-> c.id] :
        c \in {d \in ToSet(changes) : d.id # None}}

SeededVersions(changes) ==
    {[key |-> c.entity.key, version |-> c.read.version] :
        c \in {d \in ToSet(changes) : d.entity.kind = "segment" /\ d.read # None}}

\* plan() throws for what it cannot tell apart or could not write.
Plannable == Valid /\ ~\E e \in ToSet(manifest) : Ambiguous(e) \/ CarriesUnknown(e)

\* SDK: ManifestApi::plan as apply() runs it, reads only.
Plan ==
    /\ pc = "idle" /\ used.runs < MaxRuns
    /\ used' = [used EXCEPT !.runs = @ + 1, !.calm = TRUE]
    /\ IF Plannable
       THEN /\ \E order \in Bijection(DOMAIN manifest, DOMAIN manifest) :
                   Ordered(order) /\ plan' = Changes(order)
            /\ ids' = Seeded(plan')
            /\ versions' = SeededVersions(plan')
            /\ at' = Pending(plan', 0) /\ pc' = "next" /\ status' = "running"
       ELSE /\ pc' = "idle" /\ status' = "refused"
            /\ UNCHANGED <<plan, ids, versions, at>>
    /\ UNCHANGED <<tenant, manifest, held, role, secrets, accused>>
-----------------------------------------------------------------------------
\* apply(): one change at a time.

change == plan[at]
entity == change.entity

Resolved(kind, key) == {x.id : x \in {y \in ids : y.kind = kind /\ y.key = key}}

Learn(id) ==
    ids' = {x \in ids : ~(x.kind = entity.kind /\ x.key = entity.key)}
             \cup {[kind |-> entity.kind, key |-> entity.key, id |-> id]}

ParentDeclared ==
    entity.kind = "resource" /\ entity.depends # None /\
    FindOfKind("resource", entity.depends) # 0

\* require_resolved: an id this change needs is not known.
Unresolved ==
    \/ ParentDeclared /\ Resolved("resource", entity.depends) = {}
    \/ entity.kind = "profile" /\
          (\/ Resolved("segment", entity.segment) = {}
           \/ ~\E v \in versions : v.key = entity.segment)

\* How a write that the tenant accepts may end; only an answer is free.
Endings == {"done", "lost", "refused"}
Spend(ending) ==
    /\ ending # "done" => used.faults < MaxFaults
    /\ used' = IF ending = "done" THEN used ELSE [used EXCEPT !.faults = @ + 1, !.calm = FALSE]


\* A change is over: the next one, or the failure that stops the apply.
Applied == pc' = "next" /\ at' = Pending(plan, at)

\* A slip: the report has the changes that were applied only.
ReportedApplied == {c.secret : c \in {plan[i] : i \in DOMAIN plan \cap (1 .. at - 1)}} \ {None}

Reported == {c.secret : c \in {plan[i] : i \in DOMAIN plan \cap (1 .. at)}} \ {None}
Report(how) ==
    /\ pc' = "idle" /\ status' = how
    /\ accused' = IF how = "complete" THEN accused ELSE accused \cup {entity.name}
    /\ secrets' = [secrets EXCEPT !.reported = @ \cup Reported]

\* SDK: perform() finds a dependency it was promised missing.
DependencyMissing ==
    /\ pc = "next" /\ at <= Len(plan) /\ Unresolved
    /\ Report("disordered")
    /\ UNCHANGED <<tenant, manifest, progress, used>>

\* The entity's own write is done: its role bindings, if it declares some.
Written(id) ==
    /\ Learn(id)
    /\ IF entity.kind \in Subjects /\ entity.roles # <<>>
       THEN pc' = "held" /\ at' = at
       ELSE Applied
    /\ UNCHANGED <<status, accused>>

Secretive == entity.kind = "service_account"

\* The versions a profile's write may name its segment by, and the current one.
NamedVersion == {v.version : v \in {x \in versions : x.key = entity.segment}}
Envelope(id) == {r.version : r \in {q \in rows : q.kind = "segment" /\ q.id = id}}

NewId ==
    IF entity.kind = "profile" THEN CHOOSE id \in Resolved("segment", entity.segment) : TRUE
    ELSE 1 + Cardinality({r \in rows : r.kind # "profile"})

Row ==
    [kind |-> entity.kind, name |-> entity.name, id |-> NewId, version |-> 1,
     text |-> entity.text, extra |-> entity.extra]

\* The tenant's rules: a name is taken once, but for service accounts, and a
\* network write names the versions it was made from.
Creatable ==
    CASE Secretive                -> TRUE
      [] entity.kind = "profile"  -> /\ ~\E r \in rows : r.kind = "profile" /\ r.id = NewId
                                     /\ NamedVersion = Envelope(NewId)
      [] OTHER -> ~\E r \in rows : r.kind = entity.kind /\ r.name = entity.name

Target == CHOOSE r \in rows : r.kind = entity.kind /\ r.id = change.id

Replaceable ==
    entity.kind \in Network =>
        /\ change.read.version = Target.version
        /\ entity.kind = "profile" => NamedVersion = Envelope(change.id)


\* A slip: a profile is checked against the segment as the plan read it.
VersionAsPlanned(version) == versions' = versions

\* segment_versions[key] = written.version
Versioned(version) ==
    versions' = IF entity.kind = "segment"
                THEN {v \in versions : v.key # entity.key}
                        \cup {[key |-> entity.key, version |-> version]}
                ELSE versions

\* The account's secret is kept on the change, whatever happens next.
KeepSecret(id) ==
    /\ plan' = [plan EXCEPT ![at].id = id, ![at].secret = IF Secretive THEN id ELSE None]
    /\ secrets' = [secrets EXCEPT !.arrived = IF Secretive THEN @ \cup {id} ELSE @]

\* SDK: perform(), a Create.
Create(ending) ==
    /\ pc = "next" /\ at <= Len(plan) /\ ~Unresolved
    /\ change.action = "create" /\ Creatable
    /\ Spend(ending)
    /\ rows' = IF ending = "refused" THEN rows ELSE rows \cup {Row}
    /\ IF ending = "done"
       THEN Written(NewId) /\ Versioned(1) /\ KeepSecret(NewId)
       ELSE Report("failed") /\ UNCHANGED <<plan, at, ids, versions>>
    /\ UNCHANGED <<bindings, lapsed, manifest, held, role>>

\* What an update leaves in the row: the stated members, and for the network
\* kinds a full replacement.
Replaced ==
    [Target EXCEPT !.text = IF entity.text = None THEN @ ELSE entity.text,
                   !.extra = IF entity.kind \in Network
                             THEN Carried(entity, change.read) ELSE @,
                   !.version = @ + 1]

\* A Group or ServiceAccount Update may be about a binding alone.
SendsUpdate == entity.kind \notin Subjects \/ entity.text # None

\* SDK: perform(), an Update.
Update(ending) ==
    /\ pc = "next" /\ at <= Len(plan) /\ ~Unresolved
    /\ change.action = "update" /\ SendsUpdate /\ Replaceable
    /\ Spend(ending)
    /\ rows' = IF ending = "refused" THEN rows ELSE (rows \ {Target}) \cup {Replaced}
    /\ IF ending = "done"
       THEN Written(change.id) /\ Versioned(Replaced.version) /\ UNCHANGED secrets
       ELSE Report("failed") /\ UNCHANGED <<at, ids, versions>>
    /\ UNCHANGED <<bindings, lapsed, manifest, plan, held, role>>

\* SDK: no PUT at all for a subject whose description the manifest does not state.
BindingsOnly ==
    /\ pc = "next" /\ at <= Len(plan) /\ ~Unresolved
    /\ change.action = "update" /\ ~SendsUpdate
    /\ Written(change.id)
    /\ UNCHANGED <<tenant, manifest, plan, versions, held, role, secrets, used>>

\* The tenant answers 409: a name that is taken, a version that is not current.
Conflict ==
    /\ pc = "next" /\ at <= Len(plan) /\ ~Unresolved
    /\ \/ change.action = "create" /\ ~Creatable
       \/ change.action = "update" /\ SendsUpdate /\ ~Replaceable
    /\ Report("conflict")
    /\ UNCHANGED <<tenant, manifest, progress, used>>

\* SDK: nothing is left to perform.
Complete ==
    /\ pc = "next" /\ at = Len(plan) + 1
    /\ Report("complete")
    /\ UNCHANGED <<tenant, manifest, progress, used>>
-----------------------------------------------------------------------------
\* reconcile_role_bindings(): each declared binding against the subject's own.

subject == CHOOSE id \in Resolved(entity.kind, entity.key) : TRUE
declared == entity.roles[role]

\* The binding to write for the declared one, carrying a tenant scope.
Wanted(scope) ==
    [subject |-> subject, scope |-> scope, narrow |-> declared.narrow,
     role |-> CHOOSE id \in Resolved("role", declared.role) : TRUE,
     resource |-> IF declared.resource = None THEN None
                  ELSE CHOOSE id \in Resolved("resource", declared.resource) : TRUE]

Old == CHOOSE x \in Current(held, declared) : TRUE

\* SDK: bound_role_bindings; a subject just created holds none.
ReadHeld ==
    /\ pc = "held"
    /\ held' = IF change.action = "create" THEN {}
               ELSE {x \in bindings : x.subject = subject}
    /\ role' = 1 /\ pc' = "binding"
    /\ UNCHANGED <<tenant, manifest, plan, at, ids, versions, status, secrets, accused, used>>

\* SDK: every binding was looked at.
Bound ==
    /\ pc = "binding" /\ role > Len(entity.roles)
    /\ Applied
    /\ UNCHANGED <<tenant, manifest, plan, ids, versions, held, role, status, secrets,
                   accused, used>>

\* SDK: NoChange.
AlreadyBound ==
    /\ pc = "binding" /\ role <= Len(entity.roles)
    /\ \E x \in Current(held, declared) : BindingSatisfied(x, declared, Wanted(None).resource)
    /\ role' = role + 1
    /\ UNCHANGED <<tenant, manifest, pc, plan, at, ids, versions, held, status, secrets,
                   accused, used>>

\* The tenant holds one assignment of a role per subject.
Assignable(x) == ~\E y \in bindings : y.subject = x.subject /\ y.role = x.role

\* An assign of x: the next step when it is answered, the other when it is not.
Assign(x, ending, next, otherwise) ==
    /\ IF Assignable(x)
       THEN /\ Spend(ending)
            /\ bindings' = IF ending = "refused" THEN bindings ELSE bindings \cup {x}
            /\ IF ending = "done" THEN next ELSE otherwise
       ELSE ending = "refused" /\ otherwise /\ UNCHANGED <<bindings, used>>
    /\ UNCHANGED <<rows, lapsed, manifest, plan, at, ids, versions, held>>

NextBinding == pc' = "binding" /\ role' = role + 1 /\ UNCHANGED <<status, secrets, accused>>

\* SDK: the role is not held: assign it, with no tenant scope.
AssignAbsent(ending) ==
    /\ pc = "binding" /\ role <= Len(entity.roles) /\ Current(held, declared) = {}
    /\ Assign(Wanted(None), ending, NextBinding, Report("failed") /\ UNCHANGED role)

\* SDK: held in another shape: the old binding goes first.
Unassign(ending) ==
    /\ pc = "binding" /\ role <= Len(entity.roles)
    /\ \E x \in Current(held, declared) : ~BindingSatisfied(x, declared, Wanted(None).resource)
    /\ Spend(ending)
    /\ IF ending = "refused" THEN UNCHANGED <<bindings, lapsed>>
       ELSE bindings' = bindings \ {Old} /\ lapsed' = lapsed \cup {Old}
    /\ IF ending = "done" THEN pc' = "rebinding" /\ UNCHANGED <<status, secrets, accused>>
       ELSE Report("failed")
    /\ UNCHANGED <<rows, manifest, progress>>


\* A slip: the new binding is written like one that was absent.
RebindUnscoped(ending) ==
    /\ pc = "rebinding"
    /\ Assign(Wanted(None), ending, NextBinding,
              pc' = "restoring" /\ UNCHANGED <<role, status, secrets, accused>>)

\* SDK: the new binding carries the old one's tenant scope across.
Rebind(ending) ==
    /\ pc = "rebinding"
    /\ Assign(Wanted(Old.scope), ending, NextBinding,
              pc' = "restoring" /\ UNCHANGED <<role, status, secrets, accused>>)

\* SDK: it failed: the old binding is assigned again, and the failure rethrown.
Restore(ending) ==
    /\ pc = "restoring"
    /\ Assign(Old, ending, Report("failed") /\ UNCHANGED role,
              Report("failed") /\ UNCHANGED role)
-----------------------------------------------------------------------------
\* Somebody else writes a segment.
EditElsewhere ==
    /\ used.edits < MaxEdits
    /\ \E r \in rows : r.kind = "segment" /\
          rows' = (rows \ {r}) \cup {[r EXCEPT !.version = @ + 1, !.extra = "theirs"]}
    /\ used' = [used EXCEPT !.edits = @ + 1, !.calm = FALSE]
    /\ UNCHANGED <<bindings, lapsed, manifest, pc, progress, status, secrets, accused>>

\* Every apply that the bound allows has ended.
ManifestDone == pc = "idle" /\ used.runs = MaxRuns /\ UNCHANGED manifestVars

ManifestInit ==
    /\ \E w \in Worlds : manifest = w.manifest /\ rows = w.rows /\ bindings = w.bindings
    /\ lapsed = {} /\ pc = "idle" /\ plan = <<>> /\ at = 1 /\ ids = {} /\ versions = {}
    /\ held = {} /\ role = 1 /\ status = "new"
    /\ secrets = [arrived |-> {}, reported |-> {}]
    /\ accused = {}
    /\ used = [runs |-> 0, faults |-> 0, edits |-> 0, calm |-> TRUE]

Apply ==
    \/ Plan \/ DependencyMissing \/ BindingsOnly \/ Conflict \/ Complete
    \/ ReadHeld \/ Bound \/ AlreadyBound
    \/ \E ending \in Endings :
          \/ Create(ending) \/ Update(ending) \/ AssignAbsent(ending)
          \/ Unassign(ending) \/ Rebind(ending) \/ Restore(ending)

ManifestNext == Apply \/ EditElsewhere \/ ManifestDone

ManifestSpec == ManifestInit /\ [][ManifestNext]_manifestVars
-----------------------------------------------------------------------------
\* Everything the manifest says, read off the tenant.
Held(e) ==
    \E r \in rows :
        /\ r.kind = e.kind
        /\ e.kind = "profile" => \E s \in SegmentOf(e) : s.id = r.id
        /\ e.kind \notin {"policy", "profile"} => r.name = e.name
        /\ e.text = None \/ r.text = e.text
        /\ e.extra = None \/ r.extra = e.extra
        /\ e.kind \in Subjects => \A b \in ToSet(e.roles) : \E x \in bindings :
              /\ x.subject = r.id /\ x.narrow = b.narrow
              /\ \E q \in rows : q.kind = "role" /\ q.name = RoleName(b) /\ q.id = x.role
              /\ IF b.resource = None THEN x.resource = None
                 ELSE \E q \in rows : q.kind = "resource" /\ q.id = x.resource /\
                      q.name = manifest[FindOfKind("resource", b.resource)].name

\* Two entities of a kind are two objects: their names differ, as validate()
\* sees to for the network kinds.
NamesTellApart ==
    \A i, j \in DOMAIN manifest :
        /\ manifest[i].kind = manifest[j].kind /\ manifest[i].kind # "profile"
        /\ manifest[i].name = manifest[j].name
        => i = j

\* The tenant has no more objects of a kind than read_existing() asks for.
PageHoldsAll ==
    \A kind \in DOMAIN Rank : Cardinality({r \in rows : r.kind = kind}) <= ScanLimit

\* An apply that reports every change applied leaves a tenant that is what the
\* manifest says, so that applying it again sends nothing.
CompleteMeansConverged ==
    pc = "idle" /\ status = "complete" /\ used.calm =>
        /\ \A e \in ToSet(manifest) : Held(e)
        /\ \A e \in ToSet(manifest) : Change(e).action = "unchanged"

\* However the steps of a rebinding are lost or refused, a subject's assignment
\* comes back with another tenant scope only after an apply that ended in a
\* failure naming that subject: no apply widens a reach and reports success alone.
WideningIsReported ==
    \A x \in bindings, y \in lapsed :
        x.subject = y.subject /\ x.role = y.role /\ x.scope # y.scope =>
            \E r \in rows : r.kind \in Subjects /\ r.id = x.subject /\ r.name \in accused

\* The one-time secret of every account whose creation was answered is in a
\* report, also when a later write of the same apply fails.
SecretsAreReported == pc = "idle" => secrets.arrived = secrets.reported

\* No dependency is named by a key that an entity of another kind has as well.
KeysTellApart ==
    \A e \in ToSet(manifest) : e.depends # None =>
        FindOfKind(e.kind, e.depends) \in {0, FindKey(e.depends)}

\* Whatever an earlier apply left half done, an apply that nothing disturbs ends
\* with every change applied: a failure is never of the manifest's own making,
\* but for a key that two kinds share and a name that two keys share.
UndisturbedApplySucceeds ==
    pc = "idle" /\ used.calm /\ KeysTellApart /\ NamesTellApart =>
        status \in {"new", "refused", "complete"}

\* A member the manifest does not state keeps the tenant's value through every
\* write that apply() makes.
UnstatedSurvives ==
    [][used'.edits = used.edits =>
        \A r \in rows : \E q \in rows' :
            /\ q.kind = r.kind /\ q.id = r.id
            /\ \/ q = r
               \/ \E e \in ToSet(manifest) :
                     /\ e.kind = r.kind /\ (e.name = r.name \/ e.kind \in {"policy", "profile"})
                     /\ e.text = None => q.text = r.text
                     /\ e.extra = None => q.extra = r.extra]_manifestVars

\* validate() and ordered() keep their promise: no apply ever finds that a
\* dependency of its own manifest has no server id yet.
DependenciesComeFirst == status # "disordered"
=============================================================================
