--------------------------- MODULE ManifestProofs ---------------------------
(***************************************************************************)
(* Applying a manifest, for any manifests, worlds, texts and numbers of    *)
(* runs, faults and edits elsewhere: what the manifest does not state      *)
(* survives, every one-time secret reaches the report, an assignment never *)
(* loses its scope without the report naming its subject, a complete       *)
(* report leaves a tenant that is what the manifest says, and an apply     *)
(* that nothing disturbs ends with one.                                    *)
(***************************************************************************)
EXTENDS Manifest, FiniteSetTheorems, SequenceTheorems, WellFoundedInduction, TLAPS

-----------------------------------------------------------------------------
(* What the proofs keep: typing, the plan and what it was made from. *)

ChangeType ==
    [entity : Entities, action : {"create", "update", "unchanged"},
     id : Nat \cup {None}, read : Rows \cup {None}, secret : Nat \cup {None}]

Binds == {"held", "binding", "rebinding", "restoring"}

UsedTyped ==
    /\ used.edits \in Nat
    /\ used = [runs |-> used.runs, faults |-> used.faults, edits |-> used.edits,
               calm |-> used.calm]

ManifestTyped ==
    /\ rows \subseteq Rows /\ IsFiniteSet(rows)
    /\ manifest \in Seq(Entities)
    /\ plan \in Seq(ChangeType) /\ at \in Nat \ {0} /\ role \in Nat \ {0}
    /\ ids \subseteq [kind : DOMAIN Rank, key : Nat, id : Nat]
    /\ secrets \in [arrived : SUBSET Nat, reported : SUBSET Nat]
    /\ UsedTyped
    /\ pc \in {"idle", "next"} \cup Binds
    /\ pc = "next" => at <= Len(plan) + 1
    /\ pc \in Binds => at <= Len(plan) /\ plan[at].entity.kind \in Subjects

TenantKeepsRules == Numbered(rows) /\ NamedOnce(rows) /\ HeldOnce(bindings)

Wrote(i) == i < at \/ (i = at /\ pc \in Binds)

SecretsKept ==
    /\ pc = "idle" => secrets.arrived = secrets.reported
    /\ pc # "idle" => secrets.arrived = secrets.reported \cup Reported
    /\ pc # "idle" => \A i \in DOMAIN plan : ~Wrote(i) => plan[i].secret = None

Bears(kind, id, name) == \E r \in rows : r.kind = kind /\ r.id = id /\ r.name = name

Alike(r, q) == r.kind = q.kind /\ r.id = q.id

\* A change is of a declared entity, and what it was planned from is what the
\* tenant has under that id, or an older version of it.
PlannedFrom(c, some, entities) ==
    /\ c.entity \in entities
    /\ c.action = "create" => c.entity.kind # "policy"
    /\ c.action # "create" =>
          /\ c.read \in Rows /\ c.read.kind = c.entity.kind /\ c.read.id = c.id
          /\ c.entity.kind \notin {"policy", "profile"} => c.read.name = c.entity.name
          /\ \E r \in some : Alike(r, c.read)
          /\ \A r \in some : Alike(r, c.read) =>
                /\ r.name = c.read.name
                /\ r.version > c.read.version \/ r = c.read

PlannedAs(c) == PlannedFrom(c, rows, ToSet(manifest))

Planned == \A i \in DOMAIN plan : PlannedAs(plan[i])

\* While an apply runs its manifest is as validate() left it, and the plan has
\* every entity once, in its order.
Keyed == \A i \in DOMAIN manifest : FindOfKind(manifest[i].kind, manifest[i].key) = i

Declared == Keyed /\ NetworkDeclared /\ RolesDeclared

InOrder ==
    /\ Declared
    /\ \A e \in ToSet(manifest) : \E i \in DOMAIN plan : plan[i].entity = e
    /\ \A i, j \in DOMAIN plan : plan[i].entity = plan[j].entity => i = j
    /\ \A i, j \in DOMAIN plan :
          Rank[plan[i].entity.kind] < Rank[plan[j].entity.kind] => i < j

\* Every entity whose change is behind it, or was unneeded, has an id.
Known ==
    \A i \in DOMAIN plan : Wrote(i) \/ plan[i].action # "create" =>
        Resolved(plan[i].entity.kind, plan[i].entity.key) # {}

\* And an id is that of an object with the entity's name.
Named ==
    \A x \in ids, i \in DOMAIN plan :
        /\ x.kind = plan[i].entity.kind /\ x.key = plan[i].entity.key
        /\ x.kind \notin {"policy", "profile"}
        => Bears(x.kind, x.id, plan[i].entity.name)

Resolving == pc # "idle" => InOrder /\ Known /\ Named

PlanInv == ManifestTyped /\ Numbered(rows) /\ NamedOnce(rows) /\ Planned /\ Resolving

Accused(id) == \E r \in rows : r.kind \in Subjects /\ r.id = id /\ r.name \in accused

Rebinding == pc \in {"rebinding", "restoring"}

\* The bindings apply() works on are the subject's, the tenant's still or taken
\* away; one is being replaced, and nobody holds its role with another scope.
HeldKnown ==
    /\ pc \in {"binding", "rebinding", "restoring"} =>
          \A x \in held : x.subject = subject /\ x \in bindings \cup lapsed
    /\ Rebinding =>
          /\ role <= Len(entity.roles)
          /\ Current(held, declared) # {}
          /\ Accused(subject) \/ \A x \in bindings :
                x.subject = Old.subject /\ x.role = Old.role => x.scope = Old.scope

\* An assignment taken away is being replaced, was replaced with the scope it
\* had, or is known to be missing.
LapsedKnown ==
    \A y \in lapsed :
        \/ Accused(y.subject)
        \/ Rebinding /\ y.subject = Old.subject /\ y.role = Old.role /\ y.scope = Old.scope
        \/ \E x \in bindings : x.subject = y.subject /\ x.role = y.role /\ x.scope = y.scope

LEMMA MinIn ==
    ASSUME NEW S, S \subseteq Nat, S # {}
    PROVE  Min(S) \in S /\ \A x \in S : Min(S) <= x
  <1>1. PICK x \in S : \A y \in S : ~(<<y, x>> \in OpToRel(<, Nat))
    BY NatLessThanWellFounded, WFMin
  <1>2. \A y \in S : x <= y
    <2> TAKE y \in S
    <2>1. x \in Nat /\ y \in Nat
      OBVIOUS
    <2>2. <<y, x>> \in Nat \X Nat
      BY <2>1
    <2>3. ~(y < x)
      BY <1>1, <2>2 DEF OpToRel
    <2> QED
      BY <2>1, <2>3
  <1> QED
    BY <1>2 DEF Min

LEMMA PendingNext ==
    ASSUME NEW changes, changes \in Seq(ChangeType), NEW k \in Nat, k <= Len(changes)
    PROVE  /\ Pending(changes, k) \in Nat
           /\ k < Pending(changes, k) /\ Pending(changes, k) <= Len(changes) + 1
           /\ \A i \in DOMAIN changes :
                 k < i /\ i < Pending(changes, k) => changes[i].action = "unchanged"
  <1> DEFINE later == {i \in DOMAIN changes : i > k /\ changes[i].action # "unchanged"}
  <1>1. DOMAIN changes = 1 .. Len(changes) /\ Len(changes) \in Nat
    OBVIOUS
  <1>2. CASE later = {}
    <2>1. Pending(changes, k) = Len(changes) + 1
      BY <1>2 DEF Pending
    <2> QED
      BY <1>1, <1>2, <2>1
  <1>3. CASE later # {}
    <2>1. Pending(changes, k) = Min(later)
      BY <1>3 DEF Pending
    <2>2. later \subseteq Nat
      BY <1>1
    <2>3. Min(later) \in later /\ \A x \in later : Min(later) <= x
      <3> HIDE DEF later
      <3> QED
        BY <1>3, <2>2, MinIn
    <2> DEFINE m == Min(later)
    <2>4. m \in Nat /\ m \in 1 .. Len(changes) /\ k < m
      BY <1>1, <2>3
    <2>5. ASSUME NEW i \in DOMAIN changes, k < i, i < m
          PROVE  changes[i].action = "unchanged"
      <3>1. i \notin later
        <4> HIDE DEF later, m
        <4> QED
          BY <1>1, <2>3, <2>4, <2>5 DEF m
      <3> QED
        BY <1>1, <2>5, <3>1
    <2> HIDE DEF later, m
    <2> QED
      BY <1>1, <2>1, <2>4, <2>5 DEF m
  <1> HIDE DEF later
  <1> QED
    BY <1>2, <1>3

\* Two objects that the tenant would not keep apart by name.
SameName(r, q) ==
    /\ r.kind = q.kind /\ r.kind \notin {"service_account", "profile"}
    /\ r.kind = "policy" \/ r.name = q.name

\* An object is replaced by a newer one with its kind, id and name.
Renewed(t, u) ==
    /\ t \in rows /\ u \in Rows
    /\ u.kind = t.kind /\ u.id = t.id /\ u.name = t.name /\ u.version = t.version + 1
    /\ rows' = (rows \ {t}) \cup {u}

\* Every object stays, or has a newer one in its place; nothing else appears.
LEMMA RenewedRows ==
    ASSUME NEW t, NEW u, Renewed(t, u), rows \subseteq Rows, IsFiniteSet(rows),
           Numbered(rows), NamedOnce(rows)
    PROVE  /\ rows' \subseteq Rows /\ IsFiniteSet(rows')
           /\ Numbered(rows') /\ NamedOnce(rows')
  <1> USE DEF Renewed
  <1>1. rows' \subseteq Rows
    OBVIOUS
  <1>2. IsFiniteSet(rows')
    BY FS_RemoveElement, FS_AddElement
  <1>3. \A r \in rows : r.kind = u.kind /\ r.id = u.id => r = t
    BY DEF Numbered
  <1>4. \A r \in rows \ {t} : ~(r.kind = u.kind /\ r.id = u.id)
    BY <1>3
  <1> DEFINE N == {q \in rows : q.kind # "profile"}
             M == {q \in rows' : q.kind # "profile"}
  <1>5. IsFiniteSet(N)
    BY FS_Subset
  <1>6. Cardinality(M) = Cardinality(N)
    <2>1. CASE t.kind = "profile"
      <3>1. M = N
        BY <2>1
      <3> HIDE DEF M, N
      <3> QED
        BY <3>1
    <2>2. CASE t.kind # "profile"
      <3>1. M = (N \ {t}) \cup {u} /\ t \in N
        BY <2>2
      <3>2. u \notin N \ {t}
        BY <1>4
      <3>3. IsFiniteSet(N \ {t}) /\ Cardinality(N \ {t}) = Cardinality(N) - 1
        BY <1>5, <3>1, FS_RemoveElement
      <3>4. Cardinality((N \ {t}) \cup {u}) = Cardinality(N \ {t}) + 1
        BY <3>2, <3>3, FS_AddElement
      <3>5. Cardinality(N) \in Nat
        BY <1>5, FS_CardinalityType
      <3> HIDE DEF M, N
      <3> QED
        BY <3>1, <3>3, <3>4, <3>5
    <2> QED
      BY <2>1, <2>2
  <1>7. Numbered(rows')
    <2>1. \A r \in rows' : r.kind # "profile" => r.id <= Cardinality(M)
      <3> TAKE r \in rows'
      <3>1. \A q \in rows : q.kind # "profile" => q.id <= Cardinality(N)
        BY DEF Numbered
      <3> QED
        BY <1>6, <3>1
    <2>2. \A r, q \in rows' : r.id = q.id =>
                r = q \/ (r.kind # q.kind /\ "profile" \in {r.kind, q.kind})
      <3>1. \A r, q \in rows : r.id = q.id =>
                r = q \/ (r.kind # q.kind /\ "profile" \in {r.kind, q.kind})
        BY DEF Numbered
      <3> QED
        BY <1>4, <3>1
    <2>3. \A r \in rows' : r.kind = "profile" => \E s \in rows' : s.kind = "segment" /\ s.id = r.id
      BY DEF Numbered
    <2> QED
      BY <2>1, <2>2, <2>3 DEF Numbered
  <1>8. NamedOnce(rows')
    <2>1. \A r, q \in rows : SameName(r, q) => r = q
      BY DEF NamedOnce, SameName
    <2>2. \A r \in rows \ {t} : ~SameName(r, u) /\ ~SameName(u, r)
      BY <2>1 DEF SameName
    <2>3. \A r, q \in rows' : SameName(r, q) => r = q
      BY <2>1, <2>2
    <2>4. \E r \in rows' : r.kind = "policy"
      BY DEF NamedOnce
    <2> QED
      BY <2>3, <2>4 DEF NamedOnce, SameName
  <1> QED
    BY <1>1, <1>2, <1>7, <1>8

\* A new object has a number of its own, or is the profile of its segment.
LEMMA AddedRow ==
    ASSUME NEW u \in Rows, rows \subseteq Rows, IsFiniteSet(rows),
           Numbered(rows), NamedOnce(rows),
           u.kind = "profile" => /\ ~\E r \in rows : r.kind = "profile" /\ r.id = u.id
                                 /\ \E s \in rows : s.kind = "segment" /\ s.id = u.id,
           u.kind # "profile" => u.id = 1 + Cardinality({r \in rows : r.kind # "profile"}),
           u.kind # "policy",
           u.kind \notin {"service_account", "profile"} =>
               ~\E r \in rows : r.kind = u.kind /\ r.name = u.name
    PROVE  /\ rows \cup {u} \subseteq Rows /\ IsFiniteSet(rows \cup {u})
           /\ Numbered(rows \cup {u}) /\ NamedOnce(rows \cup {u})
           /\ \A r \in rows : ~(r.kind = u.kind /\ r.id = u.id)
           /\ \A r \in rows : u.kind # "profile" /\ r.kind # "profile" => r.id < u.id
  <1> DEFINE W == rows \cup {u}
             N == {q \in rows : q.kind # "profile"}
             M == {q \in W : q.kind # "profile"}
  <1>1. W \subseteq Rows /\ IsFiniteSet(W)
    BY FS_AddElement
  <1>2. IsFiniteSet(N) /\ Cardinality(N) \in Nat
    BY FS_Subset, FS_CardinalityType
  <1>3. \A r \in rows : r.kind # "profile" => r.id <= Cardinality(N)
    BY DEF Numbered
  <1>4. \A r \in rows : r.id \in Nat
    BY DEF Rows
  <1>5. \A r \in rows : ~(r.kind = u.kind /\ r.id = u.id)
    <2>1. CASE u.kind = "profile"
      BY <2>1
    <2>2. CASE u.kind # "profile"
      <3>1. u.id = 1 + Cardinality(N)
        BY <2>2
      <3> HIDE DEF N
      <3> QED
        BY <1>2, <1>3, <1>4, <2>2, <3>1
    <2> QED
      BY <2>1, <2>2
  <1>9. \A r \in rows : u.kind # "profile" /\ r.kind # "profile" => r.id < u.id
    <2> HIDE DEF N
    <2>1. u.kind # "profile" => u.id = 1 + Cardinality(N)
      BY DEF N
    <2> QED
      BY <1>2, <1>3, <1>4, <2>1
  <1>6. IF u.kind = "profile" THEN Cardinality(M) = Cardinality(N)
        ELSE Cardinality(M) = Cardinality(N) + 1 /\ u.id = Cardinality(M)
    <2>1. CASE u.kind = "profile"
      <3>1. M = N
        BY <2>1
      <3> HIDE DEF M, N
      <3> QED
        BY <2>1, <3>1
    <2>2. CASE u.kind # "profile"
      <3>1. M = N \cup {u}
        BY <2>2
      <3>2. u \notin N
        BY <1>5
      <3>3. u.id = 1 + Cardinality(N)
        BY <2>2
      <3>4. Cardinality(N \cup {u}) = Cardinality(N) + 1
        BY <1>2, <3>2, FS_AddElement
      <3> HIDE DEF M, N
      <3> QED
        BY <1>2, <2>2, <3>1, <3>3, <3>4
    <2> QED
      BY <2>1, <2>2
  <1>7. Numbered(W)
    <2>1. \A r \in W : r.kind # "profile" => r.id <= Cardinality(M)
      <3> HIDE DEF M, N
      <3> QED
        BY <1>2, <1>3, <1>4, <1>6
    <2>2. \A r, q \in W : r.id = q.id =>
                r = q \/ (r.kind # q.kind /\ "profile" \in {r.kind, q.kind})
      <3>1. \A r, q \in rows : r.id = q.id =>
                r = q \/ (r.kind # q.kind /\ "profile" \in {r.kind, q.kind})
        BY DEF Numbered
      <3>2. \A r \in rows : r.id = u.id => r.kind # u.kind /\ "profile" \in {r.kind, u.kind}
        BY <1>4, <1>5, <1>9
      <3> QED
        BY <3>1, <3>2
    <2>3. \A r \in W : r.kind = "profile" => \E s \in W : s.kind = "segment" /\ s.id = r.id
      BY DEF Numbered
    <2> QED
      BY <2>1, <2>2, <2>3 DEF Numbered
  <1>8. NamedOnce(W)
    <2>1. \A r, q \in rows : SameName(r, q) => r = q
      BY DEF NamedOnce, SameName
    <2>2. \A r \in rows : ~SameName(r, u) /\ ~SameName(u, r)
      BY DEF SameName
    <2>3. \A r, q \in W : SameName(r, q) => r = q
      BY <2>1, <2>2
    <2>4. \E r \in W : r.kind = "policy"
      BY DEF NamedOnce
    <2> QED
      BY <2>3, <2>4 DEF NamedOnce, SameName
  <1> QED
    BY <1>1, <1>5, <1>7, <1>8, <1>9

(* The declaration. *)

LEMMA Finding ==
    ASSUME manifest \in Seq(Entities), NEW kind, NEW key
    PROVE  /\ FindOfKind(kind, key) # 0 =>
                 /\ FindOfKind(kind, key) \in DOMAIN manifest
                 /\ manifest[FindOfKind(kind, key)].kind = kind
                 /\ manifest[FindOfKind(kind, key)].key = key
  <1> DEFINE I == {i \in 1 .. Len(manifest) : manifest[i].kind = kind /\ manifest[i].key = key}
  <1>1. FindOfKind(kind, key) = IF I # {} THEN Min(I) ELSE 0
    BY DEF FindOfKind, SelectInSeq, Min
  <1>2. I # {} => Min(I) \in I
    <2>1. I \subseteq Nat
      OBVIOUS
    <2> HIDE DEF I
    <2> QED
      BY <2>1, MinIn
  <1> QED
    BY <1>1, <1>2

LEMMA KeyedOnce ==
    ASSUME manifest \in Seq(Entities), Keyed, NEW e \in ToSet(manifest), NEW f \in ToSet(manifest),
           e.kind = f.kind, e.key = f.key
    PROVE  e = f
  <1>1. PICK i \in DOMAIN manifest : e = manifest[i]
    BY DEF ToSet
  <1>2. PICK j \in DOMAIN manifest : f = manifest[j]
    BY DEF ToSet
  <1>3. FindOfKind(e.kind, e.key) = i /\ FindOfKind(f.kind, f.key) = j
    BY <1>1, <1>2 DEF Keyed
  <1> QED
    BY <1>1, <1>2, <1>3

(* The plan. *)

LEMMA MatchesAreRows ==
    ASSUME NEW e, e.kind \in DOMAIN Rank, NEW r \in Matches(e)
    PROVE  r \in rows /\ r.kind = e.kind /\ (e.kind \notin {"policy", "profile"} => r.name = e.name)
  <1>1. CASE e.kind = "policy"
    BY <1>1 DEF Matches
  <1>2. CASE e.kind = "segment"
    BY <1>2 DEF Matches
  <1>3. CASE e.kind = "profile"
    BY <1>3 DEF Matches
  <1>4. CASE e.kind \notin {"policy", "segment", "profile"}
    <2>1. Matches(e) = {q \in Scanned(e.kind) : q.name = e.name}
      BY <1>4 DEF Matches
    <2> QED
      BY <2>1 DEF Scanned
  <1> QED
    BY <1>1, <1>2, <1>3, <1>4

LEMMA ChangePlanned ==
    ASSUME manifest \in Seq(Entities), rows \subseteq Rows, Numbered(rows), NamedOnce(rows),
           NEW e \in ToSet(manifest)
    PROVE  /\ Change(e) \in ChangeType /\ Change(e).entity = e /\ Change(e).secret = None
           /\ PlannedAs(Change(e))
           /\ Change(e).id # None <=> Change(e).action # "create"
  <1>1. e \in Entities /\ e.kind \in DOMAIN Rank
    <2>1. PICK i \in DOMAIN manifest : e = manifest[i]
      BY DEF ToSet
    <2>2. e \in Entities
      BY <2>1
    <2> QED
      BY <2>2 DEF Entities
  <1>2. None \notin Nat
    BY WorldAssumption
  <1>3. CASE Matches(e) = {}
    <2>1. Change(e) = [entity |-> e, action |-> "create", id |-> None, read |-> None,
                       secret |-> None]
      BY <1>3 DEF Change
    <2>2. e.kind # "policy"
      BY <1>3 DEF Matches, NamedOnce
    <2> QED
      BY <1>1, <2>1, <2>2 DEF ChangeType, PlannedAs, PlannedFrom
  <1>4. CASE Matches(e) # {}
    <2> DEFINE r == CHOOSE q \in Matches(e) : \A p \in Matches(e) : q.id <= p.id
               a == IF MembersDiffer(e, r) \/ BindingsDiffer(e, r) THEN "update" ELSE "unchanged"
    <2>1. r \in Matches(e)
      <3> DEFINE I == {q.id : q \in Matches(e)}
      <3>1. I \subseteq Nat /\ I # {}
        BY <1>1, <1>4, MatchesAreRows DEF Rows
      <3>2. PICK m \in I : \A n \in I : m <= n
        <4> HIDE DEF I
        <4> QED
          BY <3>1, MinIn
      <3>3. \E q \in Matches(e) : \A p \in Matches(e) : q.id <= p.id
        BY <3>2
      <3> QED
        BY <3>3
    <2>2. Change(e) = [entity |-> e, id |-> r.id, read |-> r, secret |-> None, action |-> a]
      BY <1>4 DEF Change
    <2>3. r \in rows /\ r \in Rows /\ r.kind = e.kind
          /\ (e.kind \notin {"policy", "profile"} => r.name = e.name)
      BY <1>1, <2>1, MatchesAreRows
    <2>4. r.id \in Nat /\ r.id # None
      BY <1>2, <2>3 DEF Rows
    <2>5. a \in {"update", "unchanged"}
      OBVIOUS
    <2>6. \A q \in rows : Alike(q, r) => q = r
      BY <2>3 DEF Numbered, Alike
    <2> HIDE DEF r, a
    <2>7. Change(e) \in ChangeType
      BY <1>1, <2>2, <2>3, <2>4, <2>5 DEF ChangeType
    <2>8. PlannedAs(Change(e))
      BY <2>2, <2>3, <2>5, <2>6 DEF PlannedAs, PlannedFrom, Alike
    <2> QED
      BY <2>2, <2>4, <2>5, <2>7, <2>8
  <1> QED
    BY <1>3, <1>4

LEMMA RanksAreNumbers == \A kind \in DOMAIN Rank : Rank[kind] \in Nat
BY DEF Rank

\* The look-ups and what they find are the manifest's, which no step changes.
ResourceName(b) == manifest[FindOfKind("resource", b.resource)].name
SegmentName(e) == manifest[FindOfKind("segment", e.segment)].name

LEMMA NamesStay ==
    ASSUME UNCHANGED manifest
    PROVE  /\ \A kind, key : FindOfKind(kind, key)' = FindOfKind(kind, key)
           /\ \A b : RoleName(b)' = RoleName(b) /\ ResourceName(b)' = ResourceName(b)
           /\ \A e : SegmentName(e)' = SegmentName(e)
  <1>1. \A kind, key : FindOfKind(kind, key)' = FindOfKind(kind, key)
    BY DEF FindOfKind, SelectInSeq
  <1>2. ASSUME NEW b PROVE RoleName(b)' = RoleName(b) /\ ResourceName(b)' = ResourceName(b)
    BY <1>1 DEF RoleName, ResourceName
  <1>3. ASSUME NEW e PROVE SegmentName(e)' = SegmentName(e)
    BY <1>1 DEF SegmentName
  <1> QED
    BY <1>1, <1>2, <1>3

LEMMA DeclarationStays ==
    ASSUME UNCHANGED manifest, Declared
    PROVE  Declared'
  <1>1. \A kind, key : FindOfKind(kind, key)' = FindOfKind(kind, key)
    BY NamesStay
  <1>2. Keyed'
    BY <1>1 DEF Declared, Keyed
  <1>3. NetworkDeclared'
    BY <1>1 DEF Declared, NetworkDeclared
  <1>4. RolesDeclared'
    BY <1>1 DEF Declared, RolesDeclared
  <1> QED
    BY <1>2, <1>3, <1>4 DEF Declared

LEMMA PlanStep == PlanInv /\ Plan => PlanInv'
  <1> SUFFICES ASSUME PlanInv, Plan PROVE PlanInv'
    OBVIOUS
  <1> USE DEF PlanInv
  <1>0. /\ UNCHANGED <<rows, bindings, lapsed, manifest, held, role, secrets, accused>>
        /\ pc = "idle"
        /\ used' = [used EXCEPT !.runs = @ + 1, !.calm = TRUE]
    BY DEF Plan, tenant
  <1>1. UsedTyped'
    BY <1>0 DEF ManifestTyped, UsedTyped
  <1>2. rows' \subseteq Rows /\ IsFiniteSet(rows') /\ manifest' \in Seq(Entities)
        /\ Numbered(rows') /\ NamedOnce(rows')
    BY <1>0 DEF ManifestTyped
  <1>3. CASE Plannable
    <2>1. PICK order \in Bijection(DOMAIN manifest, DOMAIN manifest) :
                 Ordered(order) /\ plan' = Changes(order)
      BY <1>3 DEF Plan
    <2>2. /\ ids' = Seeded(plan') /\ at' = Pending(plan', 0) /\ pc' = "next"
      BY <1>3 DEF Plan
    <2> DEFINE D == DOMAIN manifest
    <2>3. D = 1 .. Len(manifest) /\ Len(manifest) \in Nat /\ manifest \in [D -> Entities]
      BY DEF ManifestTyped
    <2>4. order \in [D -> D] /\ \A j \in D : \E i \in D : order[i] = j
      BY <2>1 DEF Bijection, Injection, Surjection, IsInjective
    <2>5. plan' = [k \in D |-> Change(manifest[order[k]])]
      BY <2>1 DEF Changes
    <2>6. \A k \in D : /\ manifest[order[k]] \in ToSet(manifest)
                       /\ plan'[k] = Change(manifest[order[k]])
      BY <2>3, <2>4, <2>5 DEF ToSet
    <2>7. \A k \in D : /\ plan'[k] \in ChangeType /\ plan'[k].entity = manifest[order[k]]
                       /\ PlannedAs(plan'[k])
                       /\ plan'[k].id # None <=> plan'[k].action # "create"
      BY <2>6, ChangePlanned DEF ManifestTyped
    <2>8. plan' \in Seq(ChangeType) /\ DOMAIN plan' = D /\ Len(plan') = Len(manifest)
      BY <2>3, <2>5, <2>7
    <2>9. \A k \in D : PlannedAs(plan[k])'
      BY <1>0, <2>7 DEF PlannedAs
    <2>10. Planned'
      BY <2>8, <2>9 DEF Planned
    <2>11. Keyed /\ Declared'
      <3>1. Declared
        BY <1>3 DEF Plannable, Valid, WellDeclared, Declared, Keyed
      <3> QED
        BY <1>0, <3>1, DeclarationStays DEF Declared
    <2>12. InOrder'
      <3>1. \A e \in ToSet(manifest) : \E i \in DOMAIN plan' : plan'[i].entity = e
        <4> TAKE e \in ToSet(manifest)
        <4>1. PICK j \in D : e = manifest[j]
          BY DEF ToSet
        <4>2. PICK i \in D : order[i] = j
          BY <2>4
        <4>3. plan'[i].entity = e
          BY <2>7, <4>1, <4>2
        <4> QED
          BY <2>8, <4>3
      <3>2. ASSUME NEW i \in D, NEW j \in D,
                   Rank[plan'[i].entity.kind] < Rank[plan'[j].entity.kind]
            PROVE  i < j
        <4>1. manifest[order[i]] \in Entities /\ manifest[order[j]] \in Entities
          BY <2>3, <2>4
        <4> DEFINE p == Rank[manifest[order[i]].kind]
                   q == Rank[manifest[order[j]].kind]
        <4>2. p \in Nat /\ q \in Nat /\ p < q
          <5>1. plan'[i].entity = manifest[order[i]] /\ plan'[j].entity = manifest[order[j]]
            BY <2>7
          <5>2. manifest[order[i]].kind \in DOMAIN Rank /\ manifest[order[j]].kind \in DOMAIN Rank
            BY <4>1 DEF Entities
          <5> QED
            BY <3>2, <5>1, <5>2, RanksAreNumbers
        <4>3. j < i => Before(order[j], order[i])
          BY <2>1 DEF Ordered
        <4>4. Before(order[j], order[i]) => q <= p
          BY <4>2 DEF Before
        <4> HIDE DEF p, q
        <4>5. i # j
          BY <4>2 DEF p, q
        <4> QED
          BY <2>3, <4>2, <4>3, <4>4, <4>5
      <3>3. ASSUME NEW i \in D, NEW j \in D, plan'[i].entity = plan'[j].entity
            PROVE  i = j
        <4>1. manifest[order[i]] = manifest[order[j]]
          BY <2>7, <3>3
        <4>2. order[i] = order[j]
          BY <2>4, <2>11, <4>1 DEF Keyed
        <4> QED
          BY <2>1, <4>2 DEF Bijection, Injection, IsInjective
      <3> QED
        BY <1>0, <2>8, <2>11, <3>1, <3>2, <3>3 DEF InOrder
    <2>13. ids' = {[kind |-> c.entity.kind, key |-> c.entity.key, id |-> c.id] :
                      c \in {d \in ToSet(plan') : d.id # None}}
      BY <2>2 DEF Seeded
    <2>14. ids' \subseteq [kind : DOMAIN Rank, key : Nat, id : Nat]
      BY <2>7, <2>8, <2>13 DEF ToSet, ChangeType, Entities
    <2>15. /\ at' \in Nat \ {0} /\ at' <= Len(plan') + 1
           /\ \A i \in DOMAIN plan' : i < at' => plan'[i].action = "unchanged"
      BY <2>2, <2>3, <2>8, PendingNext
    <2>16. Known'
      <3> SUFFICES ASSUME NEW i \in D, Wrote(i)' \/ plan'[i].action # "create"
                   PROVE  Resolved(plan[i].entity.kind, plan[i].entity.key)' # {}
        BY <2>8 DEF Known
      <3>1. plan'[i].action # "create"
        BY <2>2, <2>8, <2>15 DEF Wrote, Binds
      <3>2. plan'[i] \in {d \in ToSet(plan') : d.id # None}
        BY <2>7, <2>8, <3>1 DEF ToSet
      <3>3. [kind |-> plan'[i].entity.kind, key |-> plan'[i].entity.key,
             id |-> plan'[i].id] \in ids'
        BY <2>13, <3>2
      <3> QED
        BY <3>3 DEF Resolved
    <2>17. Named'
      <3> SUFFICES ASSUME NEW x \in ids', NEW i \in D,
                          x.kind = plan'[i].entity.kind, x.key = plan'[i].entity.key,
                          x.kind \notin {"policy", "profile"}
                   PROVE  Bears(x.kind, x.id, plan[i].entity.name)'
        BY <2>8 DEF Named
      <3>1. PICK k \in D : /\ plan'[k].id # None
                           /\ x = [kind |-> plan'[k].entity.kind, key |-> plan'[k].entity.key,
                                   id |-> plan'[k].id]
        BY <2>8, <2>13 DEF ToSet
      <3>2. plan'[k].entity = plan'[i].entity
        BY <2>6, <2>7, <2>11, <3>1, KeyedOnce DEF ManifestTyped
      <3>3. PlannedAs(plan'[k]) /\ plan'[k].action # "create"
        BY <2>7, <3>1
      <3>4. PICK r \in rows : Alike(r, plan'[k].read) /\ r.name = plan'[k].read.name
        BY <3>3 DEF PlannedAs, PlannedFrom
      <3>5. r.kind = x.kind /\ r.id = x.id /\ r.name = plan'[i].entity.name
        BY <3>1, <3>2, <3>3, <3>4 DEF PlannedAs, PlannedFrom, Alike
      <3> QED
        BY <1>0, <3>5 DEF Bears
    <2>18. ManifestTyped'
      BY <1>0, <1>1, <1>2, <2>2, <2>8, <2>14, <2>15 DEF ManifestTyped, Binds
    <2> QED
      BY <1>2, <2>10, <2>12, <2>16, <2>17, <2>18 DEF Resolving
  <1>4. CASE ~Plannable
    <2>1. pc' = "idle" /\ UNCHANGED <<plan, ids, versions, at>>
      BY <1>4 DEF Plan
    <2>2. ManifestTyped'
      BY <1>0, <1>1, <1>2, <2>1 DEF ManifestTyped, Binds
    <2>3. Planned'
      BY <1>0, <2>1 DEF Planned, PlannedAs
    <2> QED
      BY <1>2, <2>1, <2>2, <2>3 DEF Resolving
  <1> QED
    BY <1>3, <1>4

(* The tenant's objects. *)

Added(u) ==
    /\ u \in Rows /\ rows' = rows \cup {u}
    /\ u.kind = "profile" => /\ ~\E r \in rows : r.kind = "profile" /\ r.id = u.id
                             /\ \E s \in rows : s.kind = "segment" /\ s.id = u.id
    /\ u.kind # "profile" => u.id = 1 + Cardinality({r \in rows : r.kind # "profile"})
    /\ u.kind # "policy"
    /\ u.kind \notin {"service_account", "profile"} =>
          ~\E r \in rows : r.kind = u.kind /\ r.name = u.name

RowsMove == UNCHANGED rows \/ (\E t, u : Renewed(t, u)) \/ (\E u : Added(u))

\* Whatever writes them: objects keep their names, and a plan made from them
\* stays one.
RowsStay == \A r \in rows : \E q \in rows' : Alike(q, r) /\ q.name = r.name

PlansStay ==
    \A c \in ChangeType : PlannedFrom(c, rows, ToSet(manifest)) =>
                              PlannedFrom(c, rows', ToSet(manifest))

LEMMA RowsKept ==
    ASSUME rows \subseteq Rows, IsFiniteSet(rows), Numbered(rows), NamedOnce(rows), RowsMove
    PROVE  /\ rows' \subseteq Rows /\ IsFiniteSet(rows')
           /\ Numbered(rows') /\ NamedOnce(rows')
           /\ RowsStay /\ PlansStay
  <1>1. CASE UNCHANGED rows
    <2>1. RowsStay /\ PlansStay
      BY <1>1 DEF RowsStay, PlansStay, Alike
    <2>2. IsFiniteSet(rows') /\ Numbered(rows') /\ NamedOnce(rows')
      BY <1>1
    <2> QED
      BY <1>1, <2>1, <2>2
  <1>2. ASSUME NEW t, NEW u, Renewed(t, u)
        PROVE  /\ rows' \subseteq Rows /\ IsFiniteSet(rows')
               /\ Numbered(rows') /\ NamedOnce(rows')
               /\ RowsStay /\ PlansStay
    <2>1. RowsStay
      BY <1>2 DEF RowsStay, Renewed, Alike
    <2>2. ASSUME NEW c \in ChangeType, PlannedFrom(c, rows, ToSet(manifest)), c.action # "create"
          PROVE  /\ \E r \in rows' : Alike(r, c.read)
                 /\ \A r \in rows' : Alike(r, c.read) =>
                       /\ r.name = c.read.name
                       /\ r.version > c.read.version \/ r = c.read
      <3>1. /\ c.read \in Rows
            /\ \E r \in rows : Alike(r, c.read)
            /\ \A r \in rows : Alike(r, c.read) =>
                  /\ r.name = c.read.name
                  /\ r.version > c.read.version \/ r = c.read
        BY <2>2 DEF PlannedFrom
      <3>2. \E r \in rows' : Alike(r, c.read)
        BY <2>1, <3>1 DEF RowsStay, Alike
      <3>3. Alike(u, c.read) => u.name = c.read.name /\ u.version > c.read.version
        <4>1. t \in Rows /\ t.version \in Nat /\ c.read.version \in Nat
          BY <1>2, <3>1 DEF Renewed, Rows
        <4>2. Alike(u, c.read) => Alike(t, c.read)
          BY <1>2 DEF Renewed, Alike
        <4> QED
          BY <1>2, <3>1, <4>1, <4>2 DEF Renewed
      <3> QED
        BY <1>2, <3>1, <3>2, <3>3 DEF Renewed
    <2>3. PlansStay
      BY <2>2 DEF PlansStay, PlannedFrom
    <2> QED
      BY <1>2, <2>1, <2>3, RenewedRows
  <1>3. ASSUME NEW u, Added(u)
        PROVE  /\ rows' \subseteq Rows /\ IsFiniteSet(rows')
               /\ Numbered(rows') /\ NamedOnce(rows')
               /\ RowsStay /\ PlansStay
    <2>1. /\ rows' \subseteq Rows /\ IsFiniteSet(rows')
          /\ Numbered(rows') /\ NamedOnce(rows')
          /\ \A r \in rows : ~(r.kind = u.kind /\ r.id = u.id)
      BY <1>3, AddedRow DEF Added
    <2>2. RowsStay
      BY <1>3 DEF RowsStay, Added, Alike
    <2>3. PlansStay
      BY <1>3, <2>1 DEF PlansStay, PlannedFrom, Added, Alike
    <2> QED
      BY <2>1, <2>2, <2>3
  <1> QED
    BY <1>1, <1>2, <1>3 DEF RowsMove

(* The change apply() is at. *)

LEMMA ChangeAt ==
    ASSUME PlanInv, at \in DOMAIN plan
    PROVE  /\ change \in ChangeType /\ entity \in Entities /\ entity \in ToSet(manifest)
           /\ PlannedAs(change)
  <1>1. change \in ChangeType
    BY DEF PlanInv, ManifestTyped, change
  <1>2. PlannedAs(change)
    BY DEF PlanInv, Planned, change
  <1> QED
    BY <1>1, <1>2 DEF PlannedAs, PlannedFrom, ChangeType, entity

LEMMA NewIdIsNumber ==
    ASSUME PlanInv, pc = "next", at \in DOMAIN plan, ~Unresolved
    PROVE  NewId \in Nat
  <1>1. CASE entity.kind = "profile"
    <2>1. Resolved("segment", entity.segment) # {}
      BY <1>1 DEF Unresolved
    <2>2. Resolved("segment", entity.segment) \subseteq Nat
      BY DEF PlanInv, ManifestTyped, Resolved
    <2> QED
      BY <1>1, <2>1, <2>2 DEF NewId
  <1>2. CASE entity.kind # "profile"
    <2>1. IsFiniteSet({r \in rows : r.kind # "profile"})
      BY FS_Subset DEF PlanInv, ManifestTyped
    <2>2. Cardinality({r \in rows : r.kind # "profile"}) \in Nat
      BY <2>1, FS_CardinalityType
    <2> QED
      BY <1>2, <2>2 DEF NewId
  <1> QED
    BY <1>1, <1>2

\* A profile's id is that of the segment it is declared for.
LEMMA SegmentNumbered ==
    ASSUME PlanInv, pc = "next", at \in DOMAIN plan, ~Unresolved, entity.kind = "profile"
    PROVE  Bears("segment", NewId, SegmentName(entity))
  <1>1. entity \in ToSet(manifest) /\ InOrder /\ Named /\ manifest \in Seq(Entities)
    BY ChangeAt DEF PlanInv, Resolving, ManifestTyped
  <1> DEFINE j == FindOfKind("segment", entity.segment)
  <1>2. PICK m \in DOMAIN manifest : entity = manifest[m]
    BY <1>1 DEF ToSet
  <1>3. j # 0
    BY <1>1, <1>2 DEF InOrder, Declared, NetworkDeclared
  <1>4. j \in DOMAIN manifest /\ manifest[j].kind = "segment" /\ manifest[j].key = entity.segment
    BY <1>1, <1>3, Finding
  <1>5. SegmentName(entity) = manifest[j].name
    BY DEF SegmentName
  <1> HIDE DEF j
  <1>6. PICK i \in DOMAIN plan : plan[i].entity = manifest[j]
    BY <1>1, <1>4 DEF InOrder, ToSet
  <1>7. NewId \in Resolved("segment", entity.segment)
    BY DEF Unresolved, NewId
  <1>8. PICK x \in ids : x.kind = "segment" /\ x.key = entity.segment /\ x.id = NewId
    BY <1>7 DEF Resolved
  <1>9. x.kind \notin {"policy", "profile"}
    BY <1>8
  <1> QED
    BY <1>1, <1>4, <1>5, <1>6, <1>8, <1>9 DEF Named

LEMMA CreateAdds ==
    ASSUME PlanInv, pc = "next", at \in DOMAIN plan, ~Unresolved, Creatable,
           change.action = "create", rows' = rows \cup {Row}
    PROVE  Added(Row)
  <1>1. entity \in Entities /\ NewId \in Nat
    BY ChangeAt, NewIdIsNumber
  <1>2. Row \in Rows
    BY <1>1 DEF Row, Rows, Entities
  <1>3. Row.kind = entity.kind /\ Row.id = NewId /\ Row.name = entity.name
    BY DEF Row
  <1>4. entity.kind = "profile" => ~\E r \in rows : r.kind = "profile" /\ r.id = NewId
    BY DEF Creatable, Secretive
  <1>5. entity.kind \notin {"service_account", "profile"} =>
           ~\E r \in rows : r.kind = entity.kind /\ r.name = entity.name
    BY DEF Creatable, Secretive
  <1>7. entity.kind # "policy"
    BY ChangeAt DEF PlannedAs, PlannedFrom, entity
  <1>8. entity.kind = "profile" => \E s \in rows : s.kind = "segment" /\ s.id = NewId
    BY SegmentNumbered DEF Bears
  <1>6. entity.kind # "profile" => NewId = 1 + Cardinality({r \in rows : r.kind # "profile"})
    BY DEF NewId
  <1> QED
    BY <1>2, <1>3, <1>4, <1>5, <1>6, <1>7, <1>8 DEF Added

LEMMA TargetIsRow ==
    ASSUME PlanInv, at \in DOMAIN plan, change.action = "update"
    PROVE  /\ Target \in rows /\ Alike(Target, change.read) /\ change.id \in Nat
           /\ change.read \in Rows
  <1>1. /\ change.read \in Rows /\ change.read.kind = entity.kind /\ change.read.id = change.id
        /\ \E r \in rows : Alike(r, change.read)
    BY ChangeAt DEF PlannedAs, PlannedFrom, entity
  <1>2. Target \in rows /\ Target.kind = entity.kind /\ Target.id = change.id
    BY <1>1 DEF Target, Alike
  <1> QED
    BY <1>1, <1>2 DEF Alike, Rows

Newer(r, a, b) == [r EXCEPT !.text = a, !.extra = b, !.version = r.version + 1]

LEMMA RowUpdated ==
    ASSUME NEW r \in Rows, NEW a \in Texts \cup {None}, NEW b \in Texts \cup {None},
           NEW w, w = Newer(r, a, b)
    PROVE  /\ w \in Rows /\ w.kind = r.kind /\ w.id = r.id /\ w.name = r.name
           /\ w.version = r.version + 1 /\ w.text = a /\ w.extra = b
  <1>1. r = [kind |-> r.kind, name |-> r.name, id |-> r.id, version |-> r.version,
             text |-> r.text, extra |-> r.extra]
    BY DEF Rows
  <1>2. r.kind \in DOMAIN Rank /\ r.name \in STRING /\ r.id \in Nat /\ r.version + 1 \in Nat
    BY DEF Rows
  <1>3. w = [kind |-> r.kind, name |-> r.name, id |-> r.id, version |-> r.version + 1,
             text |-> a, extra |-> b]
    BY <1>1 DEF Newer
  <1> QED
    BY <1>2, <1>3 DEF Rows

LEMMA UpdateRenews ==
    ASSUME PlanInv, at \in DOMAIN plan, change.action = "update",
           rows' = (rows \ {Target}) \cup {Replaced}
    PROVE  Renewed(Target, Replaced)
  <1>1. Target \in Rows /\ Target \in rows /\ change.read \in Rows /\ entity \in Entities
    BY TargetIsRow, ChangeAt DEF PlanInv, ManifestTyped
  <1> DEFINE a == IF entity.text = None THEN Target.text ELSE entity.text
             b == IF entity.kind \in Network THEN Carried(entity, change.read) ELSE Target.extra
  <1>2. Replaced = [Target EXCEPT !.text = a, !.extra = b, !.version = Target.version + 1]
    BY DEF Replaced
  <1>3. a \in Texts \cup {None} /\ b \in Texts \cup {None}
    BY <1>1 DEF Rows, Entities, Carried
  <1> HIDE DEF a, b
  <1> DEFINE t == Target
             w == Replaced
  <1>5. t \in Rows /\ w = Newer(t, a, b)
    BY <1>1, <1>2 DEF Newer
  <1> HIDE DEF t, w
  <1>6. /\ w \in Rows /\ w.kind = t.kind /\ w.id = t.id /\ w.name = t.name
        /\ w.version = t.version + 1
    BY <1>3, <1>5, RowUpdated
  <1>4. /\ Replaced \in Rows /\ Replaced.kind = Target.kind /\ Replaced.id = Target.id
        /\ Replaced.name = Target.name /\ Replaced.version = Target.version + 1
    BY <1>6 DEF t, w
  <1> QED
    BY <1>1, <1>4 DEF Renewed

(* The plan while it is carried out. *)

LEMMA SpendTyped ==
    ASSUME PlanInv, NEW ending, Spend(ending)
    PROVE  UsedTyped' /\ used'.edits = used.edits
BY DEF PlanInv, ManifestTyped, UsedTyped, Spend

LEMMA ReportKeeps ==
    ASSUME PlanInv, NEW how, Report(how)
    PROVE  /\ pc' = "idle" /\ secrets' \in [arrived : SUBSET Nat, reported : SUBSET Nat]
           /\ secrets'.arrived = secrets.arrived
           /\ secrets'.reported = secrets.reported \cup Reported
  <1>1. Reported \subseteq Nat
    <2>1. \A i \in DOMAIN plan : plan[i] \in ChangeType
      BY DEF PlanInv, ManifestTyped
    <2>2. \A i \in DOMAIN plan : plan[i].secret \in Nat \cup {None}
      BY <2>1 DEF ChangeType
    <2> QED
      BY <2>2 DEF Reported
  <1>2. secrets \in [arrived : SUBSET Nat, reported : SUBSET Nat]
    BY DEF PlanInv, ManifestTyped
  <1>3. secrets' = [arrived |-> secrets.arrived, reported |-> secrets.reported \cup Reported]
    BY <1>2 DEF Report
  <1> QED
    BY <1>1, <1>2, <1>3 DEF Report

\* What apply() does to the plan is note an id and a secret on what it creates.
SamePlan ==
    /\ plan' \in Seq(ChangeType) /\ Len(plan') = Len(plan) /\ DOMAIN plan' = DOMAIN plan
    /\ \A i \in DOMAIN plan :
          /\ plan'[i].entity = plan[i].entity /\ plan'[i].action = plan[i].action
          /\ plan'[i].read = plan[i].read
          /\ plan[i].action # "create" => plan'[i].id = plan[i].id

LEMMA PlanKept ==
    ASSUME PlanInv, RowsMove, UNCHANGED manifest, SamePlan
    PROVE  /\ rows' \subseteq Rows /\ IsFiniteSet(rows') /\ Numbered(rows')
           /\ NamedOnce(rows') /\ RowsStay
           /\ Planned' /\ (InOrder => InOrder')
  <1>1. /\ rows' \subseteq Rows /\ IsFiniteSet(rows') /\ Numbered(rows')
        /\ NamedOnce(rows') /\ RowsStay /\ PlansStay
    BY RowsKept DEF PlanInv, ManifestTyped
  <1>2. Planned'
    <2> SUFFICES ASSUME NEW i \in DOMAIN plan PROVE PlannedAs(plan[i])'
      BY DEF Planned, SamePlan
    <2>1. plan[i] \in ChangeType /\ PlannedFrom(plan[i], rows, ToSet(manifest))
      BY DEF PlanInv, ManifestTyped, Planned, PlannedAs
    <2>2. PlannedFrom(plan[i], rows', ToSet(manifest))
      BY <1>1, <2>1 DEF PlansStay
    <2>3. PlannedFrom(plan'[i], rows', ToSet(manifest))
      BY <2>2 DEF PlannedFrom, SamePlan
    <2> QED
      BY <2>3 DEF PlannedAs
  <1>3. ASSUME InOrder PROVE InOrder'
    <2>1. Declared'
      BY <1>3, DeclarationStays DEF InOrder
    <2> QED
      BY <1>3, <2>1 DEF InOrder, SamePlan
  <1> QED
    BY <1>1, <1>2, <1>3

LEMMA NamesKept ==
    ASSUME PlanInv, RowsStay, SamePlan, ids' = ids, Named
    PROVE  Named'
  <1> SUFFICES ASSUME NEW x \in ids, NEW i \in DOMAIN plan,
                      x.kind = plan[i].entity.kind, x.key = plan[i].entity.key,
                      x.kind \notin {"policy", "profile"}
               PROVE  Bears(x.kind, x.id, plan[i].entity.name)'
    BY DEF Named, SamePlan
  <1>1. PICK r \in rows : r.kind = x.kind /\ r.id = x.id /\ r.name = plan[i].entity.name
    BY DEF Named, Bears
  <1> QED
    BY <1>1 DEF RowsStay, SamePlan, Bears, Alike

LEMMA KnowledgeKept ==
    ASSUME SamePlan, ids' = ids, Known,
           \A i \in DOMAIN plan : Wrote(i)' => Wrote(i) \/ plan[i].action # "create"
    PROVE  Known'
BY DEF Known, SamePlan, Resolved

LEMMA StopStep ==
    ASSUME PlanInv, NEW how, Report(how), RowsMove, UsedTyped',
           UNCHANGED <<manifest, plan, at, ids, role>>
    PROVE  PlanInv'
  <1>1. SamePlan
    BY DEF PlanInv, ManifestTyped, SamePlan
  <1>2. /\ pc' = "idle" /\ secrets' \in [arrived : SUBSET Nat, reported : SUBSET Nat]
    BY ReportKeeps
  <1>3. /\ rows' \subseteq Rows /\ IsFiniteSet(rows') /\ Numbered(rows')
        /\ NamedOnce(rows') /\ Planned'
    BY <1>1, PlanKept
  <1>4. ManifestTyped'
    BY <1>2, <1>3 DEF PlanInv, ManifestTyped, Binds
  <1> QED
    BY <1>2, <1>3, <1>4 DEF PlanInv, Resolving

\* A subject's bindings are worked on, or nothing at all.
LEMMA QuietStep ==
    ASSUME PlanInv, pc' = pc \/ (pc \in Binds /\ pc' \in Binds), UsedTyped',
           role' \in Nat \ {0}, RowsMove, UNCHANGED <<manifest, plan, at, ids, secrets>>
    PROVE  PlanInv'
  <1>1. SamePlan
    BY DEF PlanInv, ManifestTyped, SamePlan
  <1>2. /\ rows' \subseteq Rows /\ IsFiniteSet(rows') /\ Numbered(rows')
        /\ NamedOnce(rows') /\ RowsStay /\ Planned' /\ (InOrder => InOrder')
    BY <1>1, PlanKept
  <1>3. ManifestTyped'
    BY <1>2 DEF PlanInv, ManifestTyped, Binds
  <1>4. CASE pc' # "idle"
    <2>1. pc # "idle" /\ InOrder /\ Known /\ Named
      BY <1>4 DEF PlanInv, Resolving, Binds
    <2>2. \A i \in DOMAIN plan : Wrote(i)' => Wrote(i)
      BY DEF Wrote
    <2>3. Known' /\ Named'
      BY <1>1, <1>2, <2>1, <2>2, KnowledgeKept, NamesKept
    <2> QED
      BY <1>2, <1>3, <2>1, <2>3 DEF PlanInv, Resolving
  <1>5. CASE pc' = "idle"
    BY <1>2, <1>3, <1>5 DEF PlanInv, Resolving
  <1> QED
    BY <1>4, <1>5

LEMMA BoundStep == PlanInv /\ Bound => PlanInv'
  <1> SUFFICES ASSUME PlanInv, Bound PROVE PlanInv'
    OBVIOUS
  <1>1. /\ pc = "binding" /\ pc' = "next" /\ at' = Pending(plan, at)
        /\ UNCHANGED <<rows, manifest, plan, ids, role, secrets, used>>
    BY DEF Bound, Applied, tenant
  <1>2. at \in Nat \ {0} /\ at <= Len(plan) /\ plan \in Seq(ChangeType)
    BY <1>1 DEF PlanInv, ManifestTyped, Binds
  <1>3. /\ at' \in Nat /\ at < at' /\ at' <= Len(plan) + 1
        /\ \A i \in DOMAIN plan : at < i /\ i < at' => plan[i].action = "unchanged"
    BY <1>1, <1>2, PendingNext
  <1>4. SamePlan /\ RowsMove
    BY <1>1, <1>2 DEF SamePlan, RowsMove
  <1>5. /\ rows' \subseteq Rows /\ IsFiniteSet(rows') /\ Numbered(rows')
        /\ NamedOnce(rows') /\ RowsStay /\ Planned' /\ (InOrder => InOrder')
    BY <1>1, <1>4, PlanKept
  <1>6. ManifestTyped'
    <2>1. UsedTyped'
      BY <1>1 DEF PlanInv, ManifestTyped, UsedTyped
    <2> QED
      BY <1>1, <1>2, <1>3, <1>5, <2>1 DEF PlanInv, ManifestTyped, Binds
  <1>7. InOrder /\ Known /\ Named
    BY <1>1 DEF PlanInv, Resolving
  <1>8. \A i \in DOMAIN plan : Wrote(i)' => Wrote(i) \/ plan[i].action # "create"
    BY <1>1, <1>2, <1>3 DEF Wrote, Binds
  <1>9. Known' /\ Named'
    BY <1>1, <1>4, <1>5, <1>7, <1>8, KnowledgeKept, NamesKept
  <1> QED
    BY <1>5, <1>6, <1>7, <1>9 DEF PlanInv, Resolving

\* The entity's own write is behind it: its id is known from now on.
LEMMA WrittenStep ==
    ASSUME PlanInv, pc = "next", at \in DOMAIN plan, NEW id \in Nat, Written(id),
           RowsMove, SamePlan, UNCHANGED <<manifest, role>>, UsedTyped',
           secrets' \in [arrived : SUBSET Nat, reported : SUBSET Nat],
           entity.kind \notin {"policy", "profile"} =>
               \E r \in rows' : r.kind = entity.kind /\ r.id = id /\ r.name = entity.name
    PROVE  PlanInv'
  <1>1. entity \in Entities /\ entity \in ToSet(manifest)
    BY ChangeAt
  <1> DEFINE new == [kind |-> entity.kind, key |-> entity.key, id |-> id]
  <1>2. ids' = {x \in ids : ~(x.kind = entity.kind /\ x.key = entity.key)} \cup {new}
    BY DEF Written, Learn
  <1>3. new \in [kind : DOMAIN Rank, key : Nat, id : Nat]
    BY <1>1 DEF Entities
  <1>4. ids' \subseteq [kind : DOMAIN Rank, key : Nat, id : Nat]
    BY <1>2, <1>3 DEF PlanInv, ManifestTyped
  <1>5. at \in Nat \ {0} /\ at <= Len(plan) /\ plan \in Seq(ChangeType)
    BY DEF PlanInv, ManifestTyped
  <1>6. \/ pc' = "held" /\ at' = at /\ entity.kind \in Subjects
        \/ pc' = "next" /\ at' = Pending(plan, at)
    BY DEF Written, Applied
  <1>7. /\ Pending(plan, at) \in Nat /\ at < Pending(plan, at) /\ Pending(plan, at) <= Len(plan) + 1
        /\ \A i \in DOMAIN plan : at < i /\ i < Pending(plan, at) => plan[i].action = "unchanged"
    BY <1>5, PendingNext
  <1>8. /\ rows' \subseteq Rows /\ IsFiniteSet(rows') /\ Numbered(rows')
        /\ NamedOnce(rows') /\ RowsStay /\ Planned' /\ (InOrder => InOrder')
    BY PlanKept
  <1>9. ManifestTyped'
    <2>1. plan'[at].entity = entity
      BY DEF SamePlan, entity, change
    <2>2. pc' = "next" => at' \in Nat \ {0} /\ at' <= Len(plan') + 1
      BY <1>5, <1>6, <1>7 DEF SamePlan
    <2>3. pc' = "held" =>
            at' \in Nat \ {0} /\ at' <= Len(plan') /\ plan'[at'].entity.kind \in Subjects
      BY <1>5, <1>6, <2>1 DEF SamePlan
    <2> QED
      BY <1>4, <1>6, <1>8, <2>2, <2>3 DEF PlanInv, ManifestTyped, Binds, SamePlan
  <1>10. InOrder /\ Known /\ Named
    BY DEF PlanInv, Resolving
  <1>11. \A i \in DOMAIN plan : Wrote(i)' => Wrote(i) \/ i = at \/ plan[i].action # "create"
    BY <1>5, <1>6, <1>7 DEF Wrote, Binds
  <1> HIDE DEF new
  <1>12. Known'
    <2> SUFFICES ASSUME NEW i \in DOMAIN plan, Wrote(i)' \/ plan[i].action # "create"
                 PROVE  \E x \in ids' : x.kind = plan[i].entity.kind /\ x.key = plan[i].entity.key
      BY DEF Known, SamePlan, Resolved
    <2>1. CASE plan[i].entity.kind = entity.kind /\ plan[i].entity.key = entity.key
      <3>1. new \in ids'
        BY <1>2
      <3>2. new.kind = entity.kind /\ new.key = entity.key
        BY DEF new
      <3> QED
        BY <2>1, <3>1, <3>2
    <2>2. CASE ~(plan[i].entity.kind = entity.kind /\ plan[i].entity.key = entity.key)
      <3>1. i # at
        BY <2>2 DEF entity, change
      <3>2. Resolved(plan[i].entity.kind, plan[i].entity.key) # {}
        BY <1>10, <1>11, <3>1 DEF Known
      <3>3. PICK x \in ids : x.kind = plan[i].entity.kind /\ x.key = plan[i].entity.key
        BY <3>2 DEF Resolved
      <3>4. x \in ids'
        BY <1>2, <2>2, <3>3
      <3> QED
        BY <3>3, <3>4
    <2> QED
      BY <2>1, <2>2
  <1>13. Named'
    <2> SUFFICES ASSUME NEW x \in ids', NEW i \in DOMAIN plan,
                        x.kind = plan[i].entity.kind, x.key = plan[i].entity.key,
                        x.kind \notin {"policy", "profile"}
                 PROVE  \E r \in rows' : r.kind = x.kind /\ r.id = x.id
                                            /\ r.name = plan[i].entity.name
      BY DEF Named, SamePlan, Bears
    <2>1. CASE x = new
      <3>1. x.kind = entity.kind /\ x.key = entity.key /\ x.id = id
        BY <2>1 DEF new
      <3>2. plan[i].entity \in ToSet(manifest)
        BY DEF PlanInv, Planned, PlannedAs, PlannedFrom
      <3>3. plan[i].entity = entity
        BY <1>1, <1>10, <3>1, <3>2, KeyedOnce DEF PlanInv, ManifestTyped, InOrder, Declared
      <3> QED
        BY <3>1, <3>3
    <2>2. CASE x # new
      <3>1. x \in ids
        BY <1>2, <2>2
      <3>2. PICK r \in rows : r.kind = x.kind /\ r.id = x.id /\ r.name = plan[i].entity.name
        BY <1>10, <3>1 DEF Named, Bears
      <3> QED
        BY <1>8, <3>2 DEF RowsStay, Alike
    <2> QED
      BY <2>1, <2>2
  <1> QED
    BY <1>8, <1>9, <1>10, <1>12, <1>13 DEF PlanInv, Resolving

Noted(c, id, s) == [c EXCEPT !.id = id, !.secret = s]

LEMMA ChangeNoted ==
    ASSUME NEW c \in ChangeType, NEW id \in Nat, NEW s \in Nat \cup {None},
           NEW w, w = Noted(c, id, s)
    PROVE  /\ w \in ChangeType /\ w.entity = c.entity /\ w.action = c.action
           /\ w.read = c.read /\ w.secret = s /\ w.id = id
  <1>1. c = [entity |-> c.entity, action |-> c.action, id |-> c.id, read |-> c.read,
             secret |-> c.secret]
    BY DEF ChangeType
  <1>2. w = [entity |-> c.entity, action |-> c.action, id |-> id, read |-> c.read, secret |-> s]
    BY <1>1 DEF Noted
  <1> QED
    BY <1>2 DEF ChangeType

LEMMA SecretNoted ==
    ASSUME PlanInv, at \in DOMAIN plan, change.action = "create", NEW id \in Nat, KeepSecret(id)
    PROVE  /\ SamePlan /\ plan'[at].secret = (IF Secretive THEN id ELSE None)
           /\ plan'[at].id = id
           /\ \A i \in DOMAIN plan : i # at => plan'[i] = plan[i]
           /\ secrets' \in [arrived : SUBSET Nat, reported : SUBSET Nat]
           /\ secrets'.reported = secrets.reported
           /\ secrets'.arrived = IF Secretive THEN secrets.arrived \cup {id} ELSE secrets.arrived
  <1> DEFINE s == IF Secretive THEN id ELSE None
             c == plan[at]
             w == Noted(c, id, s)
  <1>1. plan \in Seq(ChangeType) /\ plan[at] \in ChangeType
    BY DEF PlanInv, ManifestTyped
  <1>2. plan' = [plan EXCEPT ![at] = w]
    BY <1>1 DEF KeepSecret, Noted
  <1>3. /\ w \in ChangeType /\ w.entity = plan[at].entity /\ w.action = plan[at].action
        /\ w.read = plan[at].read /\ w.secret = s /\ w.id = id
    <2>1. s \in Nat \cup {None}
      OBVIOUS
    <2>2. w = Noted(c, id, s) /\ c \in ChangeType
      BY <1>1
    <2> HIDE DEF s, c, w
    <2>3. /\ w \in ChangeType /\ w.entity = c.entity /\ w.action = c.action
          /\ w.read = c.read /\ w.secret = s /\ w.id = id
      BY <2>1, <2>2, ChangeNoted
    <2> QED
      BY <2>3 DEF c
  <1> HIDE DEF w, s
  <1>4. plan' \in Seq(ChangeType) /\ Len(plan') = Len(plan) /\ DOMAIN plan' = DOMAIN plan
    BY <1>1, <1>2, <1>3
  <1>5. plan'[at] = w /\ \A i \in DOMAIN plan : i # at => plan'[i] = plan[i]
    BY <1>1, <1>2
  <1>6. SamePlan
    BY <1>3, <1>4, <1>5 DEF SamePlan, change
  <1>7. secrets' = [arrived |-> IF Secretive THEN secrets.arrived \cup {id} ELSE secrets.arrived,
                    reported |-> secrets.reported]
    BY DEF KeepSecret, PlanInv, ManifestTyped
  <1> QED
    BY <1>3, <1>5, <1>6, <1>7 DEF PlanInv, ManifestTyped, s

(* Every step keeps the plan. *)

LEMMA InPlan ==
    ASSUME PlanInv, pc \in Binds \/ at <= Len(plan)
    PROVE  at \in DOMAIN plan
BY DEF PlanInv, ManifestTyped, Binds

LEMMA UsedKept == PlanInv /\ UNCHANGED used => UsedTyped'
BY DEF PlanInv, ManifestTyped, UsedTyped

LEMMA CreateStep ==
    ASSUME PlanInv, NEW ending \in Endings, Create(ending)
    PROVE  PlanInv'
  <1>1. /\ pc = "next" /\ at <= Len(plan) /\ ~Unresolved /\ change.action = "create" /\ Creatable
        /\ Spend(ending) /\ UNCHANGED <<manifest, role>>
        /\ rows' = IF ending = "refused" THEN rows ELSE rows \cup {Row}
    BY DEF Create
  <1>2. at \in DOMAIN plan /\ UsedTyped' /\ NewId \in Nat
    BY <1>1, InPlan, SpendTyped, NewIdIsNumber
  <1>3. RowsMove
    <2>1. CASE ending = "refused"
      BY <1>1, <2>1 DEF RowsMove
    <2>2. CASE ending # "refused"
      <3>1. rows' = rows \cup {Row}
        BY <1>1, <2>2
      <3>2. Added(Row)
        BY <1>1, <1>2, <3>1, CreateAdds
      <3> QED
        BY <3>2 DEF RowsMove
    <2> QED
      BY <2>1, <2>2
  <1>4. CASE ending = "done"
    <2>1. Written(NewId) /\ KeepSecret(NewId)
      BY <1>4 DEF Create
    <2>2. SamePlan /\ secrets' \in [arrived : SUBSET Nat, reported : SUBSET Nat]
      BY <1>1, <1>2, <2>1, SecretNoted
    <2>3. Row \in rows' /\ Row.kind = entity.kind /\ Row.id = NewId /\ Row.name = entity.name
      BY <1>1, <1>4 DEF Row
    <2> QED
      BY <1>1, <1>2, <1>3, <2>1, <2>2, <2>3, WrittenStep
  <1>5. CASE ending # "done"
    <2>1. Report("failed") /\ UNCHANGED <<plan, at, ids>>
      BY <1>5 DEF Create
    <2> QED
      BY <1>1, <1>2, <1>3, <2>1, StopStep
  <1> QED
    BY <1>4, <1>5

\* The object an update is made to has the entity's name, before and after.
LEMMA UpdatedBears ==
    ASSUME PlanInv, at \in DOMAIN plan, change.action = "update", RowsStay,
           entity.kind \notin {"policy", "profile"}
    PROVE  \E r \in rows' : r.kind = entity.kind /\ r.id = change.id /\ r.name = entity.name
  <1>1. /\ change.read.kind = entity.kind /\ change.read.id = change.id
        /\ change.read.name = entity.name
        /\ \E r \in rows : Alike(r, change.read) /\ r.name = change.read.name
    BY ChangeAt DEF PlannedAs, PlannedFrom, entity
  <1> QED
    BY <1>1 DEF RowsStay, Alike

LEMMA UpdateStep ==
    ASSUME PlanInv, NEW ending \in Endings, Update(ending)
    PROVE  PlanInv'
  <1>1. /\ pc = "next" /\ at <= Len(plan) /\ change.action = "update"
        /\ Spend(ending) /\ UNCHANGED <<manifest, plan, role>>
        /\ rows' = IF ending = "refused" THEN rows ELSE (rows \ {Target}) \cup {Replaced}
    BY DEF Update
  <1>2. at \in DOMAIN plan /\ UsedTyped'
    BY <1>1, InPlan, SpendTyped
  <1>3. RowsMove
    <2>1. CASE ending = "refused"
      BY <1>1, <2>1 DEF RowsMove
    <2>2. CASE ending # "refused"
      <3>1. rows' = (rows \ {Target}) \cup {Replaced}
        BY <1>1, <2>2
      <3>2. Renewed(Target, Replaced)
        BY <1>1, <1>2, <3>1, UpdateRenews
      <3> QED
        BY <3>2 DEF RowsMove
    <2> QED
      BY <2>1, <2>2
  <1>4. SamePlan /\ secrets \in [arrived : SUBSET Nat, reported : SUBSET Nat]
    BY <1>1 DEF PlanInv, ManifestTyped, SamePlan
  <1>5. CASE ending = "done"
    <2>1. Written(change.id) /\ UNCHANGED secrets
      BY <1>5 DEF Update
    <2>2. change.id \in Nat
      BY <1>1, <1>2, TargetIsRow
    <2>3. entity.kind \notin {"policy", "profile"} =>
            \E r \in rows' : r.kind = entity.kind /\ r.id = change.id /\ r.name = entity.name
      BY <1>1, <1>2, <1>3, <1>4, PlanKept, UpdatedBears
    <2> QED
      BY <1>1, <1>2, <1>3, <1>4, <2>1, <2>2, <2>3, WrittenStep
  <1>6. CASE ending # "done"
    <2>1. Report("failed") /\ UNCHANGED <<at, ids>>
      BY <1>6 DEF Update
    <2> QED
      BY <1>1, <1>2, <1>3, <2>1, StopStep
  <1> QED
    BY <1>5, <1>6

LEMMA BindingsOnlyStep == PlanInv /\ BindingsOnly => PlanInv'
  <1> SUFFICES ASSUME PlanInv, BindingsOnly PROVE PlanInv'
    OBVIOUS
  <1>1. /\ pc = "next" /\ at <= Len(plan) /\ change.action = "update" /\ Written(change.id)
        /\ UNCHANGED <<rows, manifest, plan, role, secrets, used>>
    BY DEF BindingsOnly, tenant
  <1>2. at \in DOMAIN plan /\ UsedTyped'
    BY <1>1, InPlan, UsedKept
  <1>3. RowsMove /\ SamePlan /\ secrets' \in [arrived : SUBSET Nat, reported : SUBSET Nat]
    BY <1>1 DEF RowsMove, PlanInv, ManifestTyped, SamePlan
  <1>4. change.id \in Nat
    BY <1>1, <1>2, TargetIsRow
  <1>5. entity.kind \notin {"policy", "profile"} =>
          \E r \in rows' : r.kind = entity.kind /\ r.id = change.id /\ r.name = entity.name
    BY <1>1, <1>2, <1>3, PlanKept, UpdatedBears
  <1> QED
    BY <1>1, <1>2, <1>3, <1>4, <1>5, WrittenStep

LEMMA Stops ==
    ASSUME PlanInv, DependencyMissing \/ Conflict \/ Complete
    PROVE  PlanInv'
  <1>1. /\ UNCHANGED <<rows, manifest, plan, at, ids, role, used>>
        /\ \E how \in {"disordered", "conflict", "complete"} : Report(how)
    BY DEF DependencyMissing, Conflict, Complete, tenant, progress
  <1>2. UsedTyped' /\ RowsMove
    BY <1>1, UsedKept DEF RowsMove
  <1> QED
    BY <1>1, <1>2, StopStep

LEMMA ReportStops ==
    ASSUME PlanInv, Report("failed"), UNCHANGED <<rows, manifest, plan, at, ids, role>>, UsedTyped'
    PROVE  PlanInv'
BY StopStep DEF RowsMove

LEMMA NextBindingQuiet ==
    ASSUME PlanInv, pc \in Binds, NextBinding,
           UNCHANGED <<rows, manifest, plan, at, ids>>, UsedTyped'
    PROVE  PlanInv'
  <1>1. pc' \in Binds /\ role' \in Nat \ {0} /\ UNCHANGED secrets /\ RowsMove
    BY DEF NextBinding, Binds, PlanInv, ManifestTyped, RowsMove
  <1> QED
    BY <1>1, QuietStep

LEMMA BindingSteps ==
    ASSUME PlanInv, NEW ending \in Endings,
           \/ ReadHeld \/ AlreadyBound \/ AssignAbsent(ending)
           \/ Unassign(ending) \/ Rebind(ending) \/ Restore(ending)
    PROVE  PlanInv'
  <1>1. CASE ReadHeld
    <2>1. /\ pc \in Binds /\ pc' \in Binds /\ role' \in Nat \ {0} /\ RowsMove
          /\ UNCHANGED <<manifest, plan, at, ids, secrets, used>>
      BY <1>1 DEF ReadHeld, Binds, tenant, RowsMove
    <2> QED
      BY <2>1, QuietStep, UsedKept
  <1>2. CASE AlreadyBound
    <2>1. /\ pc \in Binds /\ pc' = pc /\ role' \in Nat \ {0} /\ RowsMove
          /\ UNCHANGED <<manifest, plan, at, ids, secrets, used>>
      BY <1>2 DEF AlreadyBound, Binds, tenant, RowsMove, PlanInv, ManifestTyped
    <2> QED
      BY <2>1, QuietStep, UsedKept
  <1>3. CASE AssignAbsent(ending)
    <2>1. /\ pc \in Binds
          /\ Assign(Wanted(None), ending, NextBinding, Report("failed") /\ UNCHANGED role)
      BY <1>3 DEF AssignAbsent, Binds
    <2>2. /\ NextBinding \/ (Report("failed") /\ UNCHANGED role)
          /\ UNCHANGED <<rows, manifest, plan, at, ids>> /\ UsedTyped'
      BY <2>1, SpendTyped, UsedKept DEF Assign
    <2> QED
      BY <2>1, <2>2, NextBindingQuiet, ReportStops
  <1>4. CASE Unassign(ending)
    <2>1. /\ pc \in Binds /\ UNCHANGED <<rows, manifest, plan, at, ids, role>> /\ UsedTyped'
          /\ (pc' = "rebinding" /\ UNCHANGED secrets) \/ Report("failed")
      BY <1>4, SpendTyped DEF Unassign, Binds, progress
    <2>2. role' \in Nat \ {0} /\ RowsMove
      BY <2>1 DEF PlanInv, ManifestTyped, RowsMove
    <2>3. CASE pc' = "rebinding" /\ UNCHANGED secrets
      BY <2>1, <2>2, <2>3, QuietStep DEF Binds
    <2> QED
      BY <2>1, <2>3, ReportStops
  <1>5. CASE Rebind(ending)
    <2>1. /\ pc \in Binds
          /\ Assign(Wanted(Old.scope), ending, NextBinding,
                    pc' = "restoring" /\ UNCHANGED <<role, status, secrets, accused>>)
      BY <1>5 DEF Rebind, Binds
    <2>2. /\ NextBinding \/ (pc' = "restoring" /\ UNCHANGED <<role, status, secrets, accused>>)
          /\ UNCHANGED <<rows, manifest, plan, at, ids>> /\ UsedTyped'
      BY <2>1, SpendTyped, UsedKept DEF Assign
    <2>3. CASE pc' = "restoring" /\ UNCHANGED <<role, status, secrets, accused>>
      <3>1. pc' \in Binds /\ role' \in Nat \ {0} /\ RowsMove /\ UNCHANGED secrets
        BY <2>2, <2>3 DEF Binds, PlanInv, ManifestTyped, RowsMove
      <3> QED
        BY <2>1, <2>2, <3>1, QuietStep
    <2> QED
      BY <2>1, <2>2, <2>3, NextBindingQuiet
  <1>6. CASE Restore(ending)
    <2>1. Assign(Old, ending, Report("failed") /\ UNCHANGED role,
                 Report("failed") /\ UNCHANGED role)
      BY <1>6 DEF Restore
    <2>2. /\ Report("failed") /\ UNCHANGED role
          /\ UNCHANGED <<rows, manifest, plan, at, ids>> /\ UsedTyped'
      BY <2>1, SpendTyped, UsedKept DEF Assign
    <2> QED
      BY <2>2, ReportStops
  <1> QED
    BY <1>1, <1>2, <1>3, <1>4, <1>5, <1>6

\* Somebody else's edit leaves a newer segment.
Edited(r) == [r EXCEPT !.version = @ + 1, !.extra = "theirs"]

LEMMA RowEdited ==
    ASSUME NEW r \in Rows, NEW w, w = Edited(r)
    PROVE  /\ w \in Rows /\ w.kind = r.kind /\ w.id = r.id /\ w.name = r.name
           /\ w.version = r.version + 1
  <1>1. r = [kind |-> r.kind, name |-> r.name, id |-> r.id, version |-> r.version,
             text |-> r.text, extra |-> r.extra]
    BY DEF Rows
  <1>2. w = [kind |-> r.kind, name |-> r.name, id |-> r.id, version |-> r.version + 1,
             text |-> r.text, extra |-> "theirs"]
    BY <1>1 DEF Edited
  <1>3. /\ r.kind \in DOMAIN Rank /\ r.name \in STRING /\ r.id \in Nat /\ r.version + 1 \in Nat
        /\ r.text \in Texts \cup {None}
    BY DEF Rows
  <1>4. "theirs" \in Texts \cup {None}
    BY WorldAssumption
  <1> QED
    BY <1>2, <1>3, <1>4 DEF Rows

LEMMA EditUsed == PlanInv /\ EditElsewhere => UsedTyped' /\ used'.edits # used.edits
  <1> SUFFICES ASSUME PlanInv, EditElsewhere PROVE UsedTyped' /\ used'.edits # used.edits
    OBVIOUS
  <1>1. used' = [used EXCEPT !.edits = @ + 1, !.calm = FALSE]
    BY DEF EditElsewhere
  <1>2. UsedTyped
    BY DEF PlanInv, ManifestTyped
  <1>3. used' = [runs |-> used.runs, faults |-> used.faults, edits |-> used.edits + 1,
                 calm |-> FALSE]
    BY <1>1, <1>2 DEF UsedTyped
  <1> QED
    BY <1>2, <1>3 DEF UsedTyped

LEMMA EditRenews ==
    ASSUME PlanInv, EditElsewhere
    PROVE  /\ RowsMove /\ UsedTyped' /\ used'.edits # used.edits
           /\ \E t, u : t.kind = "segment" /\ Renewed(t, u)
  <1>1. PICK t \in rows : t.kind = "segment" /\ rows' = (rows \ {t}) \cup {Edited(t)}
    BY DEF EditElsewhere, Edited
  <1>2. t \in Rows
    BY DEF PlanInv, ManifestTyped
  <1> DEFINE u == Edited(t)
  <1>3. u = Edited(t)
    OBVIOUS
  <1> HIDE DEF u
  <1>4. /\ u \in Rows /\ u.kind = t.kind /\ u.id = t.id /\ u.name = t.name
        /\ u.version = t.version + 1
    BY <1>2, <1>3, RowEdited
  <1>5. Renewed(t, u)
    BY <1>1, <1>3, <1>4 DEF Renewed
  <1> QED
    BY <1>1, <1>5, EditUsed DEF RowsMove

LEMMA EditStep == PlanInv /\ EditElsewhere => PlanInv'
  <1> SUFFICES ASSUME PlanInv, EditElsewhere PROVE PlanInv'
    OBVIOUS
  <1>1. pc' = pc /\ UNCHANGED <<manifest, plan, at, ids, role, secrets>>
    BY DEF EditElsewhere, progress
  <1>2. role' \in Nat \ {0}
    BY <1>1 DEF PlanInv, ManifestTyped
  <1> QED
    BY <1>1, <1>2, EditRenews, QuietStep

LEMMA PlanInit == ManifestInit => PlanInv
  <1> SUFFICES ASSUME ManifestInit PROVE PlanInv
    OBVIOUS
  <1>1. PICK w \in Worlds : manifest = w.manifest /\ rows = w.rows
    BY DEF ManifestInit
  <1>2. /\ rows \subseteq Rows /\ IsFiniteSet(rows) /\ manifest \in Seq(Entities)
        /\ Numbered(rows) /\ NamedOnce(rows)
    BY <1>1, WorldAssumption
  <1>3. /\ pc = "idle" /\ plan = <<>> /\ at = 1 /\ ids = {} /\ role = 1
        /\ secrets = [arrived |-> {}, reported |-> {}]
        /\ used = [runs |-> 0, faults |-> 0, edits |-> 0, calm |-> TRUE]
    BY DEF ManifestInit
  <1>4. ManifestTyped
    BY <1>2, <1>3 DEF ManifestTyped, UsedTyped, Binds
  <1>5. Planned
    BY <1>3 DEF Planned
  <1> QED
    BY <1>2, <1>3, <1>4, <1>5 DEF PlanInv, Resolving

LEMMA PlanStutter == PlanInv /\ UNCHANGED manifestVars => PlanInv'
  <1> SUFFICES ASSUME PlanInv, UNCHANGED manifestVars PROVE PlanInv'
    OBVIOUS
  <1>1. UNCHANGED <<rows, manifest, pc, plan, at, ids, role, secrets, used>>
    BY DEF manifestVars
  <1>2. role' \in Nat \ {0} /\ RowsMove
    BY <1>1 DEF PlanInv, ManifestTyped, RowsMove
  <1> QED
    BY <1>1, <1>2, QuietStep, UsedKept

LEMMA PlanInvSteps == PlanInv /\ [ManifestNext]_manifestVars => PlanInv'
  <1> SUFFICES ASSUME PlanInv, [ManifestNext]_manifestVars PROVE PlanInv'
    OBVIOUS
  <1>1. CASE Apply
    BY <1>1, PlanStep, Stops, BindingsOnlyStep, BoundStep, CreateStep, UpdateStep, BindingSteps
       DEF Apply, Endings
  <1> QED
    BY <1>1, EditStep, PlanStutter DEF ManifestNext, ManifestDone

LEMMA PlanAlways == ManifestSpec => []PlanInv
  <1> QED
    BY PlanInit, PlanInvSteps, PTL DEF ManifestSpec

(* What a write leaves as it was. *)

Survives(r) ==
    \E q \in rows' :
        /\ q.kind = r.kind /\ q.id = r.id
        /\ \/ q = r
           \/ \E e \in ToSet(manifest) :
                 /\ e.kind = r.kind /\ (e.name = r.name \/ e.kind \in {"policy", "profile"})
                 /\ e.text = None => q.text = r.text
                 /\ e.extra = None => q.extra = r.extra

LEMMA TargetSurvives ==
    ASSUME PlanInv, at \in DOMAIN plan, change.action = "update", Replaceable,
           rows' = (rows \ {Target}) \cup {Replaced}
    PROVE  Survives(Target)
  <1>1. /\ Target \in Rows /\ Target \in rows /\ change.read \in Rows
        /\ entity \in Entities /\ entity \in ToSet(manifest) /\ Alike(Target, change.read)
    BY TargetIsRow, ChangeAt DEF PlanInv, ManifestTyped
  <1>2. /\ change.read.kind = entity.kind
        /\ entity.kind \notin {"policy", "profile"} => change.read.name = entity.name
        /\ Target.name = change.read.name
        /\ Target.version > change.read.version \/ Target = change.read
    BY <1>1, ChangeAt DEF PlannedAs, PlannedFrom, entity
  <1>3. entity.kind \in Network => Target = change.read
    BY <1>1, <1>2 DEF Replaceable, Rows
  <1> DEFINE t == Target
             w == Replaced
             a == IF entity.text = None THEN t.text ELSE entity.text
             b == IF entity.kind \in Network THEN Carried(entity, change.read) ELSE t.extra
  <1>4. t \in Rows /\ w = Newer(t, a, b)
    BY <1>1 DEF Replaced, Newer
  <1>5. a \in Texts \cup {None} /\ b \in Texts \cup {None}
    BY <1>1 DEF Rows, Entities, Carried
  <1>6. (entity.text = None => a = t.text) /\ (entity.extra = None => b = t.extra)
    BY <1>3 DEF Carried
  <1>7. t = Target /\ w = Replaced
    OBVIOUS
  <1> HIDE DEF t, w, a, b
  <1>8. w.kind = t.kind /\ w.id = t.id /\ w.text = a /\ w.extra = b
    BY <1>4, <1>5, RowUpdated
  <1>9. /\ entity.kind = t.kind /\ (entity.name = t.name \/ entity.kind \in {"policy", "profile"})
        /\ w \in rows'
    BY <1>1, <1>2, <1>7 DEF Alike
  <1> QED
    BY <1>1, <1>6, <1>7, <1>8, <1>9 DEF Survives

LEMMA UnstatedStep ==
    ASSUME PlanInv, ManifestNext, used'.edits = used.edits
    PROVE  \A r \in rows : Survives(r)
  <1>1. CASE rows \subseteq rows'
    BY <1>1 DEF Survives
  <1>2. ASSUME NEW ending, Update(ending)
        PROVE  \A r \in rows : Survives(r)
    <2>1. CASE ending = "refused"
      BY <1>1, <1>2, <2>1 DEF Update
    <2>2. CASE ending # "refused"
      <3>1. /\ change.action = "update" /\ Replaceable /\ at <= Len(plan)
            /\ rows' = (rows \ {Target}) \cup {Replaced}
        BY <1>2, <2>2 DEF Update
      <3>2. Survives(Target)
        BY <3>1, InPlan, TargetSurvives
      <3>3. \A r \in rows \ {Target} : Survives(r)
        BY <3>1 DEF Survives
      <3> QED
        BY <3>2, <3>3
    <2> QED
      BY <2>1, <2>2
  <1>3. \/ EditElsewhere \/ (\E ending : Update(ending)) \/ rows \subseteq rows'
    BY DEF ManifestNext, ManifestDone, manifestVars, Apply, tenant, Plan, DependencyMissing,
           BindingsOnly, Conflict, Complete, ReadHeld, Bound, AlreadyBound, Create, AssignAbsent,
           Unassign, Rebind, Restore, Assign
  <1> QED
    BY <1>1, <1>2, <1>3, EditUsed

\* What the manifest does not state keeps the tenant's value: a partial update
\* names the stated members only, and a full replacement carries the rest from the
\* row that was planned from, whose version the tenant compares.
THEOREM UnstatedIsKept == ManifestSpec => UnstatedSurvives
  <1>1. PlanInv /\ [ManifestNext]_manifestVars =>
          [used'.edits = used.edits => \A r \in rows : Survives(r)]_manifestVars
    BY UnstatedStep
  <1> QED
    BY <1>1, PlanAlways, PTL DEF ManifestSpec, UnstatedSurvives, Survives

(* The one-time secrets. *)

LEMMA FreshPlan ==
    ASSUME PlanInv, Plan, pc' # "idle"
    PROVE  /\ \A i \in DOMAIN plan' : plan'[i].secret = None
           /\ pc = "idle" /\ pc' = "next" /\ UNCHANGED secrets
  <1>1. PICK order \in Bijection(DOMAIN manifest, DOMAIN manifest) :
            Ordered(order) /\ plan' = Changes(order)
    BY DEF Plan
  <1> DEFINE D == DOMAIN manifest
  <1>2. order \in [D -> D]
    BY <1>1 DEF Bijection, Injection
  <1>3. plan' = [k \in D |-> Change(manifest[order[k]])]
    BY <1>1 DEF Changes
  <1>4. \A k \in D : manifest[order[k]] \in ToSet(manifest)
    BY <1>2 DEF ToSet
  <1>5. \A k \in D : Change(manifest[order[k]]).secret = None
    BY <1>4, ChangePlanned DEF PlanInv, ManifestTyped
  <1> QED
    BY <1>3, <1>5 DEF Plan

\* The next change is further on, and what lies between needed no write.
LEMMA AppliedMoves ==
    ASSUME PlanInv, Applied, at \in DOMAIN plan
    PROVE  at' \in Nat /\ at < at' /\ pc' = "next"
  <1>1. at \in Nat /\ at <= Len(plan) /\ plan \in Seq(ChangeType)
    BY DEF PlanInv, ManifestTyped
  <1> QED
    BY <1>1, PendingNext DEF Applied

\* A step that notes no secret, and goes no further than the plan's next change.
LEMMA SecretsStay ==
    ASSUME PlanInv, SecretsKept, pc # "idle", pc' # "idle", UNCHANGED <<plan, secrets>>,
           at' \in Nat,
           \/ at' = at /\ (pc \in Binds => pc' \in Binds)
           \/ at < at' /\ pc' = "next"
           \/ at' = at /\ pc = "next"
    PROVE  SecretsKept'
  <1>1. plan \in Seq(ChangeType) /\ at \in Nat \ {0}
    BY DEF PlanInv, ManifestTyped
  <1>2. \A i \in DOMAIN plan : ~Wrote(i) => plan[i].secret = None
    BY DEF SecretsKept
  <1>3. \A i \in DOMAIN plan : i > at => ~Wrote(i)
    BY <1>1 DEF Wrote
  <1>4. \A i \in DOMAIN plan : i \in 1 .. at' => i \in 1 .. at \/ plan[i].secret = None
    BY <1>1, <1>2, <1>3
  <1>5. \A i \in DOMAIN plan : i \in 1 .. at => i \in 1 .. at'
    BY <1>1
  <1>6. Reported' = Reported
    BY <1>4, <1>5 DEF Reported
  <1>7. \A i \in DOMAIN plan : ~Wrote(i)' => ~Wrote(i)
    BY <1>1 DEF Wrote, Binds
  <1> QED
    BY <1>2, <1>6, <1>7 DEF SecretsKept

LEMMA SecretsReported ==
    ASSUME PlanInv, SecretsKept, pc # "idle", NEW how, Report(how)
    PROVE  SecretsKept'
  <1>1. pc' = "idle" /\ secrets'.arrived = secrets.arrived
        /\ secrets'.reported = secrets.reported \cup Reported
    BY ReportKeeps
  <1> QED
    BY <1>1 DEF SecretsKept

LEMMA SecretArrives ==
    ASSUME PlanInv, SecretsKept, pc = "next", at \in DOMAIN plan, change.action = "create",
           NEW id \in Nat, Written(id), KeepSecret(id)
    PROVE  SecretsKept'
  <1>1. plan \in Seq(ChangeType) /\ at \in Nat \ {0} /\ None \notin Nat
    BY WorldAssumption DEF PlanInv, ManifestTyped
  <1> DEFINE s == IF Secretive THEN id ELSE None
  <1>2. /\ DOMAIN plan' = DOMAIN plan /\ plan'[at].secret = s
        /\ \A i \in DOMAIN plan : i # at => plan'[i] = plan[i]
        /\ secrets'.reported = secrets.reported
        /\ secrets'.arrived = IF Secretive THEN secrets.arrived \cup {id} ELSE secrets.arrived
    BY SecretNoted DEF SamePlan
  <1>3. secrets'.arrived = secrets.arrived \cup ({s} \ {None})
    BY <1>1, <1>2
  <1> HIDE DEF s
  <1>4. /\ secrets.arrived = secrets.reported \cup Reported
        /\ \A i \in DOMAIN plan : ~Wrote(i) => plan[i].secret = None
    BY DEF SecretsKept
  <1>5. \/ pc' = "held" /\ at' = at
        \/ at' \in Nat /\ at < at' /\ pc' = "next"
    BY AppliedMoves DEF Written
  <1>6. \A i \in DOMAIN plan : i >= at => plan[i].secret = None
    BY <1>1, <1>4 DEF Wrote, Binds
  <1>7. Reported' = Reported \cup ({s} \ {None})
    <2>1. \A x \in Reported' : x \in Reported \cup ({s} \ {None})
      BY <1>1, <1>2, <1>5, <1>6 DEF Reported
    <2>2. \A x \in Reported : x \in Reported'
      BY <1>1, <1>2, <1>5, <1>6 DEF Reported
    <2>3. \A x \in {s} \ {None} : x \in Reported'
      BY <1>1, <1>2, <1>5 DEF Reported
    <2> QED
      BY <2>1, <2>2, <2>3
  <1>8. \A i \in DOMAIN plan' : ~Wrote(i)' => plan'[i].secret = None
    BY <1>1, <1>2, <1>5, <1>6 DEF Wrote, Binds
  <1>9. pc' # "idle"
    BY <1>5
  <1> QED
    BY <1>2, <1>3, <1>4, <1>7, <1>8, <1>9 DEF SecretsKept

LEMMA SecretsStep ==
    ASSUME PlanInv, SecretsKept, ManifestNext
    PROVE  SecretsKept'
  <1>1. CASE Plan
    <2>1. CASE pc' = "idle"
      <3>1. UNCHANGED secrets /\ pc = "idle"
        BY <1>1 DEF Plan
      <3> QED
        BY <2>1, <3>1 DEF SecretsKept
    <2>2. CASE pc' # "idle"
      <3>1. /\ \A i \in DOMAIN plan' : plan'[i].secret = None
            /\ pc = "idle" /\ UNCHANGED secrets
        BY <1>1, <2>2, FreshPlan
      <3>2. Reported' = {}
        BY <3>1 DEF Reported
      <3> QED
        BY <2>2, <3>1, <3>2 DEF SecretsKept
    <2> QED
      BY <2>1, <2>2
  <1>2. CASE DependencyMissing \/ Conflict \/ Complete
    <2>1. pc # "idle" /\ \E how \in {"disordered", "conflict", "complete"} : Report(how)
      BY <1>2 DEF DependencyMissing, Conflict, Complete
    <2> QED
      BY <2>1, SecretsReported
  <1>3. ASSUME NEW ending, Create(ending) PROVE SecretsKept'
    <2>1. pc = "next" /\ ~Unresolved /\ at \in DOMAIN plan /\ change.action = "create"
      BY <1>3, InPlan DEF Create
    <2>2. CASE ending = "done"
      <3>1. Written(NewId) /\ KeepSecret(NewId) /\ NewId \in Nat
        BY <1>3, <2>1, <2>2, NewIdIsNumber DEF Create
      <3> QED
        BY <2>1, <3>1, SecretArrives
    <2>3. CASE ending # "done"
      <3>1. Report("failed")
        BY <1>3, <2>3 DEF Create
      <3> QED
        BY <2>1, <3>1, SecretsReported
    <2> QED
      BY <2>2, <2>3
  <1>4. ASSUME NEW ending, Update(ending) \/ BindingsOnly PROVE SecretsKept'
    <2>1. pc = "next" /\ at \in DOMAIN plan /\ UNCHANGED plan
      BY <1>4, InPlan DEF Update, BindingsOnly
    <2>2. (Written(change.id) /\ UNCHANGED secrets) \/ Report("failed")
      BY <1>4 DEF Update, BindingsOnly
    <2>3. CASE Written(change.id) /\ UNCHANGED secrets
      <3>1. \/ pc' = "held" /\ at' = at
            \/ at' \in Nat /\ at < at' /\ pc' = "next"
        BY <2>1, <2>3, AppliedMoves DEF Written
      <3>2. at \in Nat
        BY DEF PlanInv, ManifestTyped
      <3> QED
        BY <2>1, <2>3, <3>1, <3>2, SecretsStay
    <2> QED
      BY <2>1, <2>2, <2>3, SecretsReported
  <1>5. CASE Bound
    <2>1. pc # "idle" /\ UNCHANGED <<plan, secrets>> /\ Applied /\ pc \in Binds
      BY <1>5 DEF Bound, Binds
    <2>2. at' \in Nat /\ at < at' /\ pc' = "next"
      BY <2>1, InPlan, AppliedMoves
    <2> QED
      BY <2>1, <2>2, SecretsStay
  <1>6. ASSUME NEW ending, \/ ReadHeld \/ AlreadyBound \/ AssignAbsent(ending)
                           \/ Unassign(ending) \/ Rebind(ending) \/ Restore(ending)
        PROVE  SecretsKept'
    <2>1. /\ pc \in Binds /\ pc # "idle" /\ UNCHANGED <<plan, at>>
          /\ (pc' \in Binds /\ UNCHANGED secrets) \/ Report("failed")
      <3>1. CASE ReadHeld \/ AlreadyBound
        BY <3>1 DEF ReadHeld, AlreadyBound, Binds
      <3>2. CASE AssignAbsent(ending)
        BY <3>2 DEF AssignAbsent, Assign, NextBinding, Binds
      <3>3. CASE Unassign(ending)
        BY <3>3 DEF Unassign, progress, Binds
      <3>4. CASE Rebind(ending)
        BY <3>4 DEF Rebind, Assign, NextBinding, Binds
      <3>5. CASE Restore(ending)
        BY <3>5 DEF Restore, Assign, Binds
      <3> QED
        BY <1>6, <3>1, <3>2, <3>3, <3>4, <3>5
    <2>2. at' \in Nat
      BY <2>1 DEF PlanInv, ManifestTyped
    <2>3. CASE pc' \in Binds /\ UNCHANGED secrets
      BY <2>1, <2>2, <2>3, SecretsStay DEF Binds
    <2> QED
      BY <2>1, <2>3, SecretsReported
  <1>7. CASE EditElsewhere \/ ManifestDone
    <2>1. UNCHANGED <<pc, plan, at, secrets>>
      BY <1>7 DEF EditElsewhere, ManifestDone, manifestVars, progress
    <2> QED
      BY <2>1 DEF SecretsKept, Reported, Wrote
  <1> QED
    BY <1>1, <1>2, <1>3, <1>4, <1>5, <1>6, <1>7 DEF ManifestNext, Apply

\* A secret is on its change from the moment it arrives, and the report of an
\* apply, failed or not, has every change up to the last one tried.
THEOREM SecretsReachTheReport == ManifestSpec => []SecretsAreReported
  <1>1. ManifestInit => SecretsKept
    BY DEF ManifestInit, SecretsKept
  <1>2. PlanInv /\ SecretsKept /\ [ManifestNext]_manifestVars => SecretsKept'
    <2>1. PlanInv /\ SecretsKept /\ UNCHANGED manifestVars => SecretsKept'
      BY DEF manifestVars, SecretsKept, Reported, Wrote
    <2> QED
      BY <2>1, SecretsStep
  <1>3. SecretsKept => SecretsAreReported
    BY DEF SecretsKept, SecretsAreReported
  <1> QED
    BY <1>1, <1>2, <1>3, PlanAlways, PTL DEF ManifestSpec

(* The bindings. *)

BindInv == HeldOnce(bindings) /\ HeldKnown /\ LapsedKnown

Reconciling == {"binding", "rebinding", "restoring"}

LEMMA SubjectNamed ==
    ASSUME PlanInv, pc \in Binds
    PROVE  \E r \in rows : r.kind \in Subjects /\ r.id = subject /\ r.name = entity.name
  <1>1. at \in DOMAIN plan /\ entity = plan[at].entity /\ entity.kind \in Subjects
    BY InPlan DEF PlanInv, ManifestTyped, entity, change
  <1>2. Known /\ Named
    BY DEF PlanInv, Resolving, Binds
  <1>3. Resolved(entity.kind, entity.key) # {}
    BY <1>1, <1>2 DEF Known, Wrote
  <1>4. subject \in Resolved(entity.kind, entity.key)
    BY <1>3 DEF subject
  <1>5. PICK x \in ids : x.kind = entity.kind /\ x.key = entity.key /\ x.id = subject
    BY <1>4 DEF Resolved
  <1>6. Bears(x.kind, x.id, entity.name)
    BY <1>1, <1>2, <1>5 DEF Named, Subjects
  <1> QED
    BY <1>1, <1>5, <1>6 DEF Bears

LEMMA OldIsHeld ==
    ASSUME Current(held, declared) # {}
    PROVE  /\ Old \in held
           /\ \E r \in rows : r.kind = "role" /\ r.id = Old.role /\ r.name = RoleName(declared)
  <1>1. Old \in Current(held, declared)
    BY DEF Old
  <1> QED
    BY <1>1 DEF Current

\* The role of the binding to be written is that of the binding it replaces: the
\* declared role was resolved before its subject's turn, to the one role of its name.
LEMMA RoleIsOld ==
    ASSUME PlanInv, pc \in Binds, role <= Len(entity.roles), Current(held, declared) # {},
           NEW scope
    PROVE  Wanted(scope).role = Old.role
  <1>1. /\ at \in DOMAIN plan /\ entity = plan[at].entity /\ entity.kind \in Subjects
        /\ entity \in Entities /\ entity \in ToSet(manifest)
    BY InPlan, ChangeAt DEF PlanInv, ManifestTyped, entity, change
  <1>2. InOrder /\ Known /\ Named /\ manifest \in Seq(Entities) /\ role \in Nat \ {0}
    BY DEF PlanInv, Resolving, Binds, ManifestTyped
  <1>3. role \in DOMAIN entity.roles
    BY <1>1, <1>2 DEF Entities
  <1>4. PICK m \in DOMAIN manifest : entity = manifest[m]
    BY <1>1 DEF ToSet
  <1> DEFINE j == FindOfKind("role", declared.role)
  <1>5. j # 0
    <2>1. declared \in ToSet(entity.roles)
      BY <1>3 DEF declared, ToSet
    <2> QED
      BY <1>1, <1>2, <2>1 DEF InOrder, Declared, RolesDeclared
  <1>6. j \in DOMAIN manifest /\ manifest[j].kind = "role" /\ manifest[j].key = declared.role
    BY <1>2, <1>5, Finding
  <1>7. RoleName(declared) = manifest[j].name
    BY DEF RoleName
  <1> HIDE DEF j
  <1>8. PICK i \in DOMAIN plan : plan[i].entity = manifest[j]
    BY <1>2, <1>6 DEF InOrder, ToSet
  <1>9. i < at
    <2>1. Rank["role"] = 2 /\ Rank["group"] = 3 /\ Rank["service_account"] = 4
      BY DEF Rank
    <2>2. Rank[plan[i].entity.kind] < Rank[plan[at].entity.kind]
      BY <1>1, <1>6, <1>8, <2>1 DEF Subjects
    <2> QED
      BY <1>1, <1>2, <2>2 DEF InOrder
  <1>10. Resolved("role", declared.role) # {}
    BY <1>2, <1>6, <1>8, <1>9 DEF Known, Wrote
  <1>11. PICK r \in rows : r.kind = "role" /\ r.id = Old.role /\ r.name = manifest[j].name
    BY <1>7, OldIsHeld
  <1>12. \A id \in Resolved("role", declared.role) : id = Old.role
    <2> TAKE id \in Resolved("role", declared.role)
    <2>1. PICK x \in ids : x.kind = "role" /\ x.key = declared.role /\ x.id = id
      BY DEF Resolved
    <2>2. Bears("role", id, manifest[j].name)
      BY <1>2, <1>6, <1>8, <2>1 DEF Named
    <2>3. PICK q \in rows : q.kind = "role" /\ q.id = id /\ q.name = manifest[j].name
      BY <2>2 DEF Bears
    <2>4. q = r
      BY <1>11, <2>3 DEF PlanInv, NamedOnce
    <2> QED
      BY <1>11, <2>3, <2>4
  <1>13. (CHOOSE id \in Resolved("role", declared.role) : TRUE) = Old.role
    BY <1>10, <1>12
  <1> QED
    BY <1>13 DEF Wanted

\* Whom apply() is at, and what it replaces, as long as no role's object changes.
RoleRows == {r \in rows : r.kind = "role"}

LEMMA OldKept ==
    ASSUME UNCHANGED <<manifest, plan, at, ids, held, role>>, RoleRows' = RoleRows
    PROVE  /\ entity' = entity /\ subject' = subject /\ declared' = declared
           /\ Current(held, declared)' = Current(held, declared) /\ Old' = Old
  <1>1. entity' = entity /\ declared' = declared
    BY DEF entity, change, declared
  <1>2. subject' = subject
    BY <1>1 DEF subject, Resolved
  <1> DEFINE j == FindOfKind("role", declared.role)
  <1>3. FindOfKind("role", declared.role)' = j
    BY <1>1 DEF FindOfKind, SelectInSeq
  <1>4. RoleName(declared)' = RoleName(declared)
    BY <1>3 DEF RoleName
  <1>5. Current(held, declared) =
          {x \in held : \E r \in RoleRows : r.id = x.role /\ r.name = RoleName(declared)}
    BY DEF Current, RoleRows
  <1>6. Current(held, declared)' =
          {x \in held' : \E r \in RoleRows' : r.id = x.role /\ r.name = RoleName(declared)'}
    BY DEF Current, RoleRows
  <1>7. Current(held, declared)' = Current(held, declared)
    BY <1>4, <1>5, <1>6
  <1>8. Old' = Old
    BY <1>7 DEF Old
  <1> QED
    BY <1>1, <1>2, <1>7, <1>8

LEMMA AccusedStays ==
    ASSUME RowsStay, accused \subseteq accused', NEW id, Accused(id)
    PROVE  Accused(id)'
BY DEF Accused, RowsStay, Alike

LEMMA ReportAccuses ==
    ASSUME NEW how, Report(how)
    PROVE  accused \subseteq accused' /\ (how # "complete" => entity.name \in accused')
BY DEF Report

\* Nothing is being replaced, and no binding moves.
LEMMA BindingsRest ==
    ASSUME BindInv, ~Rebinding, pc' \notin Reconciling, RowsStay, accused \subseteq accused',
           UNCHANGED <<bindings, lapsed>>
    PROVE  BindInv'
  <1>1. HeldOnce(bindings') /\ HeldKnown'
    BY DEF BindInv, HeldOnce, HeldKnown, Rebinding, Reconciling
  <1>2. LapsedKnown'
    <2> SUFFICES ASSUME NEW y \in lapsed
                 PROVE  \/ Accused(y.subject)'
                        \/ \E x \in bindings : x.subject = y.subject /\ x.role = y.role
                                                 /\ x.scope = y.scope
      BY DEF LapsedKnown
    <2>1. \/ Accused(y.subject)
          \/ \E x \in bindings : x.subject = y.subject /\ x.role = y.role /\ x.scope = y.scope
      BY DEF BindInv, LapsedKnown
    <2> QED
      BY <2>1, AccusedStays
  <1> QED
    BY <1>1, <1>2 DEF BindInv

\* Whatever becomes of the subject's bindings, an apply that ends names it, and
\* what it had taken away is accounted for.
LEMMA AccountedFor ==
    ASSUME PlanInv, BindInv, pc \in Reconciling, Report("failed"), UNCHANGED rows,
           HeldOnce(bindings'),
           \A y \in lapsed' : y \in lapsed \/ y.subject = subject,
           \A x \in bindings : x \in bindings' \/ x.subject = subject,
           Rebinding => Old.subject = subject
    PROVE  BindInv'
  <1>1. pc' = "idle" /\ accused \subseteq accused' /\ entity.name \in accused'
    BY ReportAccuses DEF Report
  <1>4. HeldKnown'
    BY <1>1 DEF HeldKnown, Rebinding
  <1>5. LapsedKnown'
    <2> DEFINE id == subject
    <2>0. \E r \in rows' : r.kind \in Subjects /\ r.id = id /\ r.name \in accused'
      BY <1>1, SubjectNamed DEF Reconciling, Binds
    <2> SUFFICES ASSUME NEW y \in lapsed'
                 PROVE  \/ \E r \in rows' : r.kind \in Subjects /\ r.id = y.subject
                                                  /\ r.name \in accused'
                        \/ \E x \in bindings' : x.subject = y.subject /\ x.role = y.role
                                                  /\ x.scope = y.scope
      BY DEF LapsedKnown, Accused
    <2>1. CASE y.subject = id
      BY <2>0, <2>1
    <2>2. CASE y.subject # id
      <3>1. y \in lapsed /\ ~(Rebinding /\ y.subject = Old.subject)
        BY <2>2
      <3>2. \/ Accused(y.subject)
            \/ \E x \in bindings : x.subject = y.subject /\ x.role = y.role /\ x.scope = y.scope
        BY <3>1 DEF BindInv, LapsedKnown
      <3>3. CASE Accused(y.subject)
        BY <1>1, <3>3 DEF Accused
      <3>4. ASSUME NEW x \in bindings, x.subject = y.subject, x.role = y.role, x.scope = y.scope
            PROVE  x \in bindings'
        BY <2>2, <3>4
      <3> QED
        BY <3>2, <3>3, <3>4
    <2> QED
      BY <2>1, <2>2
  <1> QED
    BY <1>4, <1>5 DEF BindInv

LEMMA OnceMore ==
    ASSUME HeldOnce(bindings), NEW x, Assignable(x), NEW w, w = bindings \/ w = bindings \cup {x}
    PROVE  HeldOnce(w)
BY DEF HeldOnce, Assignable

LEMMA HeldSubject ==
    ASSUME BindInv, pc \in Reconciling, Current(held, declared) # {}
    PROVE  Old \in held /\ Old.subject = subject /\ Old \in bindings \cup lapsed
BY OldIsHeld DEF BindInv, HeldKnown, Reconciling

LEMMA BindingsUntouched ==
    ASSUME PlanInv, BindInv, NEW ending \in Endings,
           \/ Plan \/ DependencyMissing \/ BindingsOnly \/ Conflict \/ Complete \/ Bound
           \/ Create(ending) \/ Update(ending)
    PROVE  BindInv'
  <1>1. RowsStay
    <2>1. CASE UNCHANGED rows
      BY <2>1 DEF RowsStay, Alike
    <2>2. CASE rows' = rows \cup {Row}
      BY <2>2 DEF RowsStay, Alike
    <2>3. CASE Update(ending) /\ ending # "refused"
      <3>1. /\ at <= Len(plan) /\ change.action = "update"
            /\ rows' = (rows \ {Target}) \cup {Replaced}
        BY <2>3 DEF Update
      <3>2. Renewed(Target, Replaced)
        BY <3>1, InPlan, UpdateRenews
      <3> QED
        BY <3>2 DEF Renewed, RowsStay, Alike
    <2> QED
      BY <2>1, <2>2, <2>3 DEF Plan, DependencyMissing, BindingsOnly, Conflict, Complete, Bound,
                              Create, Update, tenant
  <1>2. accused \subseteq accused'
    BY ReportAccuses DEF Plan, DependencyMissing, BindingsOnly, Conflict, Complete, Bound,
                         Create, Update, Written, Report
  <1>3. UNCHANGED <<bindings, lapsed>> /\ ~Rebinding
    BY DEF Plan, DependencyMissing, BindingsOnly, Conflict, Complete, Bound, Create, Update,
           tenant, Rebinding
  <1>4. pc' \notin Reconciling
    BY DEF Plan, DependencyMissing, BindingsOnly, Conflict, Complete, Bound, Create, Update,
           Written, Applied, Report, Reconciling
  <1> QED
    BY <1>1, <1>2, <1>3, <1>4, BindingsRest

\* What stays while a subject's bindings are worked on.
Framed == UNCHANGED <<rows, manifest, plan, at, ids, held>>

LEMMA ReadHeldStep ==
    ASSUME PlanInv, BindInv, ReadHeld
    PROVE  BindInv'
  <1>1. /\ UNCHANGED <<rows, bindings, lapsed, plan, at, ids, accused>> /\ ~Rebinding
        /\ pc' = "binding" /\ held' \subseteq {x \in bindings : x.subject = subject}
    BY DEF ReadHeld, tenant, Rebinding
  <1>2. subject' = subject
    BY <1>1 DEF subject, Resolved, entity, change
  <1>3. HeldKnown'
    BY <1>1, <1>2 DEF HeldKnown, Rebinding
  <1>4. LapsedKnown'
    BY <1>1 DEF BindInv, LapsedKnown, Accused
  <1> QED
    BY <1>1, <1>3, <1>4 DEF BindInv

\* The next declared binding, with at most one binding x added: what was being
\* replaced has one of its scope again.
LEMMA NextBindingStep ==
    ASSUME PlanInv, BindInv, pc \in Reconciling, Framed, pc' = "binding",
           UNCHANGED <<lapsed, accused>>, HeldOnce(bindings'), bindings \subseteq bindings',
           Rebinding => \E x \in bindings' :
               x.subject = Old.subject /\ x.role = Old.role /\ x.scope = Old.scope
    PROVE  BindInv'
  <1>1. subject' = subject
    BY DEF Framed, subject, Resolved, entity, change
  <1>2. HeldKnown'
    BY <1>1 DEF Framed, BindInv, HeldKnown, Rebinding, Reconciling
  <1>3. LapsedKnown'
    <2> SUFFICES ASSUME NEW y \in lapsed
                 PROVE  \/ Accused(y.subject)'
                        \/ \E x \in bindings' : x.subject = y.subject /\ x.role = y.role
                                                  /\ x.scope = y.scope
      BY DEF LapsedKnown
    <2>1. Accused(y.subject) => Accused(y.subject)'
      BY DEF Accused, Framed
    <2>2. \/ Accused(y.subject)
          \/ Rebinding /\ y.subject = Old.subject /\ y.role = Old.role /\ y.scope = Old.scope
          \/ \E x \in bindings : x.subject = y.subject /\ x.role = y.role /\ x.scope = y.scope
      BY DEF BindInv, LapsedKnown
    <2> QED
      BY <2>1, <2>2
  <1> QED
    BY <1>2, <1>3 DEF BindInv

LEMMA AssignAbsentStep ==
    ASSUME PlanInv, BindInv, NEW ending, AssignAbsent(ending)
    PROVE  BindInv'
  <1> DEFINE x == Wanted(None)
  <1>1. /\ pc = "binding" /\ pc \in Reconciling /\ ~Rebinding
        /\ Assign(x, ending, NextBinding, Report("failed") /\ UNCHANGED role)
    BY DEF AssignAbsent, Reconciling, Rebinding
  <1>2. x.subject = subject
    BY DEF Wanted
  <1> HIDE DEF x
  <1>3. /\ Framed /\ UNCHANGED lapsed
        /\ NextBinding \/ Report("failed")
        /\ bindings' = bindings \/ (bindings' = bindings \cup {x} /\ Assignable(x))
    BY <1>1 DEF Assign, Framed
  <1>4. HeldOnce(bindings')
    BY <1>3, OnceMore DEF BindInv
  <1>5. CASE NextBinding
    <2>1. pc' = "binding" /\ UNCHANGED accused
      BY <1>5 DEF NextBinding
    <2> QED
      BY <1>1, <1>3, <1>4, <2>1, NextBindingStep
  <1>6. CASE Report("failed")
    <2>1. UNCHANGED rows /\ bindings \subseteq bindings'
      BY <1>3 DEF Framed
    <2> QED
      BY <1>1, <1>3, <1>4, <1>6, <2>1, AccountedFor
  <1> QED
    BY <1>3, <1>5, <1>6

LEMMA UnassignStep ==
    ASSUME PlanInv, BindInv, NEW ending, Unassign(ending)
    PROVE  BindInv'
  <1>1. /\ pc = "binding" /\ pc \in Reconciling /\ ~Rebinding /\ role <= Len(entity.roles)
        /\ Current(held, declared) # {}
        /\ UNCHANGED <<rows, manifest, plan, at, ids, held, role>>
    BY DEF Unassign, Reconciling, Rebinding, progress
  <1>2. Old \in held /\ Old.subject = subject /\ Old \in bindings \cup lapsed
    BY <1>1, HeldSubject
  <1>3. \/ UNCHANGED <<bindings, lapsed>>
        \/ bindings' = bindings \ {Old} /\ lapsed' = lapsed \cup {Old}
    BY DEF Unassign
  <1>4. HeldOnce(bindings')
    BY <1>3 DEF BindInv, HeldOnce
  <1>5. CASE Report("failed")
    BY <1>1, <1>2, <1>3, <1>4, <1>5, AccountedFor
  <1>6. CASE ~Report("failed")
    <2>1. /\ pc' = "rebinding" /\ UNCHANGED accused
          /\ bindings' = bindings \ {Old} /\ lapsed' = lapsed \cup {Old}
      BY <1>6 DEF Unassign
    <2>2. RoleRows' = RoleRows
      BY <1>1 DEF RoleRows
    <2>3. /\ entity' = entity /\ subject' = subject /\ declared' = declared
          /\ Current(held, declared)' = Current(held, declared) /\ Old' = Old
      BY <1>1, <2>2, OldKept
    <2>4. \A id : Accused(id)' <=> Accused(id)
      BY <1>1, <2>1 DEF Accused
    <2> DEFINE o == Old
    <2>5. o = Old /\ Old' = o
      BY <2>3
    <2> HIDE DEF o
    <2>6. Accused(subject) \/ \A x \in bindings \ {o} :
              x.subject = o.subject /\ x.role = o.role => x.scope = o.scope
      <3>1. CASE o \in bindings
        BY <3>1 DEF BindInv, HeldOnce
      <3>2. CASE o \in lapsed
        <4>1. \/ Accused(o.subject)
              \/ \E x \in bindings : x.subject = o.subject /\ x.role = o.role /\ x.scope = o.scope
          BY <1>1, <3>2 DEF BindInv, LapsedKnown
        <4> QED
          BY <1>2, <2>5, <4>1 DEF BindInv, HeldOnce
      <3> QED
        BY <1>2, <2>5, <3>1, <3>2
    <2>7. HeldKnown'
      <3>1. \A x \in held : x.subject = subject /\ x \in bindings' \cup lapsed'
        BY <1>1, <2>1 DEF BindInv, HeldKnown
      <3> QED
        BY <1>1, <2>1, <2>3, <2>4, <2>5, <2>6, <3>1 DEF HeldKnown
    <2>8. LapsedKnown'
      <3> SUFFICES ASSUME NEW y \in lapsed'
                   PROVE  \/ Accused(y.subject)
                          \/ y.subject = o.subject /\ y.role = o.role /\ y.scope = o.scope
                          \/ \E x \in bindings' : x.subject = y.subject /\ x.role = y.role
                                                    /\ x.scope = y.scope
        BY <2>1, <2>4, <2>5 DEF LapsedKnown, Rebinding
      <3>1. CASE y = o
        BY <3>1
      <3>2. CASE y # o
        <4>1. \/ Accused(y.subject)
              \/ \E x \in bindings : x.subject = y.subject /\ x.role = y.role /\ x.scope = y.scope
          BY <1>1, <2>1, <2>5, <3>2 DEF BindInv, LapsedKnown
        <4> QED
          BY <2>1, <2>5, <4>1
      <3> QED
        BY <3>1, <3>2
    <2> QED
      BY <1>4, <2>7, <2>8 DEF BindInv
  <1> QED
    BY <1>5, <1>6

LEMMA RebindStep ==
    ASSUME PlanInv, BindInv, NEW ending, Rebind(ending)
    PROVE  BindInv'
  <1> DEFINE x == Wanted(Old.scope)
             o == Old
  <1>1. /\ pc = "rebinding" /\ pc \in Reconciling /\ pc \in Binds /\ Rebinding
        /\ role <= Len(entity.roles) /\ Current(held, declared) # {}
        /\ Assign(x, ending, NextBinding,
                  pc' = "restoring" /\ UNCHANGED <<role, status, secrets, accused>>)
    BY DEF Rebind, Reconciling, Rebinding, Binds, BindInv, HeldKnown
  <1>2. o = Old /\ Old \in held /\ Old.subject = subject
    BY <1>1, HeldSubject
  <1>3. x.subject = o.subject /\ x.role = o.role /\ x.scope = o.scope
    BY <1>1, <1>2, RoleIsOld DEF Wanted
  <1> HIDE DEF x, o
  <1>4. /\ Framed /\ UNCHANGED lapsed /\ UNCHANGED accused
        /\ bindings' = bindings \/ (bindings' = bindings \cup {x} /\ Assignable(x))
        /\ \/ NextBinding /\ bindings' = bindings \cup {x}
           \/ pc' = "restoring" /\ UNCHANGED role
    BY <1>1 DEF Assign, Framed, NextBinding
  <1>5. HeldOnce(bindings')
    BY <1>4, OnceMore DEF BindInv
  <1>6. CASE NextBinding /\ bindings' = bindings \cup {x}
    <2>1. pc' = "binding" /\ bindings \subseteq bindings' /\ x \in bindings'
      BY <1>6 DEF NextBinding
    <2> QED
      BY <1>1, <1>2, <1>3, <1>4, <1>5, <2>1, NextBindingStep
  <1>7. CASE pc' = "restoring" /\ UNCHANGED role
    <2>1. RoleRows' = RoleRows /\ UNCHANGED <<rows, manifest, plan, at, ids, held, role>>
      BY <1>4, <1>7 DEF RoleRows, Framed
    <2>2. /\ entity' = entity /\ subject' = subject /\ declared' = declared
          /\ Current(held, declared)' = Current(held, declared) /\ Old' = Old
      BY <2>1, OldKept
    <2>3. \A id : Accused(id)' <=> Accused(id)
      BY <1>4, <2>1 DEF Accused
    <2>4. HeldKnown'
      <3>1. \A y \in held : y.subject = subject /\ y \in bindings' \cup lapsed'
        BY <1>1, <1>4 DEF BindInv, HeldKnown
      <3>2. Accused(subject) \/ \A y \in bindings' :
                y.subject = o.subject /\ y.role = o.role => y.scope = o.scope
        BY <1>1, <1>2, <1>3, <1>4 DEF BindInv, HeldKnown
      <3> QED
        BY <1>1, <1>2, <2>1, <2>2, <2>3, <3>1, <3>2 DEF HeldKnown
    <2>5. LapsedKnown'
      <3> SUFFICES ASSUME NEW y \in lapsed
                   PROVE  \/ Accused(y.subject)
                          \/ y.subject = o.subject /\ y.role = o.role /\ y.scope = o.scope
                          \/ \E z \in bindings' : z.subject = y.subject /\ z.role = y.role
                                                    /\ z.scope = y.scope
        BY <1>2, <1>4, <1>7, <2>2, <2>3 DEF LapsedKnown, Rebinding
      <3>1. \/ Accused(y.subject)
            \/ y.subject = o.subject /\ y.role = o.role /\ y.scope = o.scope
            \/ \E z \in bindings : z.subject = y.subject /\ z.role = y.role /\ z.scope = y.scope
        BY <1>2 DEF BindInv, LapsedKnown
      <3> QED
        BY <1>4, <3>1
    <2> QED
      BY <1>5, <2>4, <2>5 DEF BindInv
  <1> QED
    BY <1>4, <1>6, <1>7

LEMMA RestoreStep ==
    ASSUME PlanInv, BindInv, NEW ending, Restore(ending)
    PROVE  BindInv'
  <1>1. /\ pc \in Reconciling /\ Current(held, declared) # {} /\ Report("failed")
        /\ UNCHANGED <<rows, lapsed>>
        /\ bindings' = bindings \/ (bindings' = bindings \cup {Old} /\ Assignable(Old))
    BY DEF Restore, Assign, Reconciling, BindInv, HeldKnown, Rebinding
  <1>2. Old.subject = subject
    BY <1>1, HeldSubject
  <1>3. HeldOnce(bindings')
    BY <1>1, OnceMore DEF BindInv
  <1> QED
    BY <1>1, <1>2, <1>3, AccountedFor

LEMMA AlreadyBoundStep ==
    ASSUME PlanInv, BindInv, AlreadyBound
    PROVE  BindInv'
  <1>1. /\ pc \in Reconciling /\ ~Rebinding /\ pc' = "binding" /\ Framed
        /\ UNCHANGED <<bindings, lapsed, accused>>
    BY DEF AlreadyBound, Reconciling, Rebinding, Framed, tenant
  <1>2. HeldOnce(bindings') /\ bindings \subseteq bindings'
    BY <1>1 DEF BindInv
  <1> QED
    BY <1>1, <1>2, NextBindingStep

LEMMA BindingsEdit ==
    ASSUME PlanInv, BindInv, EditElsewhere
    PROVE  BindInv'
  <1>1. UNCHANGED <<bindings, lapsed, manifest, pc, plan, at, ids, held, role, accused>>
    BY DEF EditElsewhere, progress
  <1>2. PICK t, u : t.kind = "segment" /\ Renewed(t, u)
    BY EditRenews
  <1>3. RoleRows' = RoleRows
    BY <1>2 DEF RoleRows, Renewed
  <1>4. RowsStay
    BY <1>2 DEF Renewed, RowsStay, Alike
  <1>5. /\ entity' = entity /\ subject' = subject /\ declared' = declared
        /\ Current(held, declared)' = Current(held, declared) /\ Old' = Old
    BY <1>1, <1>3, OldKept
  <1>6. \A id : Accused(id) => Accused(id)'
    BY <1>1, <1>4 DEF Accused, RowsStay, Alike
  <1> DEFINE o == Old
             s == subject
  <1>7. o = Old /\ s = subject /\ Old' = o /\ subject' = s
    BY <1>5
  <1> HIDE DEF o, s
  <1>8. HeldKnown'
    <2>1. pc \in {"binding", "rebinding", "restoring"} =>
              \A x \in held : x.subject = s /\ x \in bindings \cup lapsed
      BY <1>7 DEF BindInv, HeldKnown
    <2>2. Rebinding =>
            /\ role <= Len(entity.roles) /\ Current(held, declared) # {}
            /\ Accused(s) \/ \A x \in bindings : x.subject = o.subject /\ x.role = o.role
                                                    => x.scope = o.scope
      BY <1>7 DEF BindInv, HeldKnown
    <2>3. Rebinding' <=> Rebinding
      BY <1>1 DEF Rebinding
    <2> QED
      BY <1>1, <1>5, <1>6, <1>7, <2>1, <2>2, <2>3 DEF HeldKnown
  <1>9. LapsedKnown'
    <2> SUFFICES ASSUME NEW y \in lapsed
                 PROVE  \/ Accused(y.subject)'
                        \/ /\ Rebinding /\ y.subject = o.subject
                           /\ y.role = o.role /\ y.scope = o.scope
                        \/ \E x \in bindings : x.subject = y.subject /\ x.role = y.role
                                                 /\ x.scope = y.scope
      BY <1>1, <1>7 DEF LapsedKnown, Rebinding
    <2>1. \/ Accused(y.subject)
          \/ Rebinding /\ y.subject = o.subject /\ y.role = o.role /\ y.scope = o.scope
          \/ \E x \in bindings : x.subject = y.subject /\ x.role = y.role /\ x.scope = y.scope
      BY <1>7 DEF BindInv, LapsedKnown
    <2> QED
      BY <1>6, <2>1
  <1> QED
    BY <1>1, <1>8, <1>9 DEF BindInv

LEMMA BindingsStutter ==
    ASSUME BindInv, UNCHANGED manifestVars
    PROVE  BindInv'
  <1>1. UNCHANGED <<rows, bindings, lapsed, manifest, pc, plan, at, ids, held, role, accused>>
    BY DEF manifestVars
  <1>2. RoleRows' = RoleRows
    BY <1>1 DEF RoleRows
  <1>3. /\ entity' = entity /\ subject' = subject /\ declared' = declared
        /\ Current(held, declared)' = Current(held, declared) /\ Old' = Old
    BY <1>1, <1>2, OldKept
  <1>4. HeldKnown'
    BY <1>1, <1>3 DEF BindInv, HeldKnown, Rebinding, Accused
  <1>5. LapsedKnown'
    BY <1>1, <1>3 DEF BindInv, LapsedKnown, Rebinding, Accused
  <1> QED
    BY <1>1, <1>4, <1>5 DEF BindInv

LEMMA BindAlways == ManifestSpec => []BindInv
  <1>1. ManifestInit => BindInv
    <2> SUFFICES ASSUME ManifestInit PROVE BindInv
      OBVIOUS
    <2>1. PICK w \in Worlds : bindings = w.bindings
      BY DEF ManifestInit
    <2>2. lapsed = {} /\ pc = "idle"
      BY DEF ManifestInit
    <2> QED
      BY <2>1, <2>2, WorldAssumption DEF BindInv, HeldKnown, LapsedKnown, Rebinding
  <1>2. PlanInv /\ BindInv /\ [ManifestNext]_manifestVars => BindInv'
    <2> SUFFICES ASSUME PlanInv, BindInv, [ManifestNext]_manifestVars PROVE BindInv'
      OBVIOUS
    <2>1. CASE Apply
      <3>1. "done" \in Endings
        BY DEF Endings
      <3> QED
        BY <2>1, <3>1, BindingsUntouched, ReadHeldStep, AlreadyBoundStep, AssignAbsentStep,
           UnassignStep, RebindStep, RestoreStep DEF Apply
    <2> QED
      BY <2>1, BindingsEdit, BindingsStutter DEF ManifestNext, ManifestDone
  <1> QED
    BY <1>1, <1>2, PlanAlways, PTL DEF ManifestSpec

\* An assignment that was taken away comes back with its tenant scope, or the
\* subject is named by an apply that failed: the assign that follows an unassign
\* carries the scope across, every way it can fail ends the apply, and the apply's
\* later runs find the subject named already.
THEOREM WideningIsNamed == ManifestSpec => []WideningIsReported
  <1>1. PlanInv /\ BindInv => WideningIsReported
    <2> SUFFICES ASSUME PlanInv, BindInv, NEW x \in bindings, NEW y \in lapsed,
                        x.subject = y.subject, x.role = y.role, x.scope # y.scope
                 PROVE  Accused(x.subject)
      BY DEF WideningIsReported, Accused
    <2>1. CASE Accused(y.subject)
      BY <2>1
    <2>2. CASE Rebinding /\ y.subject = Old.subject /\ y.role = Old.role /\ y.scope = Old.scope
      <3>1. Old.subject = subject
        BY <2>2, HeldSubject DEF BindInv, HeldKnown, Rebinding, Reconciling
      <3> QED
        BY <2>2, <3>1 DEF BindInv, HeldKnown
    <2>3. CASE \E z \in bindings : z.subject = y.subject /\ z.role = y.role /\ z.scope = y.scope
      BY <2>3 DEF BindInv, HeldOnce
    <2> QED
      BY <2>1, <2>2, <2>3 DEF BindInv, LapsedKnown
  <1> QED
    BY <1>1, PlanAlways, BindAlways, PTL
-----------------------------------------------------------------------------
(* What a calm apply has made of the tenant so far. *)

\* A change whose entity has an id, and one whose entity is as declared.
HasId(i) == Wrote(i) \/ plan[i].action # "create"
Settled(i) == Wrote(i) \/ plan[i].action = "unchanged"

\* The object is the entity's: what Matches(e) is when a page holds everything.
Fit(e, r) ==
    /\ r.kind = e.kind
    /\ e.kind \notin {"policy", "profile"} => r.name = e.name
    /\ e.kind = "profile" => Bears("segment", r.id, SegmentName(e))

\* An entity has one object, of the id that apply() goes by, or none yet.
Matched(i) ==
    /\ HasId(i) =>
          /\ \E r \in rows : Fit(plan[i].entity, r) /\ r.id = plan[i].id
          /\ Resolved(plan[i].entity.kind, plan[i].entity.key) = {plan[i].id}
    /\ \A r \in rows : Fit(plan[i].entity, r) => HasId(i) /\ r.id = plan[i].id

Agreed(i) ==
    Settled(i) => \A r \in rows : Fit(plan[i].entity, r) => ~MembersDiffer(plan[i].entity, r)

\* The subject has the declared binding, as its names say it.
HasBinding(id, b) ==
    \E x \in bindings :
        /\ x.subject = id /\ x.narrow = b.narrow
        /\ Bears("role", x.role, RoleName(b))
        /\ IF b.resource = None THEN x.resource = None
           ELSE Bears("resource", x.resource, ResourceName(b))

\* The bindings of a subject that have been looked at.
Reached(i, k) ==
    \/ i < at \/ plan[i].action = "unchanged"
    \/ i = at /\ pc \in Reconciling /\ k < role

BoundSoFar(i) ==
    plan[i].entity.kind \in Subjects =>
        \A k \in DOMAIN plan[i].entity.roles :
            Reached(i, k) => HasBinding(plan[i].id, plan[i].entity.roles[k])

\* What was read of the bindings still to come is still so.
HeldStill ==
    pc \in Reconciling =>
        \A k \in DOMAIN entity.roles :
            role < k \/ (role = k /\ ~Rebinding) =>
                Current(held, entity.roles[k]) \subseteq bindings

\* An apply is under way, or was the last and wrote everything.
Ongoing == pc # "idle" \/ status = "complete"

ExtraOnNetwork == \A e \in ToSet(manifest) : e.extra # None => e.kind \in Network

ConvergeInv ==
    /\ ExtraOnNetwork
    /\ Ongoing => InOrder /\ \A i \in DOMAIN plan : Matched(i)
    /\ Ongoing /\ used.calm =>
          /\ \A i \in DOMAIN plan : Agreed(i) /\ BoundSoFar(i)
          /\ HeldStill
    /\ pc \in Binds => change.action # "unchanged"
    /\ pc = "idle" /\ status = "complete" => at = Len(plan) + 1

(* Objects and the entities they are of. *)

LEMMA PlannedEntity ==
    ASSUME PlanInv, NEW i \in DOMAIN plan
    PROVE  /\ plan[i] \in ChangeType /\ plan[i].entity \in Entities
           /\ plan[i].entity \in ToSet(manifest)
  <1>1. plan[i] \in ChangeType
    BY DEF PlanInv, ManifestTyped
  <1>2. plan[i].entity \in ToSet(manifest)
    BY DEF PlanInv, Planned, PlannedAs, PlannedFrom
  <1> QED
    BY <1>1, <1>2 DEF ChangeType

\* A name that is said by a key of the manifest is that of one entity.
LEMMA NamedByKey ==
    ASSUME manifest \in Seq(Entities), NamesTellApart,
           NEW kind, kind # "profile", NEW k, NEW l,
           FindOfKind(kind, k) # 0, FindOfKind(kind, l) # 0,
           manifest[FindOfKind(kind, k)].name = manifest[FindOfKind(kind, l)].name
    PROVE  k = l
  <1> DEFINE i == FindOfKind(kind, k)
             j == FindOfKind(kind, l)
  <1>1. /\ i \in DOMAIN manifest /\ manifest[i].kind = kind /\ manifest[i].key = k
        /\ j \in DOMAIN manifest /\ manifest[j].kind = kind /\ manifest[j].key = l
    BY Finding
  <1>2. manifest[i].name = manifest[j].name
    OBVIOUS
  <1> HIDE DEF i, j
  <1>3. i = j
    BY <1>1, <1>2 DEF NamesTellApart
  <1> QED
    BY <1>1, <1>3

\* No object is that of two entities.
LEMMA FitOnce ==
    ASSUME PlanInv, InOrder, NamesTellApart, NEW i \in DOMAIN plan, NEW j \in DOMAIN plan,
           NEW r, Fit(plan[i].entity, r), Fit(plan[j].entity, r)
    PROVE  i = j
  <1> DEFINE e == plan[i].entity
             f == plan[j].entity
  <1>1. e \in ToSet(manifest) /\ f \in ToSet(manifest) /\ manifest \in Seq(Entities)
    BY PlannedEntity DEF PlanInv, ManifestTyped
  <1>2. PICK m \in DOMAIN manifest : e = manifest[m]
    BY <1>1 DEF ToSet
  <1>3. PICK n \in DOMAIN manifest : f = manifest[n]
    BY <1>1 DEF ToSet
  <1>4. Fit(e, r) /\ Fit(f, r) /\ (e = f => i = j)
    BY DEF InOrder
  <1>5. NetworkDeclared
    BY DEF InOrder, Declared
  <1> HIDE DEF e, f
  <1>6. e.kind = r.kind /\ f.kind = r.kind
    BY <1>4 DEF Fit
  <1>7. CASE r.kind = "policy"
    BY <1>2, <1>3, <1>4, <1>5, <1>6, <1>7 DEF NetworkDeclared
  <1>8. CASE r.kind = "profile"
    <2>1. FindOfKind("segment", e.segment) # 0 /\ FindOfKind("segment", f.segment) # 0
      BY <1>2, <1>3, <1>5, <1>6, <1>8 DEF NetworkDeclared
    <2>2. Bears("segment", r.id, SegmentName(e)) /\ Bears("segment", r.id, SegmentName(f))
      BY <1>4, <1>6, <1>8 DEF Fit
    <2>3. SegmentName(e) = SegmentName(f)
      BY <2>2 DEF Bears, PlanInv, Numbered
    <2>4. e.segment = f.segment
      BY <1>1, <2>1, <2>3, NamedByKey DEF SegmentName
    <2>5. m = n
      BY <1>2, <1>3, <1>5, <1>6, <1>8, <2>4 DEF NetworkDeclared
    <2> QED
      BY <1>2, <1>3, <1>4, <2>5
  <1>9. CASE r.kind \notin {"policy", "profile"}
    <2>1. e.name = f.name
      BY <1>4, <1>6, <1>9 DEF Fit
    <2>2. m = n
      BY <1>2, <1>3, <1>6, <1>9, <2>1 DEF NamesTellApart
    <2> QED
      BY <1>2, <1>3, <1>4, <2>2
  <1> QED
    BY <1>7, <1>8, <1>9

\* Nothing that moves objects changes what an object is.
LEMMA RowsMoveBack ==
    ASSUME PlanInv, RowsMove, NEW q \in rows'
    PROVE  (\E r \in rows : Alike(q, r) /\ q.name = r.name) \/ Added(q)
  <1>1. CASE UNCHANGED rows
    BY <1>1 DEF Alike
  <1>2. CASE \E t, u : Renewed(t, u)
    BY <1>2 DEF Renewed, Alike
  <1>3. CASE \E u : Added(u)
    BY <1>3 DEF Added, Alike
  <1> QED
    BY <1>1, <1>2, <1>3 DEF RowsMove

LEMMA AddedIsNew ==
    ASSUME PlanInv, NEW u, Added(u)
    PROVE  \A r \in rows : ~Alike(r, u)
  <1>1. u \in Rows /\ rows \subseteq Rows /\ IsFiniteSet(rows) /\ Numbered(rows) /\ NamedOnce(rows)
    BY DEF Added, PlanInv, ManifestTyped
  <1> QED
    BY <1>1, AddedRow DEF Added, Alike

LEMMA RowsMoveKeeps == PlanInv /\ RowsMove => RowsStay
BY RowsKept DEF PlanInv, ManifestTyped

LEMMA FitSame ==
    ASSUME PlanInv, RowsMove, UNCHANGED manifest, NEW e, NEW q \in rows'
    PROVE  Fit(e, q)' <=> Fit(e, q)
  <1> DEFINE N == SegmentName(e)
  <1>1. SegmentName(e)' = N
    BY NamesStay
  <1>2. Bears("segment", q.id, N) =>
          \E s \in rows' : s.kind = "segment" /\ s.id = q.id /\ s.name = N
    BY RowsMoveKeeps DEF Bears, RowsStay, Alike
  <1>3. ASSUME q.kind = "profile",
               NEW s \in rows', s.kind = "segment", s.id = q.id, s.name = N
        PROVE  Bears("segment", q.id, N)
    <2>1. CASE \E r \in rows : Alike(s, r) /\ s.name = r.name
      BY <1>3, <2>1 DEF Bears, Alike
    <2>2. CASE Added(s)
      <3>1. \A r \in rows : ~Alike(r, s)
        BY <2>2, AddedIsNew
      <3>2. q # s /\ q \in rows
        BY <1>3, <2>2 DEF Added
      <3>3. \E r \in rows : r.kind = "segment" /\ r.id = q.id
        BY <1>3, <3>2 DEF PlanInv, Numbered
      <3> QED
        BY <1>3, <3>1, <3>3 DEF Alike
    <2> QED
      BY <2>1, <2>2, RowsMoveBack
  <1> HIDE DEF N
  <1>4. q.kind = "profile" =>
          (Bears("segment", q.id, N) <=> \E s \in rows' : s.kind = "segment" /\ s.id = q.id
                                                                              /\ s.name = N)
    BY <1>2, <1>3
  <1>5. SegmentName(e) = N
    BY DEF N
  <1> QED
    BY <1>1, <1>4, <1>5 DEF Fit, Bears

LEMMA AlikeFit ==
    ASSUME NEW e, NEW q, NEW r, Alike(q, r), q.name = r.name
    PROVE  Fit(e, q) <=> Fit(e, r)
BY DEF Fit, Alike

\* A page that holds everything: what read_existing() returns is the whole kind.
LEMMA ScannedAll ==
    ASSUME rows \subseteq Rows, IsFiniteSet(rows), PageHoldsAll, NEW kind \in DOMAIN Rank
    PROVE  Scanned(kind) = {r \in rows : r.kind = kind}
  <1> SUFFICES ASSUME NEW r \in rows, r.kind = kind
               PROVE  Cardinality({q \in rows : q.kind = kind /\ q.id < r.id}) < ScanLimit
    BY DEF Scanned
  <1> DEFINE S == {q \in rows : q.kind = kind}
             T == {q \in rows : q.kind = kind /\ q.id < r.id}
  <1>1. IsFiniteSet(S) /\ T \in SUBSET S /\ r \in S
    BY FS_Subset
  <1>2. r \notin T
    <2>1. r.id \in Nat
      BY DEF Rows
    <2> QED
      BY <2>1
  <1>3. Cardinality(S) <= ScanLimit
    BY DEF PageHoldsAll
  <1> HIDE DEF S, T
  <1>4. /\ IsFiniteSet(T) /\ Cardinality(T) <= Cardinality(S)
        /\ Cardinality(S) = Cardinality(T) => S = T
    BY <1>1, FS_Subset
  <1>5. Cardinality(S) \in Nat /\ Cardinality(T) \in Nat /\ ScanLimit \in Nat
    BY <1>1, <1>4, FS_CardinalityType, WorldAssumption
  <1>6. S # T
    BY <1>1, <1>2
  <1>7. Cardinality(T) < ScanLimit
    BY <1>3, <1>4, <1>5, <1>6
  <1> QED
    BY <1>7 DEF T

LEMMA MatchesFit ==
    ASSUME rows \subseteq Rows, IsFiniteSet(rows), PageHoldsAll, NEW e \in Entities
    PROVE  Matches(e) = {r \in rows : Fit(e, r)}
  <1>1. e.kind \in DOMAIN Rank
    BY DEF Entities
  <1>2. CASE e.kind = "policy"
    BY <1>2 DEF Matches, Fit
  <1>3. CASE e.kind = "segment"
    BY <1>3 DEF Matches, Fit
  <1>4. CASE e.kind = "profile"
    <2>1. Matches(e) = {r \in rows : r.kind = "profile" /\ \E s \in SegmentOf(e) : s.id = r.id}
      BY <1>4 DEF Matches
    <2>2. \A r \in rows : (\E s \in SegmentOf(e) : s.id = r.id)
                             <=> Bears("segment", r.id, SegmentName(e))
      BY DEF SegmentOf, Bears, SegmentName
    <2>3. \A r \in rows : Fit(e, r) <=> r.kind = "profile" /\ Bears("segment", r.id, SegmentName(e))
      BY <1>4 DEF Fit
    <2> QED
      BY <2>1, <2>2, <2>3
  <1>5. CASE e.kind \notin {"policy", "segment", "profile"}
    <2>1. Matches(e) = {r \in Scanned(e.kind) : r.name = e.name}
      BY <1>5 DEF Matches
    <2>2. Scanned(e.kind) = {r \in rows : r.kind = e.kind}
      BY <1>1, ScannedAll
    <2>3. \A r \in rows : Fit(e, r) <=> r.kind = e.kind /\ r.name = e.name
      BY <1>5 DEF Fit
    <2> QED
      BY <2>1, <2>2, <2>3
  <1> QED
    BY <1>2, <1>3, <1>4, <1>5

LEMMA AtMostOne ==
    ASSUME NEW S, IsFiniteSet(S), ~(Cardinality(S) > 1), NEW x \in S, NEW y \in S
    PROVE  x = y
  <1>1. /\ IsFiniteSet(S \ {x}) /\ Cardinality(S \ {x}) = Cardinality(S) - 1
    BY FS_RemoveElement
  <1>2. Cardinality(S) \in Nat /\ Cardinality(S \ {x}) \in Nat
    BY <1>1, FS_CardinalityType
  <1>3. Cardinality(S \ {x}) = 0
    BY <1>1, <1>2
  <1>4. S \ {x} = {}
    BY <1>1, <1>3, FS_EmptySet
  <1> QED
    BY <1>4

\* An entity that is not ambiguous has at most one object.
LEMMA FitUnique ==
    ASSUME rows \subseteq Rows, IsFiniteSet(rows), Numbered(rows), NamedOnce(rows), PageHoldsAll,
           NEW e \in Entities, ~Ambiguous(e),
           NEW r \in rows, NEW q \in rows, Fit(e, r), Fit(e, q)
    PROVE  r = q
  <1>1. r.kind = e.kind /\ q.kind = e.kind
    BY DEF Fit
  <1>2. CASE e.kind = "service_account"
    <2>1. Matches(e) = {p \in rows : Fit(e, p)}
      BY MatchesFit
    <2>2. IsFiniteSet(Matches(e)) /\ r \in Matches(e) /\ q \in Matches(e)
      BY <2>1, FS_Subset
    <2>3. ~(Cardinality(Matches(e)) > 1)
      BY <1>2 DEF Ambiguous
    <2> QED
      BY <2>2, <2>3, AtMostOne
  <1>3. CASE e.kind = "profile"
    <2>1. Bears("segment", r.id, SegmentName(e)) /\ Bears("segment", q.id, SegmentName(e))
      BY <1>3 DEF Fit
    <2>2. PICK s \in rows : s.kind = "segment" /\ s.id = r.id /\ s.name = SegmentName(e)
      BY <2>1 DEF Bears
    <2>3. PICK p \in rows : p.kind = "segment" /\ p.id = q.id /\ p.name = SegmentName(e)
      BY <2>1 DEF Bears
    <2>4. s = p
      BY <2>2, <2>3 DEF NamedOnce
    <2> QED
      BY <1>1, <2>2, <2>3, <2>4 DEF Numbered
  <1>4. CASE e.kind = "policy"
    BY <1>1, <1>4 DEF NamedOnce
  <1>5. CASE e.kind \notin {"service_account", "profile", "policy"}
    <2>1. r.name = e.name /\ q.name = e.name
      BY <1>5 DEF Fit
    <2> QED
      BY <1>1, <1>5, <2>1 DEF NamedOnce
  <1> QED
    BY <1>2, <1>3, <1>4, <1>5

\* What a plan says of an entity.
LEMMA ChangeFits ==
    ASSUME rows \subseteq Rows, IsFiniteSet(rows), Numbered(rows), NamedOnce(rows), PageHoldsAll,
           NEW e \in Entities, ~Ambiguous(e)
    PROVE  /\ Change(e).action = "create" => \A r \in rows : ~Fit(e, r)
           /\ Change(e).action # "create" =>
                 \E r \in rows :
                    /\ Fit(e, r) /\ r.id = Change(e).id /\ \A q \in rows : Fit(e, q) => q = r
                    /\ Change(e).action = "unchanged" <=>
                          ~MembersDiffer(e, r) /\ ~BindingsDiffer(e, r)
  <1>1. Matches(e) = {r \in rows : Fit(e, r)}
    BY MatchesFit
  <1>2. CASE Matches(e) = {}
    <2>1. Change(e).action = "create"
      BY <1>2 DEF Change
    <2> QED
      BY <1>1, <1>2, <2>1
  <1>3. CASE Matches(e) # {}
    <2>1. PICK r \in rows : Fit(e, r)
      BY <1>1, <1>3
    <2>2. \A q \in rows : Fit(e, q) => q = r
      BY <2>1, FitUnique
    <2>3. Matches(e) = {r} /\ r.id \in Nat
      BY <1>1, <2>1, <2>2 DEF Rows
    <2>4. (CHOOSE p \in Matches(e) : \A q \in Matches(e) : p.id <= q.id) = r
      BY <2>3
    <2>5. Change(e) = [entity |-> e, id |-> r.id, read |-> r, secret |-> None,
                       action |-> IF MembersDiffer(e, r) \/ BindingsDiffer(e, r)
                                  THEN "update" ELSE "unchanged"]
      BY <1>3, <2>4 DEF Change
    <2>6. /\ Change(e).action # "create" /\ Change(e).id = r.id
          /\ Change(e).action = "unchanged" <=> ~MembersDiffer(e, r) /\ ~BindingsDiffer(e, r)
      BY <2>5
    <2> QED
      BY <2>1, <2>2, <2>6
  <1> QED
    BY <1>2, <1>3

(* The bindings and the names they go by. *)

\* What the manifest names before a change has an id, of an object of that name.
LEMMA ResolvedNamed ==
    ASSUME PlanInv, pc # "idle", at \in DOMAIN plan,
           NEW kind, kind \notin {"policy", "profile"}, NEW key, FindOfKind(kind, key) # 0,
           Rank[kind] < Rank[entity.kind]
    PROVE  /\ Resolved(kind, key) # {}
           /\ \A id \in Resolved(kind, key) : Bears(kind, id, manifest[FindOfKind(kind, key)].name)
  <1>1. InOrder /\ Known /\ Named /\ manifest \in Seq(Entities) /\ at \in Nat
        /\ DOMAIN plan \subseteq Nat
    BY DEF PlanInv, Resolving, ManifestTyped
  <1> DEFINE j == FindOfKind(kind, key)
  <1>2. j \in DOMAIN manifest /\ manifest[j].kind = kind /\ manifest[j].key = key
    BY <1>1, Finding
  <1> HIDE DEF j
  <1>3. PICK i \in DOMAIN plan : plan[i].entity = manifest[j]
    BY <1>1, <1>2 DEF InOrder, ToSet
  <1>4. i < at
    BY <1>1, <1>2, <1>3 DEF InOrder, entity, change
  <1>5. Resolved(kind, key) # {}
    BY <1>1, <1>2, <1>3, <1>4 DEF Known, Wrote
  <1>6. ASSUME NEW id \in Resolved(kind, key) PROVE Bears(kind, id, manifest[j].name)
    <2>1. PICK x \in ids : x.kind = kind /\ x.key = key /\ x.id = id
      BY DEF Resolved
    <2> QED
      BY <1>1, <1>2, <1>3, <2>1 DEF Named
  <1> QED
    BY <1>5, <1>6 DEF j

\* The binding to be written is the declared one.
LEMMA WantedNamed ==
    ASSUME PlanInv, pc \in Binds, role <= Len(entity.roles), NEW scope
    PROVE  /\ declared \in ToSet(entity.roles) /\ role \in DOMAIN entity.roles
           /\ Wanted(scope).subject = subject /\ Wanted(scope).narrow = declared.narrow
           /\ Bears("role", Wanted(scope).role, RoleName(declared))
           /\ IF declared.resource = None THEN Wanted(scope).resource = None
              ELSE Bears("resource", Wanted(scope).resource, ResourceName(declared))
  <1>1. /\ at \in DOMAIN plan /\ entity = plan[at].entity /\ entity.kind \in Subjects
        /\ entity \in Entities /\ entity \in ToSet(manifest) /\ pc # "idle"
    BY InPlan, ChangeAt DEF PlanInv, ManifestTyped, entity, change, Binds
  <1>2. role \in DOMAIN entity.roles /\ declared \in ToSet(entity.roles)
    <2>1. entity.roles \in Seq([role : Nat, resource : Nat \cup {None}, narrow : BOOLEAN])
          /\ role \in Nat \ {0}
      BY <1>1 DEF Entities, PlanInv, ManifestTyped
    <2>2. role \in DOMAIN entity.roles
      BY <2>1
    <2> QED
      BY <2>2 DEF declared, ToSet
  <1>3. /\ FindOfKind("role", declared.role) # 0
        /\ declared.resource # None => FindOfKind("resource", declared.resource) # 0
    BY <1>1, <1>2 DEF PlanInv, Resolving, InOrder, Declared, RolesDeclared
  <1>4. Rank["role"] < Rank[entity.kind] /\ Rank["resource"] < Rank[entity.kind]
    <2>1. /\ Rank["role"] = 2 /\ Rank["group"] = 3 /\ Rank["service_account"] = 4
          /\ Rank["resource"] = 0
      BY DEF Rank
    <2> QED
      BY <1>1, <2>1 DEF Subjects
  <1>5. /\ Resolved("role", declared.role) # {}
        /\ \A id \in Resolved("role", declared.role) : Bears("role", id, RoleName(declared))
    BY <1>1, <1>3, <1>4, ResolvedNamed DEF RoleName
  <1>6. declared.resource # None =>
          /\ Resolved("resource", declared.resource) # {}
          /\ \A id \in Resolved("resource", declared.resource) :
                Bears("resource", id, ResourceName(declared))
    BY <1>1, <1>3, <1>4, ResolvedNamed DEF ResourceName
  <1> DEFINE a == CHOOSE id \in Resolved("role", declared.role) : TRUE
             b == CHOOSE id \in Resolved("resource", declared.resource) : TRUE
  <1>7. Bears("role", a, RoleName(declared))
    BY <1>5
  <1>8. declared.resource # None => Bears("resource", b, ResourceName(declared))
    BY <1>6
  <1>9. Wanted(scope) = [subject |-> subject, scope |-> scope, narrow |-> declared.narrow,
                         role |-> a, resource |-> IF declared.resource = None THEN None ELSE b]
    BY DEF Wanted
  <1> HIDE DEF a, b
  <1> QED
    BY <1>2, <1>7, <1>8, <1>9

LEMMA HasBindingStays ==
    ASSUME RowsStay, UNCHANGED manifest, NEW id, NEW b, HasBinding(id, b),
           \A x \in bindings :
              x \in bindings' \/ x.subject # id \/ ~Bears("role", x.role, RoleName(b))
    PROVE  HasBinding(id, b)'
  <1>1. PICK x \in bindings :
            /\ x.subject = id /\ x.narrow = b.narrow
            /\ Bears("role", x.role, RoleName(b))
            /\ IF b.resource = None THEN x.resource = None
               ELSE Bears("resource", x.resource, ResourceName(b))
    BY DEF HasBinding
  <1>2. x \in bindings'
    BY <1>1
  <1> DEFINE n == RoleName(b)
             m == ResourceName(b)
  <1>3. RoleName(b)' = n /\ ResourceName(b)' = m
    BY NamesStay
  <1>4. ASSUME NEW kind, NEW oid, NEW name, Bears(kind, oid, name)
        PROVE  \E r \in rows' : r.kind = kind /\ r.id = oid /\ r.name = name
    BY <1>4 DEF Bears, RowsStay, Alike
  <1>5. /\ Bears("role", x.role, n)
        /\ IF b.resource = None THEN x.resource = None ELSE Bears("resource", x.resource, m)
    BY <1>1
  <1> HIDE DEF n, m
  <1> QED
    BY <1>1, <1>2, <1>3, <1>4, <1>5 DEF HasBinding, Bears

\* Two declared bindings of a subject are never about one assignment.
LEMMA BindingsApart ==
    ASSUME PlanInv, pc # "idle", NamesTellApart, NEW e \in ToSet(manifest), e.kind \in Subjects,
           NEW k \in DOMAIN e.roles, NEW l \in DOMAIN e.roles, NEW id,
           Bears("role", id, RoleName(e.roles[k])), Bears("role", id, RoleName(e.roles[l]))
    PROVE  k = l
  <1>1. manifest \in Seq(Entities) /\ RolesDeclared /\ Numbered(rows)
    BY DEF PlanInv, ManifestTyped, Resolving, InOrder, Declared
  <1>2. e.roles[k] \in ToSet(e.roles) /\ e.roles[l] \in ToSet(e.roles)
    BY DEF ToSet
  <1>3. FindOfKind("role", e.roles[k].role) # 0 /\ FindOfKind("role", e.roles[l].role) # 0
    BY <1>1, <1>2 DEF RolesDeclared
  <1>4. RoleName(e.roles[k]) = RoleName(e.roles[l])
    BY <1>1 DEF Bears, Numbered
  <1>5. e.roles[k].role = e.roles[l].role
    BY <1>1, <1>3, <1>4, NamedByKey DEF RoleName
  <1> QED
    BY <1>1, <1>5 DEF RolesDeclared

\* The subject apply() works on is the object it goes by.
LEMMA SubjectMatched ==
    ASSUME PlanInv, pc \in Binds, Matched(at)
    PROVE  subject = plan[at].id /\ at \in DOMAIN plan /\ entity = plan[at].entity
  <1>1. at \in DOMAIN plan /\ entity = plan[at].entity
    BY InPlan DEF entity, change
  <1>2. HasId(at)
    BY DEF HasId, Wrote
  <1>3. Resolved(entity.kind, entity.key) = {plan[at].id}
    BY <1>1, <1>2 DEF Matched
  <1> QED
    BY <1>1, <1>3 DEF subject

\* And no other entity's.
LEMMA SubjectsApart ==
    ASSUME PlanInv, InOrder, NamesTellApart, NEW i \in DOMAIN plan, NEW j \in DOMAIN plan,
           Matched(i), Matched(j), HasId(i), HasId(j),
           plan[i].entity.kind \in Subjects, plan[j].entity.kind \in Subjects,
           plan[i].id = plan[j].id
    PROVE  i = j
  <1>1. PICK r \in rows : Fit(plan[i].entity, r) /\ r.id = plan[i].id
    BY DEF Matched
  <1>2. PICK q \in rows : Fit(plan[j].entity, q) /\ q.id = plan[j].id
    BY DEF Matched
  <1>3. r.kind \in Subjects /\ q.kind \in Subjects
    BY <1>1, <1>2 DEF Fit
  <1>4. r = q
    BY <1>1, <1>2, <1>3 DEF PlanInv, Numbered, Subjects
  <1> QED
    BY <1>1, <1>2, <1>4, FitOnce

(* Each step. *)

LEMMA StopConverges ==
    ASSUME ConvergeInv, UNCHANGED manifest, pc' = "idle", status' # "complete"
    PROVE  ConvergeInv'
BY DEF ConvergeInv, ExtraOnNetwork, Ongoing, Binds

LEMMA InOrderStays ==
    ASSUME PlanInv, InOrder, UNCHANGED manifest, SamePlan
    PROVE  InOrder'
  <1>1. Declared'
    BY DeclarationStays DEF InOrder
  <1> QED
    BY <1>1 DEF InOrder, SamePlan

\* Objects stay what they are, or are renewed; nothing is added.
Steady == UNCHANGED rows \/ \E t, u : Renewed(t, u)

LEMMA SteadyRows ==
    ASSUME Steady
    PROVE  /\ RowsMove
           /\ \A q \in rows' : \E r \in rows : Alike(q, r) /\ q.name = r.name
           /\ \A r \in rows : \E q \in rows' : Alike(q, r) /\ q.name = r.name
  <1>1. CASE UNCHANGED rows
    BY <1>1 DEF RowsMove, Alike
  <1>2. CASE \E t, u : Renewed(t, u)
    BY <1>2 DEF RowsMove, Renewed, Alike
  <1> QED
    BY <1>1, <1>2 DEF Steady

LEMMA MatchedQuiet ==
    ASSUME PlanInv, Steady, UNCHANGED <<manifest, plan, ids>>, NEW i \in DOMAIN plan,
           HasId(i)' <=> HasId(i), Matched(i)
    PROVE  Matched(i)'
  <1> DEFINE e == plan[i].entity
             id == plan[i].id
  <1>1. /\ RowsMove
        /\ \A q \in rows' : \E r \in rows : Alike(q, r) /\ q.name = r.name
        /\ \A r \in rows : \E q \in rows' : Alike(q, r) /\ q.name = r.name
    BY SteadyRows
  <1>2. ASSUME NEW q \in rows', NEW r, Alike(q, r), q.name = r.name
        PROVE  Fit(e, q)' <=> Fit(e, r)
    BY <1>1, <1>2, FitSame, AlikeFit
  <1>3. Resolved(e.kind, e.key)' = Resolved(e.kind, e.key)
    BY DEF Resolved
  <1>4. e' = e /\ id' = id /\ plan'[i].entity = e /\ plan'[i].id = id
    OBVIOUS
  <1>5. HasId(i) =>
          /\ \E r \in rows : Fit(e, r) /\ r.id = id
          /\ Resolved(e.kind, e.key) = {id}
    BY DEF Matched
  <1>6. \A r \in rows : Fit(e, r) => HasId(i) /\ r.id = id
    BY DEF Matched
  <1>7. HasId(i)' =>
          /\ \E r \in rows' : Fit(e, r)' /\ r.id = id
          /\ Resolved(e.kind, e.key)' = {id}
    BY <1>1, <1>2, <1>3, <1>5 DEF Alike
  <1>8. \A r \in rows' : Fit(e, r)' => HasId(i)' /\ r.id = id
    BY <1>1, <1>2, <1>6 DEF Alike
  <1> QED
    BY <1>4, <1>7, <1>8 DEF Matched

\* A step that writes no object.
LEMMA QuietConverges ==
    ASSUME PlanInv, ConvergeInv, UNCHANGED <<rows, manifest, plan, ids>>, Ongoing,
           \A i \in DOMAIN plan : (HasId(i)' <=> HasId(i)) /\ (Settled(i)' <=> Settled(i)),
           used'.calm => used.calm,
           used'.calm => (\A i \in DOMAIN plan : BoundSoFar(i)') /\ HeldStill',
           pc' \in Binds => plan'[at'].action # "unchanged",
           pc' = "idle" /\ status' = "complete" => at' = Len(plan) + 1
    PROVE  ConvergeInv'
  <1>1. Steady /\ SamePlan
    BY DEF Steady, SamePlan, PlanInv, ManifestTyped
  <1>2. InOrder' /\ \A i \in DOMAIN plan : Matched(i)'
    BY <1>1, InOrderStays, MatchedQuiet DEF ConvergeInv
  <1>3. ASSUME used'.calm, NEW i \in DOMAIN plan
        PROVE  Agreed(i)'
    <2>1. \A r \in rows : Fit(plan[i].entity, r)' <=> Fit(plan[i].entity, r)
      BY <1>1, FitSame DEF RowsMove
    <2>2. Agreed(i) /\ (Settled(i)' <=> Settled(i))
      BY <1>3 DEF ConvergeInv
    <2> QED
      BY <2>1, <2>2 DEF Agreed, MembersDiffer
  <1>4. ExtraOnNetwork'
    BY DEF ConvergeInv, ExtraOnNetwork
  <1> QED
    BY <1>2, <1>3, <1>4 DEF ConvergeInv, change

\* What was looked at stays bound, and so does what comes to it.
LEMMA BoundStays ==
    ASSUME RowsStay, UNCHANGED manifest, bindings \subseteq bindings', NEW i, BoundSoFar(i),
           NEW e, NEW id, plan[i].entity = e, plan'[i].entity = e, plan[i].id = id,
           e.kind \in Subjects => \A k \in DOMAIN e.roles : Reached(i, k)' =>
               plan'[i].id = id /\ (Reached(i, k) \/ HasBinding(id, e.roles[k])')
    PROVE  BoundSoFar(i)'
  <1> SUFFICES ASSUME e.kind \in Subjects, NEW k \in DOMAIN e.roles, Reached(i, k)'
               PROVE  HasBinding(id, e.roles[k])' /\ plan'[i].id = id
    BY DEF BoundSoFar
  <1> DEFINE b == e.roles[k]
  <1>1. CASE Reached(i, k) /\ plan'[i].id = id
    <2>1. HasBinding(id, b)
      BY <1>1 DEF BoundSoFar
    <2>2. b' = b
      OBVIOUS
    <2> HIDE DEF b
    <2>3. HasBinding(id, b)'
      BY <2>1, <2>2, HasBindingStays
    <2> QED
      BY <1>1, <2>3 DEF b
  <1> QED
    BY <1>1

LEMMA CompleteConverges ==
    ASSUME PlanInv, ConvergeInv, Complete
    PROVE  ConvergeInv'
  <1>1. /\ pc = "next" /\ at = Len(plan) + 1 /\ pc' = "idle" /\ Ongoing
        /\ UNCHANGED <<rows, bindings, manifest, plan, at, ids, held, role, used>>
    BY DEF Complete, Report, tenant, progress, Ongoing
  <1>2. \A i \in DOMAIN plan : (HasId(i)' <=> HasId(i)) /\ (Settled(i)' <=> Settled(i))
    BY <1>1 DEF HasId, Settled, Wrote, Binds
  <1>3. RowsStay
    BY <1>1 DEF RowsStay, Alike
  <1>4. used.calm => \A i \in DOMAIN plan : BoundSoFar(i)'
    <2> SUFFICES ASSUME used.calm, NEW i \in DOMAIN plan
                 PROVE  BoundSoFar(i)'
      OBVIOUS
    <2>1. \A k : Reached(i, k)' => Reached(i, k)
      BY <1>1 DEF Reached, Reconciling
    <2>2. BoundSoFar(i) /\ plan'[i] = plan[i]
      BY <1>1 DEF ConvergeInv
    <2>3. PICK e, id : e = plan[i].entity /\ id = plan[i].id
      OBVIOUS
    <2> QED
      BY <1>1, <1>3, <2>1, <2>2, <2>3, BoundStays
  <1>5. HeldStill'
    BY <1>1 DEF HeldStill, Reconciling
  <1>6. pc' \notin Binds
    BY <1>1 DEF Binds
  <1> QED
    BY <1>1, <1>2, <1>4, <1>5, <1>6, QuietConverges

\* Only an answer leaves an apply undisturbed.
LEMMA CalmSpend ==
    ASSUME PlanInv, NEW ending, Spend(ending)
    PROVE  used'.calm => used.calm
BY DEF PlanInv, ManifestTyped, UsedTyped, Spend

LEMMA CurrentStays ==
    ASSUME UNCHANGED <<rows, manifest, held>>
    PROVE  \A b : Current(held, b)' = Current(held, b)
  <1> SUFFICES ASSUME NEW b PROVE Current(held, b)' = Current(held, b)
    OBVIOUS
  <1> DEFINE n == RoleName(b)
  <1>1. RoleName(b)' = n
    BY NamesStay
  <1> HIDE DEF n
  <1>2. RoleName(b) = n
    BY DEF n
  <1> QED
    BY <1>1, <1>2 DEF Current

LEMMA BoundConverges ==
    ASSUME PlanInv, ConvergeInv, Bound
    PROVE  ConvergeInv'
  <1>1. /\ pc = "binding" /\ pc' = "next" /\ at' = Pending(plan, at) /\ role > Len(entity.roles)
        /\ UNCHANGED <<rows, bindings, manifest, plan, ids, held, role, used>>
    BY DEF Bound, Applied, tenant
  <1>2. at \in DOMAIN plan /\ at \in Nat \ {0} /\ at <= Len(plan) /\ plan \in Seq(ChangeType)
        /\ role \in Nat
    BY <1>1, InPlan DEF PlanInv, ManifestTyped, Binds
  <1>3. /\ at' \in Nat /\ at < at'
        /\ \A i \in DOMAIN plan : at < i /\ i < at' => plan[i].action = "unchanged"
    BY <1>1, <1>2, PendingNext
  <1>4. \A i \in DOMAIN plan : (HasId(i)' <=> HasId(i)) /\ (Settled(i)' <=> Settled(i))
    BY <1>1, <1>2, <1>3 DEF HasId, Settled, Wrote, Binds
  <1>5. entity.roles \in Seq([role : Nat, resource : Nat \cup {None}, narrow : BOOLEAN])
    BY <1>2, ChangeAt DEF Entities
  <1>6. RowsStay
    BY <1>1 DEF RowsStay, Alike
  <1>7. used.calm => \A i \in DOMAIN plan : BoundSoFar(i)'
    <2> SUFFICES ASSUME used.calm, NEW i \in DOMAIN plan
                 PROVE  BoundSoFar(i)'
      OBVIOUS
    <2>1. ASSUME NEW k, Reached(i, k)', plan[i].entity.kind \in Subjects,
                 k \in DOMAIN plan[i].entity.roles
          PROVE  Reached(i, k)
      <3>1. CASE i = at
        <4>1. k \in DOMAIN entity.roles
          BY <2>1, <3>1 DEF entity, change
        <4>2. k < role
          BY <1>1, <1>2, <1>5, <4>1
        <4> QED
          BY <1>1, <3>1, <4>2 DEF Reached, Reconciling
      <3>2. CASE i # at
        BY <1>1, <1>2, <1>3, <2>1, <3>2 DEF Reached, Reconciling
      <3> QED
        BY <3>1, <3>2
    <2>2. BoundSoFar(i) /\ plan'[i] = plan[i]
      BY <1>1 DEF ConvergeInv, Ongoing
    <2>3. PICK e, id : e = plan[i].entity /\ id = plan[i].id
      OBVIOUS
    <2> QED
      BY <1>1, <1>6, <2>1, <2>2, <2>3, BoundStays
  <1>8. HeldStill' /\ pc' \notin Binds /\ Ongoing
    BY <1>1 DEF HeldStill, Reconciling, Binds, Ongoing
  <1> QED
    BY <1>1, <1>4, <1>7, <1>8, QuietConverges

\* The change apply() is at stays, and so does what it has done before.
LEMMA FramedConverges ==
    ASSUME PlanInv, ConvergeInv, pc \in Binds, pc' \in Binds,
           UNCHANGED <<rows, manifest, plan, at, ids>>, used'.calm => used.calm,
           used'.calm => (\A i \in DOMAIN plan : BoundSoFar(i)') /\ HeldStill'
    PROVE  ConvergeInv'
  <1>1. \A i \in DOMAIN plan : (HasId(i)' <=> HasId(i)) /\ (Settled(i)' <=> Settled(i))
    BY DEF HasId, Settled, Wrote
  <1>2. Ongoing /\ pc' # "idle"
    BY DEF Ongoing, Binds
  <1>3. plan'[at'].action # "unchanged"
    BY DEF ConvergeInv, change
  <1> QED
    BY <1>1, <1>2, <1>3, QuietConverges

LEMMA ReadHeldConverges ==
    ASSUME PlanInv, ConvergeInv, ReadHeld
    PROVE  ConvergeInv'
  <1>1. /\ pc = "held" /\ pc \in Binds /\ pc' = "binding" /\ pc' \in Binds /\ role' = 1
        /\ held' \subseteq bindings
        /\ UNCHANGED <<rows, bindings, manifest, plan, at, ids, used>>
    BY DEF ReadHeld, tenant, Binds
  <1>2. RowsStay
    BY <1>1 DEF RowsStay, Alike
  <1>3. used.calm => \A i \in DOMAIN plan : BoundSoFar(i)'
    <2> SUFFICES ASSUME used.calm, NEW i \in DOMAIN plan
                 PROVE  BoundSoFar(i)'
      OBVIOUS
    <2>1. plan[i].entity \in Entities
      BY PlannedEntity
    <2>2. plan[i].entity.roles \in Seq([role : Nat, resource : Nat \cup {None}, narrow : BOOLEAN])
      BY <2>1 DEF Entities
    <2>3. \A k : Reached(i, k)' => Reached(i, k) \/ k \notin DOMAIN plan[i].entity.roles
      BY <1>1, <2>2 DEF Reached, Reconciling
    <2>4. BoundSoFar(i) /\ plan'[i] = plan[i]
      BY <1>1 DEF ConvergeInv, Ongoing
    <2>5. PICK e, id : e = plan[i].entity /\ id = plan[i].id
      OBVIOUS
    <2> QED
      BY <1>1, <1>2, <2>3, <2>4, <2>5, BoundStays
  <1>4. HeldStill'
    BY <1>1 DEF HeldStill, Current
  <1> QED
    BY <1>1, <1>3, <1>4, FramedConverges

\* The declared binding is the subject's: on to the next.
LEMMA NextConverges ==
    ASSUME PlanInv, ConvergeInv, pc \in Reconciling, pc' = "binding", role' = role + 1,
           Framed, bindings \subseteq bindings', used'.calm => used.calm,
           NEW s, NEW b, s = plan[at].id, b = declared, used'.calm => HasBinding(s, b)'
    PROVE  ConvergeInv'
  <1>1. pc \in Binds /\ pc' \in Binds /\ UNCHANGED <<rows, manifest, plan, at, ids, held>>
    BY DEF Reconciling, Binds, Framed
  <1>2. at \in DOMAIN plan /\ role \in Nat \ {0} /\ RowsStay /\ entity' = entity
    BY <1>1, InPlan DEF PlanInv, ManifestTyped, RowsStay, Alike, entity, change
  <1>3. used'.calm => \A i \in DOMAIN plan : BoundSoFar(i)'
    <2> SUFFICES ASSUME used'.calm, NEW i \in DOMAIN plan
                 PROVE  BoundSoFar(i)'
      OBVIOUS
    <2>1. PICK e, id : e = plan[i].entity /\ id = plan[i].id
      OBVIOUS
    <2>2. BoundSoFar(i) /\ plan'[i] = plan[i]
      BY <1>1 DEF ConvergeInv, Ongoing, Binds
    <2>3. e.roles \in Seq([role : Nat, resource : Nat \cup {None}, narrow : BOOLEAN])
      BY <2>1, PlannedEntity DEF Entities
    <2>4. ASSUME NEW k \in DOMAIN e.roles, Reached(i, k)'
          PROVE  Reached(i, k) \/ (i = at /\ k = role)
      BY <1>1, <1>2, <2>3, <2>4 DEF Reached
    <2>5. \A k : i = at /\ k = role => id = s /\ e.roles[k] = b
      BY <2>1 DEF declared, entity, change
    <2>6. \A k \in DOMAIN e.roles : Reached(i, k)' => Reached(i, k) \/ HasBinding(id, e.roles[k])'
      BY <2>4, <2>5
    <2> QED
      BY <1>1, <1>2, <2>1, <2>2, <2>6, BoundStays
  <1>4. used'.calm => HeldStill'
    <2> SUFFICES ASSUME used'.calm, NEW k \in DOMAIN entity.roles, role + 1 <= k
                 PROVE  Current(held, entity.roles[k])' \subseteq bindings'
      <3>1. \A k \in DOMAIN entity.roles : k \in Nat
        <4>1. entity.roles \in Seq([role : Nat, resource : Nat \cup {None}, narrow : BOOLEAN])
          BY <1>2, ChangeAt DEF Entities
        <4> QED
          BY <4>1
      <3> QED
        BY <1>2, <3>1 DEF HeldStill
    <2>1. k \in Nat
      <3>1. entity.roles \in Seq([role : Nat, resource : Nat \cup {None}, narrow : BOOLEAN])
        BY <1>2, ChangeAt DEF Entities
      <3> QED
        BY <3>1
    <2>2. role < k
      BY <1>2, <2>1
    <2>3. Current(held, entity.roles[k]) \subseteq bindings
      BY <2>2 DEF ConvergeInv, HeldStill, Ongoing, Reconciling
    <2>4. Current(held, entity.roles[k])' = Current(held, entity.roles[k])
      <3> DEFINE c == entity.roles[k]
      <3>1. c' = c
        BY <1>2
      <3> HIDE DEF c
      <3>2. Current(held, c)' = Current(held, c)
        BY <1>1, <3>1, CurrentStays
      <3> QED
        BY <3>2 DEF c
    <2> QED
      BY <2>3, <2>4
  <1> QED
    BY <1>1, <1>3, <1>4, FramedConverges

LEMMA AlreadyBoundConverges ==
    ASSUME PlanInv, BindInv, ConvergeInv, AlreadyBound
    PROVE  ConvergeInv'
  <1>1. /\ pc = "binding" /\ pc \in Reconciling /\ pc \in Binds /\ role <= Len(entity.roles)
        /\ pc' = "binding" /\ role' = role + 1 /\ Framed /\ UNCHANGED <<bindings, used>>
        /\ ~Rebinding /\ Ongoing
    BY DEF AlreadyBound, Reconciling, Binds, Framed, tenant, Rebinding, Ongoing
  <1>2. PICK s, b : s = plan[at].id /\ b = declared
    OBVIOUS
  <1>3. ASSUME used.calm PROVE HasBinding(s, b)
    <2>1. PICK x \in Current(held, declared) :
              BindingSatisfied(x, declared, Wanted(None).resource)
      BY DEF AlreadyBound
    <2>2. /\ role \in DOMAIN entity.roles
          /\ IF declared.resource = None THEN Wanted(None).resource = None
             ELSE Bears("resource", Wanted(None).resource, ResourceName(declared))
      BY <1>1, WantedNamed
    <2>3. x \in held /\ Bears("role", x.role, RoleName(declared))
      BY DEF Current, Bears
    <2>4. x \in bindings
      BY <1>1, <1>3, <2>2 DEF ConvergeInv, HeldStill, declared
    <2>5. x.subject = s
      <3>1. x.subject = subject
        BY <1>1, <2>3 DEF BindInv, HeldKnown, Reconciling
      <3>2. Matched(at)
        BY <1>1, InPlan DEF ConvergeInv
      <3> QED
        BY <1>1, <1>2, <3>1, <3>2, SubjectMatched
    <2>6. x.narrow = declared.narrow /\ x.resource = Wanted(None).resource
      BY <2>1 DEF BindingSatisfied
    <2> QED
      BY <1>2, <2>2, <2>3, <2>4, <2>5, <2>6 DEF HasBinding
  <1>4. used.calm => HasBinding(s, b)'
    <2>1. RowsStay
      BY <1>1 DEF Framed, RowsStay, Alike
    <2> QED
      BY <1>1, <1>3, <2>1, HasBindingStays DEF Framed
  <1> QED
    BY <1>1, <1>2, <1>4, NextConverges

\* The tenant has the declared binding once it was written.
LEMMA WantedBinds ==
    ASSUME PlanInv, ConvergeInv, pc \in Reconciling, role <= Len(entity.roles), Framed,
           NEW scope, Wanted(scope) \in bindings', NEW s, NEW b, s = plan[at].id, b = declared
    PROVE  HasBinding(s, b)'
  <1>1. pc \in Binds /\ Ongoing
    BY DEF Reconciling, Binds, Ongoing
  <1>2. /\ Wanted(scope).subject = subject /\ Wanted(scope).narrow = b.narrow
        /\ Bears("role", Wanted(scope).role, RoleName(b))
        /\ IF b.resource = None THEN Wanted(scope).resource = None
           ELSE Bears("resource", Wanted(scope).resource, ResourceName(b))
    BY <1>1, WantedNamed
  <1>3. subject = s
    BY <1>1, InPlan, SubjectMatched DEF ConvergeInv
  <1>4. PICK x \in bindings' : x = Wanted(scope)
    OBVIOUS
  <1>5. RoleName(b)' = RoleName(b) /\ ResourceName(b)' = ResourceName(b)
    BY NamesStay DEF Framed
  <1>6. \A kind, id, name : Bears(kind, id, name) =>
            \E r \in rows' : r.kind = kind /\ r.id = id /\ r.name = name
    BY DEF Bears, Framed
  <1> QED
    BY <1>2, <1>3, <1>4, <1>5, <1>6 DEF HasBinding, Bears

LEMMA CalmAssign ==
    ASSUME PlanInv, NEW x, NEW ending,
           Assignable(x) => Spend(ending), ~Assignable(x) => UNCHANGED used
    PROVE  used'.calm => used.calm
BY CalmSpend

LEMMA AssignAbsentConverges ==
    ASSUME PlanInv, ConvergeInv, NEW ending, AssignAbsent(ending)
    PROVE  ConvergeInv'
  <1> DEFINE x == Wanted(None)
  <1>1. /\ pc = "binding" /\ pc \in Reconciling /\ role <= Len(entity.roles)
        /\ Assign(x, ending, NextBinding, Report("failed") /\ UNCHANGED role)
    BY DEF AssignAbsent, Reconciling
  <1>2. x = Wanted(None)
    OBVIOUS
  <1> HIDE DEF x
  <1>3. /\ Framed /\ (used'.calm => used.calm)
        /\ \/ NextBinding /\ bindings' = bindings \cup {x}
           \/ Report("failed")
    BY <1>1, CalmAssign DEF Assign, Framed
  <1>4. CASE NextBinding /\ bindings' = bindings \cup {x}
    <2>1. PICK s, b : s = plan[at].id /\ b = declared
      OBVIOUS
    <2>2. pc' = "binding" /\ role' = role + 1 /\ bindings \subseteq bindings' /\ x \in bindings'
      BY <1>4 DEF NextBinding
    <2>3. HasBinding(s, b)'
      BY <1>1, <1>2, <1>3, <2>1, <2>2, WantedBinds
    <2> QED
      BY <1>1, <1>3, <2>1, <2>2, <2>3, NextConverges
  <1>5. CASE Report("failed")
    <2>1. pc' = "idle" /\ status' = "failed"
      BY <1>5 DEF Report
    <2> QED
      BY <1>3, <2>1, StopConverges DEF Framed
  <1> QED
    BY <1>3, <1>4, <1>5

\* What is still to be looked at is untouched while one binding is replaced.
LEMMA ReplacingConverges ==
    ASSUME PlanInv, ConvergeInv, NamesTellApart, pc \in Reconciling, pc' \in Reconciling,
           Rebinding', role \in DOMAIN entity.roles, Framed, UNCHANGED role,
           used'.calm => used.calm,
           NEW o, o.subject = subject, Bears("role", o.role, RoleName(declared)),
           \A x \in bindings : x \in bindings' \/ x = o
    PROVE  ConvergeInv'
  <1>1. /\ pc \in Binds /\ pc' \in Binds /\ Ongoing /\ pc # "idle"
        /\ UNCHANGED <<rows, manifest, plan, at, ids, held>>
    BY DEF Reconciling, Binds, Framed, Ongoing
  <1>2. /\ at \in DOMAIN plan /\ entity = plan[at].entity /\ entity' = entity
        /\ subject = plan[at].id /\ entity.kind \in Subjects /\ entity \in ToSet(manifest)
        /\ InOrder /\ HasId(at) /\ \A i \in DOMAIN plan : Matched(i)
    BY <1>1, InPlan, SubjectMatched, ChangeAt
    DEF ConvergeInv, PlanInv, ManifestTyped, HasId, Wrote, entity, change
  <1>3. /\ role \in Nat /\ RowsStay
        /\ entity.roles \in Seq([role : Nat, resource : Nat \cup {None}, narrow : BOOLEAN])
    BY <1>1, <1>2, ChangeAt DEF PlanInv, ManifestTyped, RowsStay, Alike, Entities
  <1>4. \A k \in DOMAIN entity.roles : k # role => ~Bears("role", o.role, RoleName(entity.roles[k]))
    BY <1>1, <1>2, BindingsApart DEF declared
  <1>5. used'.calm => \A i \in DOMAIN plan : BoundSoFar(i)'
    <2> SUFFICES ASSUME used.calm, NEW i \in DOMAIN plan, plan[i].entity.kind \in Subjects,
                        NEW k \in DOMAIN plan[i].entity.roles, Reached(i, k)
                 PROVE  HasBinding(plan[i].id, plan[i].entity.roles[k])'
      BY <1>1 DEF BoundSoFar, Reached
    <2>1. PICK id, b : id = plan[i].id /\ b = plan[i].entity.roles[k]
      OBVIOUS
    <2>2. HasBinding(id, b)
      BY <1>1, <2>1 DEF ConvergeInv, BoundSoFar
    <2>3. o.subject # id \/ ~Bears("role", o.role, RoleName(b))
      <3>1. CASE i = at
        <4>1. plan[at].action # "unchanged" /\ at \in Nat
          BY <1>1 DEF ConvergeInv, change, PlanInv, ManifestTyped
        <4>2. k < role
          BY <3>1, <4>1 DEF Reached
        <4>3. k \in DOMAIN entity.roles /\ k # role /\ b = entity.roles[k]
          BY <1>2, <1>3, <2>1, <3>1, <4>2
        <4> QED
          BY <1>4, <4>3
      <3>2. CASE i # at
        <4>1. HasId(i)
          BY <3>2 DEF Reached, HasId, Wrote
        <4> QED
          BY <1>2, <2>1, <3>2, <4>1, SubjectsApart
      <3> QED
        BY <3>1, <3>2
    <2>4. HasBinding(id, b)'
      BY <1>1, <1>3, <2>2, <2>3, HasBindingStays
    <2>5. plan'[i].id = id /\ plan'[i].entity.roles[k] = b
      BY <1>1, <2>1
    <2> QED
      BY <2>4, <2>5
  <1>6. used'.calm => HeldStill'
    <2> SUFFICES ASSUME used'.calm, NEW k \in DOMAIN entity.roles, role < k
                 PROVE  Current(held, entity.roles[k])' \subseteq bindings'
      BY <1>1, <1>2 DEF HeldStill
    <2>1. PICK b : b = entity.roles[k]
      OBVIOUS
    <2>2. Current(held, b) \subseteq bindings
      BY <1>1, <2>1 DEF ConvergeInv, HeldStill
    <2>3. o \notin Current(held, b)
      <3>1. k # role
        BY <1>3
      <3>2. ~Bears("role", o.role, RoleName(b))
        BY <1>4, <2>1, <3>1
      <3> QED
        BY <3>2 DEF Current, Bears
    <2>4. Current(held, b)' = Current(held, b) /\ entity'.roles[k] = b
      BY <1>1, <1>2, <2>1, CurrentStays
    <2> QED
      BY <2>2, <2>3, <2>4
  <1> QED
    BY <1>1, <1>5, <1>6, FramedConverges

LEMMA UnassignConverges ==
    ASSUME PlanInv, BindInv, ConvergeInv, NamesTellApart, NEW ending, Unassign(ending)
    PROVE  ConvergeInv'
  <1>1. /\ pc = "binding" /\ pc \in Reconciling /\ pc \in Binds /\ role <= Len(entity.roles)
        /\ Current(held, declared) # {} /\ Spend(ending) /\ Framed /\ UNCHANGED role
    BY DEF Unassign, Reconciling, Binds, progress, Framed
  <1>2. PICK o : o = Old
    OBVIOUS
  <1>3. o.subject = subject /\ Bears("role", o.role, RoleName(declared))
    BY <1>1, <1>2, HeldSubject, OldIsHeld DEF Bears
  <1>4. CASE Report("failed")
    <2>1. pc' = "idle" /\ status' = "failed"
      BY <1>4 DEF Report
    <2> QED
      BY <1>1, <2>1, StopConverges DEF Framed
  <1>5. CASE ~Report("failed")
    <2>1. pc' = "rebinding" /\ \A x \in bindings : x \in bindings' \/ x = o
      BY <1>2, <1>5 DEF Unassign
    <2>2. Rebinding' /\ pc' \in Reconciling
      BY <2>1 DEF Rebinding, Reconciling
    <2>3. role \in DOMAIN entity.roles
      BY <1>1, WantedNamed
    <2>4. used'.calm => used.calm
      BY <1>1, CalmSpend
    <2> QED
      BY <1>1, <1>3, <2>1, <2>2, <2>3, <2>4, ReplacingConverges
  <1> QED
    BY <1>4, <1>5

LEMMA RebindConverges ==
    ASSUME PlanInv, BindInv, ConvergeInv, NamesTellApart, NEW ending, Rebind(ending)
    PROVE  ConvergeInv'
  <1> DEFINE x == Wanted(Old.scope)
  <1>1. /\ pc = "rebinding" /\ pc \in Reconciling /\ pc \in Binds
        /\ role <= Len(entity.roles) /\ Current(held, declared) # {}
        /\ Assign(x, ending, NextBinding,
                  pc' = "restoring" /\ UNCHANGED <<role, status, secrets, accused>>)
    BY DEF Rebind, Reconciling, Rebinding, Binds, BindInv, HeldKnown
  <1>2. PICK sc : x = Wanted(sc)
    OBVIOUS
  <1> HIDE DEF x
  <1>3. /\ Framed /\ (used'.calm => used.calm) /\ bindings \subseteq bindings'
        /\ \/ NextBinding /\ bindings' = bindings \cup {x}
           \/ pc' = "restoring" /\ UNCHANGED role
    BY <1>1, CalmAssign DEF Assign, Framed
  <1>4. CASE NextBinding /\ bindings' = bindings \cup {x}
    <2>1. PICK s, b : s = plan[at].id /\ b = declared
      OBVIOUS
    <2>2. pc' = "binding" /\ role' = role + 1 /\ bindings \subseteq bindings' /\ x \in bindings'
      BY <1>4 DEF NextBinding
    <2>3. HasBinding(s, b)'
      BY <1>1, <1>2, <1>3, <2>1, <2>2, WantedBinds
    <2> QED
      BY <1>1, <1>3, <2>1, <2>2, <2>3, NextConverges
  <1>5. CASE pc' = "restoring" /\ UNCHANGED role
    <2>1. PICK o : o = Old
      OBVIOUS
    <2>2. o.subject = subject /\ Bears("role", o.role, RoleName(declared))
      BY <1>1, <2>1, HeldSubject, OldIsHeld DEF Bears
    <2>3. Rebinding' /\ pc' \in Reconciling
      BY <1>5 DEF Rebinding, Reconciling
    <2>4. role \in DOMAIN entity.roles
      BY <1>1, WantedNamed
    <2>5. \A y \in bindings : y \in bindings' \/ y = o
      BY <1>3
    <2> QED
      BY <1>1, <1>3, <1>5, <2>2, <2>3, <2>4, <2>5, ReplacingConverges
  <1> QED
    BY <1>3, <1>4, <1>5

LEMMA RestoreConverges ==
    ASSUME ConvergeInv, NEW ending, Restore(ending)
    PROVE  ConvergeInv'
  <1>1. pc' = "idle" /\ status' = "failed" /\ UNCHANGED manifest
    BY DEF Restore, Assign, Report
  <1> QED
    BY <1>1, StopConverges

\* The entity's own write: its object is as declared, the others are untouched.
WroteRows(e, id) ==
    /\ RowsMove
    /\ \E q \in rows' : Fit(e, q) /\ q.id = id
    /\ \A q \in rows' : Fit(e, q) => q.id = id /\ ~MembersDiffer(e, q)
    /\ \A q \in rows' : Fit(e, q) \/ q \in rows
    /\ \A r \in rows : Fit(e, r) \/ r \in rows'

\* Which changes are behind once a write was answered.
LEMMA WrittenMoves ==
    ASSUME PlanInv, pc = "next", at \in DOMAIN plan, NEW id, Written(id), SamePlan,
           change.action # "unchanged"
    PROVE  /\ \A i \in DOMAIN plan : i = at => HasId(i)' /\ Settled(i)'
           /\ \A i \in DOMAIN plan : i # at =>
                 (HasId(i)' <=> HasId(i)) /\ (Settled(i)' <=> Settled(i))
           /\ \A i \in DOMAIN plan : \A k : Reached(i, k)' =>
                 Reached(i, k) \/ (i = at /\ (entity.kind \in Subjects => entity.roles = <<>>))
           /\ pc' \in {"held", "next"}
           /\ pc' = "held" => at' = at
  <1>1. at \in Nat \ {0} /\ at <= Len(plan) /\ plan \in Seq(ChangeType)
    BY DEF PlanInv, ManifestTyped
  <1>2. \/ pc' = "held" /\ at' = at
        \/ /\ pc' = "next" /\ at' = Pending(plan, at)
           /\ entity.kind \in Subjects => entity.roles = <<>>
    BY DEF Written, Applied
  <1>3. /\ Pending(plan, at) \in Nat /\ at < Pending(plan, at)
        /\ \A i \in DOMAIN plan : at < i /\ i < Pending(plan, at) => plan[i].action = "unchanged"
    BY <1>1, PendingNext
  <1>4. \A i \in DOMAIN plan : plan'[i].action = plan[i].action /\ i \in Nat
    BY <1>1 DEF SamePlan
  <1>5. \A i \in DOMAIN plan : i = at => HasId(i)' /\ Settled(i)'
    BY <1>1, <1>2, <1>3 DEF HasId, Settled, Wrote, Binds
  <1>6. ASSUME NEW i \in DOMAIN plan, i # at
        PROVE  (HasId(i)' <=> HasId(i)) /\ (Settled(i)' <=> Settled(i))
    BY <1>1, <1>2, <1>3, <1>4, <1>6 DEF HasId, Settled, Wrote, Binds
  <1>7. ASSUME NEW i \in DOMAIN plan, NEW k, Reached(i, k)'
        PROVE  Reached(i, k) \/ (i = at /\ (entity.kind \in Subjects => entity.roles = <<>>))
    <2>1. pc' \notin Reconciling
      BY <1>2 DEF Reconciling
    <2>2. i < at' \/ plan[i].action = "unchanged"
      BY <1>4, <1>7, <2>1 DEF Reached
    <2> QED
      BY <1>1, <1>2, <1>3, <1>4, <2>2 DEF Reached, change
  <1> QED
    BY <1>2, <1>5, <1>6, <1>7

LEMMA WrittenConverges ==
    ASSUME PlanInv, ConvergeInv, NamesTellApart, pc = "next", at \in DOMAIN plan,
           change.action # "unchanged", NEW id, Written(id), SamePlan,
           plan'[at].id = id, \A i \in DOMAIN plan : i # at => plan'[i].id = plan[i].id,
           WroteRows(entity, id), UNCHANGED <<manifest, bindings>>, used'.calm => used.calm
    PROVE  ConvergeInv'
  <1>1. PICK e : e = entity
    OBVIOUS
  <1>2. /\ e = plan[at].entity /\ Ongoing /\ InOrder /\ \A i \in DOMAIN plan : Matched(i)
        /\ RowsMove /\ WroteRows(e, id) /\ RowsStay
    BY <1>1, RowsMoveKeeps DEF entity, change, Ongoing, ConvergeInv, WroteRows
  <1>3. \A i \in DOMAIN plan : plan'[i].entity = plan[i].entity
    BY DEF SamePlan
  <1>4. /\ \A i \in DOMAIN plan : i = at => HasId(i)' /\ Settled(i)'
        /\ \A i \in DOMAIN plan : i # at =>
              (HasId(i)' <=> HasId(i)) /\ (Settled(i)' <=> Settled(i))
        /\ \A i \in DOMAIN plan : \A k : Reached(i, k)' =>
              Reached(i, k) \/ (i = at /\ (e.kind \in Subjects => e.roles = <<>>))
        /\ pc' \in {"held", "next"}
        /\ pc' = "held" => at' = at
    BY <1>1, WrittenMoves
  <1>5. ids' = {x \in ids : ~(x.kind = e.kind /\ x.key = e.key)}
                 \cup {[kind |-> e.kind, key |-> e.key, id |-> id]}
    BY <1>1 DEF Written, Learn
  <1>6. ASSUME NEW i \in DOMAIN plan, NEW f, f = plan[i].entity
        PROVE  /\ i = at => Resolved(f.kind, f.key)' = {id}
               /\ i # at => Resolved(f.kind, f.key)' = Resolved(f.kind, f.key)
    <2>1. CASE i = at
      <3>1. PICK new : new = [kind |-> e.kind, key |-> e.key, id |-> id]
        OBVIOUS
      <3>2. f = e /\ new.kind = e.kind /\ new.key = e.key /\ new.id = id
        BY <1>2, <1>6, <2>1, <3>1
      <3>3. {y \in ids' : y.kind = f.kind /\ y.key = f.key} = {new}
        BY <1>5, <3>1, <3>2
      <3>4. Resolved(f.kind, f.key)' = {x.id : x \in {new}}
        BY <3>3 DEF Resolved
      <3> QED
        BY <2>1, <3>2, <3>4
    <2>2. CASE i # at
      <3>1. e # f
        BY <1>2, <1>6, <2>2 DEF InOrder
      <3>2. e.kind # f.kind \/ e.key # f.key
        BY <1>2, <1>6, <3>1, PlannedEntity, KeyedOnce
        DEF PlanInv, ManifestTyped, InOrder, Declared
      <3> QED
        BY <1>5, <2>2, <3>2 DEF Resolved
    <2> QED
      BY <2>1, <2>2
  <1>7. ASSUME NEW i \in DOMAIN plan
        PROVE  Matched(i)' /\ (used'.calm => Agreed(i)')
    <2>1. PICK f, old : f = plan[i].entity /\ old = plan[i].id
      OBVIOUS
    <2>2. \A q \in rows' : Fit(f, q)' <=> Fit(f, q)
      BY <1>2, FitSame
    <2>3. plan'[i].entity = f
      BY <1>3, <2>1
    <2>4. CASE i = at
      <3>1. f = e /\ plan'[i].id = id /\ HasId(i)' /\ Resolved(f.kind, f.key)' = {id}
        BY <1>2, <1>4, <1>6, <2>1, <2>4
      <3>2. Matched(i)'
        BY <1>2, <2>2, <2>3, <3>1 DEF Matched, WroteRows
      <3>3. Agreed(i)'
        BY <1>2, <2>2, <2>3, <3>1 DEF Agreed, WroteRows, MembersDiffer
      <3> QED
        BY <3>2, <3>3
    <2>5. CASE i # at
      <3>1. /\ plan'[i].id = old /\ (HasId(i)' <=> HasId(i)) /\ (Settled(i)' <=> Settled(i))
            /\ Resolved(f.kind, f.key)' = Resolved(f.kind, f.key)
        BY <1>4, <1>6, <2>1, <2>5
      <3>2. \A q : Fit(f, q) => ~Fit(e, q)
        BY <1>2, <2>1, <2>5, FitOnce
      <3>3. \A q \in rows' : Fit(f, q)' => q \in rows /\ Fit(f, q)
        BY <1>2, <2>2, <3>2 DEF WroteRows
      <3>4. \A r \in rows : Fit(f, r) => r \in rows' /\ Fit(f, r)'
        BY <1>2, <2>2, <3>2 DEF WroteRows
      <3>5. /\ HasId(i) => /\ \E r \in rows : Fit(f, r) /\ r.id = old
                           /\ Resolved(f.kind, f.key) = {old}
            /\ \A r \in rows : Fit(f, r) => HasId(i) /\ r.id = old
        BY <1>2, <2>1 DEF Matched
      <3>6. Matched(i)'
        BY <2>3, <3>1, <3>3, <3>4, <3>5 DEF Matched
      <3>7. used'.calm => Agreed(i)'
        <4>1. used'.calm => Agreed(i)
          BY <1>2 DEF ConvergeInv
        <4> QED
          BY <2>1, <2>3, <3>1, <3>3, <4>1 DEF Agreed, MembersDiffer
      <3> QED
        BY <3>6, <3>7
    <2> QED
      BY <2>4, <2>5
  <1>8. ASSUME used'.calm, NEW i \in DOMAIN plan
        PROVE  BoundSoFar(i)'
    <2>1. PICK f, old : f = plan[i].entity /\ old = plan[i].id
      OBVIOUS
    <2>2. BoundSoFar(i) /\ plan'[i].entity = f
      BY <1>2, <1>3, <1>8, <2>1 DEF ConvergeInv
    <2>3. ASSUME f.kind \in Subjects, NEW k \in DOMAIN f.roles, Reached(i, k)'
          PROVE  Reached(i, k) /\ plan'[i].id = old
      <3>1. Reached(i, k) /\ ~(i = at /\ f.roles = <<>>)
        BY <1>2, <1>4, <2>1, <2>3
      <3>2. i # at
        <4>1. pc \notin Reconciling /\ at \in Nat
          BY DEF Reconciling, PlanInv, ManifestTyped
        <4> QED
          BY <3>1, <4>1 DEF Reached, change
      <3> QED
        BY <2>1, <3>1, <3>2
    <2> QED
      BY <1>2, <2>1, <2>2, <2>3, BoundStays
  <1>9. InOrder' /\ HeldStill' /\ ExtraOnNetwork'
    BY <1>2, <1>4, InOrderStays DEF HeldStill, Reconciling, ConvergeInv, ExtraOnNetwork
  <1>10. pc' # "idle" /\ (pc' \in Binds => plan'[at'].action # "unchanged")
    BY <1>4 DEF SamePlan, Binds, change
  <1>11. DOMAIN plan' = DOMAIN plan
    BY DEF SamePlan
  <1> QED
    BY <1>7, <1>8, <1>9, <1>10, <1>11 DEF ConvergeInv, change

\* What the tenant and the plan are once a write of the entity was answered.
WroteIt(id) ==
    /\ Written(id) /\ SamePlan /\ WroteRows(entity, id)
    /\ plan'[at].id = id /\ \A i \in DOMAIN plan : i # at => plan'[i].id = plan[i].id
    /\ UNCHANGED <<manifest, bindings>>

LEMMA CreateWrote ==
    ASSUME PlanInv, ConvergeInv, Create("done"), NEW id, id = NewId
    PROVE  WroteIt(id)
  <1>1. /\ pc = "next" /\ at <= Len(plan) /\ ~Unresolved /\ change.action = "create" /\ Creatable
        /\ UNCHANGED <<manifest, bindings>> /\ Ongoing
        /\ Written(NewId) /\ KeepSecret(NewId) /\ rows' = rows \cup {Row}
    BY DEF Create, Ongoing
  <1>2. at \in DOMAIN plan /\ NewId \in Nat
    BY <1>1, InPlan, NewIdIsNumber
  <1>3. /\ SamePlan /\ plan'[at].id = NewId
        /\ \A i \in DOMAIN plan : i # at => plan'[i].id = plan[i].id
    BY <1>1, <1>2, SecretNoted
  <1>4. RowsMove
    BY <1>1, <1>2, CreateAdds DEF RowsMove
  <1>5. /\ Row.kind = entity.kind /\ Row.id = NewId /\ Row.name = entity.name
        /\ Row.text = entity.text /\ Row.extra = entity.extra
    BY DEF Row
  <1>6. Fit(entity, Row) /\ ~MembersDiffer(entity, Row)
    BY <1>1, <1>2, <1>5, SegmentNumbered DEF Fit, MembersDiffer
  <1>7. \A r \in rows : ~Fit(entity, r)
    <2>1. at \in Nat /\ ~HasId(at)
      BY <1>1 DEF HasId, Wrote, Binds, change, PlanInv, ManifestTyped
    <2>2. Matched(at)
      BY <1>1, <1>2 DEF ConvergeInv
    <2> QED
      BY <2>1, <2>2 DEF Matched, entity, change
  <1>8. WroteRows(entity, id)
    BY <1>1, <1>4, <1>5, <1>6, <1>7 DEF WroteRows
  <1> QED
    BY <1>1, <1>3, <1>8 DEF WroteIt

LEMMA CreateConverges ==
    ASSUME PlanInv, ConvergeInv, NamesTellApart, NEW ending \in Endings, Create(ending)
    PROVE  ConvergeInv'
  <1>1. /\ pc = "next" /\ at <= Len(plan) /\ change.action = "create"
        /\ Spend(ending) /\ UNCHANGED <<manifest, bindings>>
    BY DEF Create
  <1>2. at \in DOMAIN plan /\ (used'.calm => used.calm)
    BY <1>1, InPlan, CalmSpend
  <1>3. CASE ending # "done"
    <2>1. pc' = "idle" /\ status' = "failed"
      BY <1>3 DEF Create, Report
    <2> QED
      BY <1>1, <2>1, StopConverges
  <1>4. CASE ending = "done"
    <2>1. PICK id : id = NewId
      OBVIOUS
    <2>2. WroteIt(id)
      BY <1>4, <2>1, CreateWrote
    <2> QED
      BY <1>1, <1>2, <2>2, WrittenConverges DEF WroteIt
  <1> QED
    BY <1>3, <1>4

\* An update finds the one object of its entity, and what it was planned for is it.
LEMMA TargetFits ==
    ASSUME PlanInv, ConvergeInv, pc = "next", at \in DOMAIN plan, change.action = "update"
    PROVE  /\ Fit(entity, Target) /\ Target.id = change.id /\ Target \in rows
           /\ \A r \in rows : Fit(entity, r) => r = Target
  <1>1. Matched(at) /\ HasId(at)
    BY DEF ConvergeInv, Ongoing, HasId, change
  <1>2. /\ \E r \in rows : Fit(entity, r) /\ r.id = change.id
        /\ \A r \in rows : Fit(entity, r) => r.id = change.id
    BY <1>1 DEF Matched, entity, change
  <1>3. Target \in rows /\ Target.kind = entity.kind /\ Target.id = change.id
    <2>1. change.read.kind = entity.kind /\ change.read.id = change.id
      BY ChangeAt DEF PlannedAs, PlannedFrom, entity
    <2> QED
      BY <2>1, TargetIsRow DEF Alike
  <1>4. \A r \in rows : Fit(entity, r) => r = Target
    BY <1>2, <1>3 DEF Fit, PlanInv, Numbered
  <1> QED
    BY <1>2, <1>3, <1>4

LEMMA UpdateWrote ==
    ASSUME PlanInv, ConvergeInv, Update("done"), NEW id, id = change.id
    PROVE  WroteIt(id)
  <1>1. /\ pc = "next" /\ at <= Len(plan) /\ change.action = "update"
        /\ UNCHANGED <<manifest, bindings, plan>>
        /\ Written(change.id) /\ rows' = (rows \ {Target}) \cup {Replaced}
    BY DEF Update
  <1>2. at \in DOMAIN plan
    BY <1>1, InPlan
  <1>3. Renewed(Target, Replaced)
    BY <1>1, <1>2, UpdateRenews
  <1>4. RowsMove /\ SamePlan
    BY <1>1, <1>3 DEF RowsMove, SamePlan, PlanInv, ManifestTyped
  <1>5. /\ Fit(entity, Target) /\ Target.id = change.id
        /\ \A r \in rows : Fit(entity, r) => r = Target
    BY <1>1, <1>2, TargetFits
  <1>6. Fit(entity, Replaced) /\ Replaced.id = change.id
    BY <1>3, <1>5 DEF Renewed, Fit
  <1>7. ~MembersDiffer(entity, Replaced)
    <2> DEFINE t == Target
               w == Replaced
               a == IF entity.text = None THEN t.text ELSE entity.text
               b == IF entity.kind \in Network THEN Carried(entity, change.read) ELSE t.extra
    <2>1. /\ Target \in Rows /\ change.read \in Rows /\ entity \in Entities
          /\ entity \in ToSet(manifest)
      BY <1>1, <1>2, TargetIsRow, ChangeAt DEF PlanInv, ManifestTyped
    <2>2. t \in Rows /\ w = Newer(t, a, b)
      BY <2>1 DEF Replaced, Newer
    <2>3. a \in Texts \cup {None} /\ b \in Texts \cup {None}
      BY <2>1 DEF Rows, Entities, Carried
    <2>4. entity.extra # None => entity.kind \in Network
      BY <2>1 DEF ConvergeInv, ExtraOnNetwork
    <2>5. (entity.text # None => a = entity.text) /\ (entity.extra # None => b = entity.extra)
      BY <2>4 DEF Carried
    <2>6. w = Replaced
      OBVIOUS
    <2> HIDE DEF t, w, a, b
    <2>7. w.text = a /\ w.extra = b
      BY <2>2, <2>3, RowUpdated
    <2> QED
      BY <2>5, <2>6, <2>7 DEF MembersDiffer
  <1>8. WroteRows(entity, id)
    BY <1>1, <1>4, <1>5, <1>6, <1>7 DEF WroteRows
  <1>9. plan'[at].id = id
    BY <1>1 DEF change
  <1> QED
    BY <1>1, <1>4, <1>8, <1>9 DEF WroteIt

LEMMA UpdateConverges ==
    ASSUME PlanInv, ConvergeInv, NamesTellApart, NEW ending \in Endings, Update(ending)
    PROVE  ConvergeInv'
  <1>1. /\ pc = "next" /\ at <= Len(plan) /\ change.action = "update"
        /\ Spend(ending) /\ UNCHANGED <<manifest, bindings, plan>>
    BY DEF Update
  <1>2. at \in DOMAIN plan /\ (used'.calm => used.calm)
    BY <1>1, InPlan, CalmSpend
  <1>3. CASE ending # "done"
    <2>1. pc' = "idle" /\ status' = "failed"
      BY <1>3 DEF Update, Report
    <2> QED
      BY <1>1, <2>1, StopConverges
  <1>4. CASE ending = "done"
    <2>1. PICK id : id = change.id
      OBVIOUS
    <2>2. WroteIt(id)
      BY <1>4, <2>1, UpdateWrote
    <2> QED
      BY <1>1, <1>2, <2>2, WrittenConverges DEF WroteIt
  <1> QED
    BY <1>3, <1>4

LEMMA BindingsOnlyWrote ==
    ASSUME PlanInv, ConvergeInv, BindingsOnly, NEW id, id = change.id
    PROVE  WroteIt(id)
  <1>1. /\ pc = "next" /\ at <= Len(plan) /\ change.action = "update" /\ Written(change.id)
        /\ UNCHANGED <<rows, manifest, bindings, plan, used>>
        /\ entity.kind \in Subjects /\ entity.text = None
    BY DEF BindingsOnly, tenant, SendsUpdate
  <1>2. at \in DOMAIN plan /\ RowsMove /\ SamePlan
    BY <1>1, InPlan DEF RowsMove, SamePlan, PlanInv, ManifestTyped
  <1>3. /\ Fit(entity, Target) /\ Target.id = change.id /\ Target \in rows
        /\ \A r \in rows : Fit(entity, r) => r = Target
    BY <1>1, <1>2, TargetFits
  <1>4. entity.extra = None
    <2>1. entity.kind \notin Network
      BY <1>1 DEF Subjects, Network
    <2> QED
      BY <1>2, <2>1, ChangeAt DEF ConvergeInv, ExtraOnNetwork
  <1>5. \A r : ~MembersDiffer(entity, r)
    BY <1>1, <1>4 DEF MembersDiffer
  <1>6. WroteRows(entity, id)
    BY <1>1, <1>2, <1>3, <1>5 DEF WroteRows
  <1>7. plan'[at].id = id
    BY <1>1 DEF change
  <1> QED
    BY <1>1, <1>2, <1>6, <1>7 DEF WroteIt

LEMMA BindingsOnlyConverges ==
    ASSUME PlanInv, ConvergeInv, NamesTellApart, BindingsOnly
    PROVE  ConvergeInv'
  <1>1. /\ pc = "next" /\ at <= Len(plan) /\ change.action = "update" /\ UNCHANGED used
    BY DEF BindingsOnly
  <1>2. at \in DOMAIN plan
    BY <1>1, InPlan
  <1>3. PICK id : id = change.id
    OBVIOUS
  <1>4. WroteIt(id)
    BY <1>3, BindingsOnlyWrote
  <1> QED
    BY <1>1, <1>2, <1>4, WrittenConverges DEF WroteIt

\* A subject that the plan leaves alone has its bindings.
LEMMA UnchangedBinds ==
    ASSUME NEW e, e.kind \in Subjects, NEW r, ~BindingsDiffer(e, r),
           NEW b, b \in ToSet(e.roles)
    PROVE  HasBinding(r.id, b)
  <1>1. PICK x \in Current({y \in bindings : y.subject = r.id}, b) :
            \E resource \in ScopedTo(b) : BindingSatisfied(x, b, resource)
    BY DEF BindingsDiffer
  <1>2. x \in bindings /\ x.subject = r.id /\ Bears("role", x.role, RoleName(b))
    BY <1>1 DEF Current, Bears
  <1>3. x.resource \in ScopedTo(b) /\ x.narrow = b.narrow
    BY <1>1 DEF BindingSatisfied
  <1>4. b.resource = None => x.resource = None
    BY <1>3 DEF ScopedTo
  <1>5. b.resource # None => Bears("resource", x.resource, ResourceName(b))
    BY <1>3 DEF ScopedTo, Scanned, Bears, ResourceName
  <1> QED
    BY <1>2, <1>3, <1>4, <1>5 DEF HasBinding

LEMMA PlanConverges ==
    ASSUME PlanInv, ConvergeInv, PageHoldsAll, Plan
    PROVE  ConvergeInv'
  <1>1. UNCHANGED <<rows, bindings, manifest>>
    BY DEF Plan, tenant
  <1>2. CASE ~Plannable
    <2>1. pc' = "idle" /\ status' = "refused"
      BY <1>2 DEF Plan
    <2> QED
      BY <1>1, <2>1, StopConverges
  <1>3. CASE Plannable
    <2>1. PICK order \in Bijection(DOMAIN manifest, DOMAIN manifest) : plan' = Changes(order)
      BY <1>3 DEF Plan
    <2>2. /\ ids' = Seeded(plan') /\ at' = Pending(plan', 0) /\ pc' = "next"
      BY <1>3 DEF Plan
    <2> DEFINE D == DOMAIN manifest
    <2>3. order \in [D -> D] /\ manifest \in Seq(Entities)
      BY <2>1 DEF Bijection, Injection, PlanInv, ManifestTyped
    <2>4. plan' = [k \in D |-> Change(manifest[order[k]])] /\ DOMAIN plan' = D
      BY <2>1 DEF Changes
    <2>5. PlanInv'
      BY PlanStep
    <2>6. InOrder' /\ plan' \in Seq(ChangeType)
      BY <2>2, <2>5 DEF PlanInv, Resolving, ManifestTyped
    <2>7. \A i \in D : i < at' => plan'[i].action = "unchanged"
      <3>1. /\ \A i \in DOMAIN plan' : 0 < i /\ i < at' => plan'[i].action = "unchanged"
            /\ Len(plan') \in Nat
        BY <2>2, <2>6, PendingNext
      <3>2. \A i \in D : i \in Nat /\ 0 < i
        BY <2>3
      <3> QED
        BY <2>4, <3>1, <3>2
    <2>8. \A i \in D : /\ HasId(i)' <=> plan'[i].action # "create"
                       /\ Settled(i)' <=> plan'[i].action = "unchanged"
                       /\ \A k : Reached(i, k)' => plan'[i].action = "unchanged"
      BY <2>2, <2>7 DEF HasId, Settled, Reached, Wrote, Binds, Reconciling
    <2>9. RowsStay /\ RowsMove
      BY <1>1 DEF RowsStay, RowsMove, Alike
    <2>10. ASSUME NEW i \in D
           PROVE  Matched(i)' /\ Agreed(i)' /\ BoundSoFar(i)'
      <3>1. PICK e : e = manifest[order[i]]
        OBVIOUS
      <3>2. e \in ToSet(manifest) /\ e \in Entities /\ ~Ambiguous(e)
        BY <1>3, <2>3, <3>1 DEF Plannable, ToSet
      <3>3. PICK c : c = Change(e)
        OBVIOUS
      <3>4. plan'[i] = c /\ c.entity = e /\ (c.id # None <=> c.action # "create")
        BY <2>4, <3>1, <3>2, <3>3, ChangePlanned DEF PlanInv, ManifestTyped
      <3>5. /\ c.action = "create" => \A r \in rows : ~Fit(e, r)
            /\ c.action # "create" =>
                  \E r \in rows :
                    /\ Fit(e, r) /\ r.id = c.id /\ \A q \in rows : Fit(e, q) => q = r
                    /\ c.action = "unchanged" <=> ~MembersDiffer(e, r) /\ ~BindingsDiffer(e, r)
        BY <3>2, <3>3, ChangeFits DEF PlanInv, ManifestTyped
      <3>6. \A r \in rows : Fit(e, r)' <=> Fit(e, r)
        BY <1>1, <2>9, FitSame
      <3>7. c.action # "create" => Resolved(e.kind, e.key)' = {c.id}
        <4> SUFFICES ASSUME c.action # "create" PROVE Resolved(e.kind, e.key)' = {c.id}
          OBVIOUS
        <4>1. ids' = {[kind |-> d.entity.kind, key |-> d.entity.key, id |-> d.id] :
                         d \in {f \in ToSet(plan') : f.id # None}}
          BY <2>2 DEF Seeded
        <4>2. PICK own : own = [kind |-> e.kind, key |-> e.key, id |-> c.id]
          OBVIOUS
        <4>3. c \in ToSet(plan')
          BY <2>4, <3>4 DEF ToSet
        <4>4. own \in ids' /\ own.kind = e.kind /\ own.key = e.key /\ own.id = c.id
          BY <3>4, <4>1, <4>2, <4>3
        <4>5. ASSUME NEW x \in ids', x.kind = e.kind, x.key = e.key
              PROVE  x.id = c.id
          <5>1. PICK d \in ToSet(plan') :
                    x = [kind |-> d.entity.kind, key |-> d.entity.key, id |-> d.id]
            BY <4>1
          <5>2. PICK j \in D : d = plan'[j]
            BY <2>4, <5>1 DEF ToSet
          <5>3. d = Change(manifest[order[j]]) /\ manifest[order[j]] \in ToSet(manifest)
            BY <2>3, <2>4, <5>2 DEF ToSet
          <5>4. d.entity = manifest[order[j]]
            BY <2>3, <5>3, ChangePlanned DEF PlanInv, ManifestTyped
          <5>5. Keyed
            BY <1>3 DEF Plannable, Valid, WellDeclared, Keyed
          <5>6. d.entity = e
            BY <2>3, <3>2, <4>5, <5>1, <5>3, <5>4, <5>5, KeyedOnce
          <5> QED
            BY <3>3, <5>1, <5>3, <5>4, <5>6
        <4> QED
          BY <4>4, <4>5 DEF Resolved
      <3>8. Matched(i)'
        BY <1>1, <2>8, <3>4, <3>5, <3>6, <3>7 DEF Matched
      <3>9. Agreed(i)'
        BY <1>1, <2>8, <3>4, <3>5, <3>6 DEF Agreed, MembersDiffer
      <3>10. ASSUME e.kind \in Subjects, NEW k \in DOMAIN e.roles, c.action = "unchanged"
             PROVE  HasBinding(c.id, e.roles[k])'
        <4>1. PICK b : b = e.roles[k]
          OBVIOUS
        <4>2. b \in ToSet(e.roles)
          BY <4>1 DEF ToSet
        <4>3. HasBinding(c.id, b)
          BY <3>5, <3>10, <4>2, UnchangedBinds
        <4>4. HasBinding(c.id, b)'
          BY <1>1, <2>9, <4>3, HasBindingStays
        <4> QED
          BY <4>1, <4>4
      <3>11. BoundSoFar(i)'
        BY <2>8, <3>4, <3>10 DEF BoundSoFar
      <3> QED
        BY <3>8, <3>9, <3>11
    <2>11. HeldStill' /\ ExtraOnNetwork' /\ pc' \notin Binds /\ pc' # "idle"
      BY <1>1, <2>2 DEF HeldStill, Reconciling, Binds, ConvergeInv, ExtraOnNetwork
    <2> QED
      BY <2>4, <2>6, <2>10, <2>11 DEF ConvergeInv
  <1> QED
    BY <1>2, <1>3

LEMMA EditConverges ==
    ASSUME PlanInv, ConvergeInv, EditElsewhere
    PROVE  ConvergeInv'
  <1>1. UNCHANGED <<bindings, manifest, pc, plan, at, ids, role, status>>
    BY DEF EditElsewhere, progress
  <1>2. ~used'.calm
    BY DEF EditElsewhere, PlanInv, ManifestTyped, UsedTyped
  <1>3. Steady /\ SamePlan
    BY <1>1, EditRenews DEF Steady, SamePlan, PlanInv, ManifestTyped
  <1>4. \A i \in DOMAIN plan : HasId(i)' <=> HasId(i)
    BY <1>1 DEF HasId, Wrote
  <1>5. Ongoing => InOrder' /\ \A i \in DOMAIN plan : Matched(i)'
    BY <1>1, <1>3, <1>4, InOrderStays, MatchedQuiet DEF ConvergeInv
  <1>6. Ongoing' <=> Ongoing
    BY <1>1 DEF Ongoing
  <1> QED
    BY <1>1, <1>2, <1>5, <1>6 DEF ConvergeInv, ExtraOnNetwork, change

LEMMA StutterConverges ==
    ASSUME PlanInv, ConvergeInv, UNCHANGED manifestVars
    PROVE  ConvergeInv'
  <1>1. UNCHANGED <<rows, bindings, manifest, pc, plan, at, ids, held, role, status, used>>
    BY DEF manifestVars
  <1>2. CASE ~Ongoing
    BY <1>1, <1>2 DEF ConvergeInv, ExtraOnNetwork, Ongoing, Binds
  <1>3. CASE Ongoing
    <2>1. \A i \in DOMAIN plan : (HasId(i)' <=> HasId(i)) /\ (Settled(i)' <=> Settled(i))
      BY <1>1 DEF HasId, Settled, Wrote
    <2>2. used.calm => \A i \in DOMAIN plan : BoundSoFar(i)'
      <3> SUFFICES ASSUME used.calm, NEW i \in DOMAIN plan PROVE BoundSoFar(i)'
        OBVIOUS
      <3>1. PICK e, id : e = plan[i].entity /\ id = plan[i].id
        OBVIOUS
      <3>2. BoundSoFar(i) /\ RowsStay /\ \A k : Reached(i, k)' => Reached(i, k)
        BY <1>1, <1>3 DEF ConvergeInv, RowsStay, Alike, Reached
      <3> QED
        BY <1>1, <3>1, <3>2, BoundStays
    <2>3. used.calm => HeldStill'
      <3> SUFFICES ASSUME used.calm, pc \in Reconciling, NEW k \in DOMAIN entity.roles,
                          role < k \/ (role = k /\ ~Rebinding)
                   PROVE  Current(held, entity.roles[k])' \subseteq bindings'
        BY <1>1 DEF HeldStill, entity, change, Rebinding
      <3>1. PICK b : b = entity.roles[k]
        OBVIOUS
      <3>2. Current(held, b) \subseteq bindings
        BY <1>3, <3>1 DEF ConvergeInv, HeldStill
      <3>3. Current(held, b)' = Current(held, b) /\ (entity.roles[k])' = b
        BY <1>1, <3>1, CurrentStays DEF entity, change
      <3> QED
        BY <1>1, <3>2, <3>3
    <2>4. plan'[at'] = plan[at]
      BY <1>1
    <2> QED
      BY <1>1, <1>3, <2>1, <2>2, <2>3, <2>4, QuietConverges DEF ConvergeInv, change
  <1> QED
    BY <1>2, <1>3

LEMMA ConvergeInit == ManifestInit => ConvergeInv
  <1> SUFFICES ASSUME ManifestInit PROVE ConvergeInv
    OBVIOUS
  <1>1. PICK w \in Worlds : manifest = w.manifest
    BY DEF ManifestInit
  <1>2. pc = "idle" /\ status = "new"
    BY DEF ManifestInit
  <1>3. ExtraOnNetwork
    BY <1>1, WorldAssumption DEF ExtraOnNetwork
  <1> QED
    BY <1>2, <1>3 DEF ConvergeInv, Ongoing, Binds

LEMMA ConvergeStep ==
    ASSUME PlanInv, BindInv, ConvergeInv, PageHoldsAll, NamesTellApart,
           [ManifestNext]_manifestVars
    PROVE  ConvergeInv'
  <1>1. CASE DependencyMissing \/ Conflict
    <2>1. pc' = "idle" /\ status' # "complete" /\ UNCHANGED manifest
      BY <1>1 DEF DependencyMissing, Conflict, Report
    <2> QED
      BY <2>1, StopConverges
  <1>2. CASE Plan \/ BindingsOnly \/ Complete \/ ReadHeld \/ Bound \/ AlreadyBound
    BY <1>2, PlanConverges, BindingsOnlyConverges, CompleteConverges, ReadHeldConverges,
       BoundConverges, AlreadyBoundConverges
  <1>3. ASSUME NEW ending \in Endings,
               \/ Create(ending) \/ Update(ending) \/ AssignAbsent(ending)
               \/ Unassign(ending) \/ Rebind(ending) \/ Restore(ending)
        PROVE  ConvergeInv'
    BY <1>3, CreateConverges, UpdateConverges, AssignAbsentConverges, UnassignConverges,
       RebindConverges, RestoreConverges
  <1> QED
    BY <1>1, <1>2, <1>3, EditConverges, StutterConverges DEF ManifestNext, Apply, ManifestDone

\* The subject's declared binding as Held and as BindingsDiffer look for it.
LEMMA HeldBinding ==
    ASSUME NEW id, NEW b, HasBinding(id, b)
    PROVE  \E x \in bindings :
              /\ x.subject = id /\ x.narrow = b.narrow
              /\ \E q \in rows : q.kind = "role" /\ q.name = RoleName(b) /\ q.id = x.role
              /\ IF b.resource = None THEN x.resource = None
                 ELSE \E q \in rows : q.kind = "resource" /\ q.id = x.resource
                                        /\ q.name = ResourceName(b)
BY DEF HasBinding, Bears

LEMMA BindingFound ==
    ASSUME rows \subseteq Rows, IsFiniteSet(rows), PageHoldsAll, NEW id, NEW b, HasBinding(id, b),
           NEW own, \A y \in bindings : y.subject = id => y \in own
    PROVE  \E x \in Current(own, b) : \E resource \in ScopedTo(b) : BindingSatisfied(x, b, resource)
  <1>1. PICK x \in bindings :
            /\ x.subject = id /\ x.narrow = b.narrow
            /\ Bears("role", x.role, RoleName(b))
            /\ IF b.resource = None THEN x.resource = None
               ELSE Bears("resource", x.resource, ResourceName(b))
    BY DEF HasBinding
  <1>2. x \in Current(own, b)
    BY <1>1 DEF Current, Bears
  <1>3. Scanned("resource") = {r \in rows : r.kind = "resource"}
    BY ScannedAll DEF Rank
  <1>4. x.resource \in ScopedTo(b)
    <2>1. CASE b.resource = None
      BY <1>1, <2>1 DEF ScopedTo
    <2>2. CASE b.resource # None
      BY <1>1, <1>3, <2>2 DEF ScopedTo, Bears, ResourceName
    <2> QED
      BY <2>1, <2>2
  <1>5. BindingSatisfied(x, b, x.resource)
    BY <1>1 DEF BindingSatisfied
  <1> QED
    BY <1>2, <1>4, <1>5

LEMMA CompleteConverged ==
    ASSUME PlanInv, ConvergeInv, PageHoldsAll
    PROVE  CompleteMeansConverged
  <1> SUFFICES ASSUME pc = "idle", status = "complete", used.calm, NEW e \in ToSet(manifest)
               PROVE  Held(e) /\ Change(e).action = "unchanged"
    BY DEF CompleteMeansConverged
  <1>1. /\ InOrder /\ at = Len(plan) + 1 /\ plan \in Seq(ChangeType)
        /\ rows \subseteq Rows /\ IsFiniteSet(rows)
    BY DEF ConvergeInv, Ongoing, PlanInv, ManifestTyped
  <1>2. PICK i \in DOMAIN plan : plan[i].entity = e
    BY <1>1 DEF InOrder
  <1>3. i < at /\ e \in Entities
    BY <1>1, <1>2, PlannedEntity
  <1>4. HasId(i) /\ Settled(i) /\ \A k : Reached(i, k)
    BY <1>3 DEF HasId, Settled, Wrote, Reached
  <1>5. Matched(i) /\ Agreed(i) /\ BoundSoFar(i)
    BY DEF ConvergeInv, Ongoing
  <1>6. PICK r \in rows : Fit(e, r) /\ r.id = plan[i].id
    BY <1>2, <1>4, <1>5 DEF Matched
  <1>7. \A q \in rows : Fit(e, q) => q = r
    BY <1>2, <1>5, <1>6 DEF Matched, Fit, PlanInv, Numbered
  <1>8. ~MembersDiffer(e, r)
    BY <1>2, <1>4, <1>5, <1>6 DEF Agreed
  <1>9. e.kind \in Subjects => \A b \in ToSet(e.roles) : HasBinding(r.id, b)
    <2> SUFFICES ASSUME e.kind \in Subjects, NEW k \in DOMAIN e.roles
                 PROVE  HasBinding(r.id, e.roles[k])
      BY DEF ToSet
    <2> QED
      BY <1>2, <1>4, <1>5, <1>6 DEF BoundSoFar
  <1>10. Held(e)
    <2>1. r.kind = e.kind /\ (e.kind \notin {"policy", "profile"} => r.name = e.name)
      BY <1>6 DEF Fit
    <2>2. e.kind = "profile" => \E s \in SegmentOf(e) : s.id = r.id
      BY <1>6 DEF Fit, SegmentOf, Bears, SegmentName
    <2>3. /\ e.text = None \/ r.text = e.text
          /\ e.extra = None \/ r.extra = e.extra
      BY <1>8 DEF MembersDiffer
    <2>4. e.kind \in Subjects => \A b \in ToSet(e.roles) : \E x \in bindings :
              /\ x.subject = r.id /\ x.narrow = b.narrow
              /\ \E q \in rows : q.kind = "role" /\ q.name = RoleName(b) /\ q.id = x.role
              /\ IF b.resource = None THEN x.resource = None
                 ELSE \E q \in rows : q.kind = "resource" /\ q.id = x.resource
                                        /\ q.name = ResourceName(b)
      BY <1>9, HeldBinding
    <2> QED
      BY <2>1, <2>2, <2>3, <2>4 DEF Held, ResourceName
  <1>11. Change(e).action = "unchanged"
    <2>1. Matches(e) = {r}
      BY <1>1, <1>3, <1>6, <1>7, MatchesFit
    <2>2. ~BindingsDiffer(e, r)
      <3> DEFINE own == {y \in bindings : y.subject = r.id}
      <3> SUFFICES ASSUME e.kind \in Subjects, NEW b \in ToSet(e.roles)
                   PROVE  \E x \in Current(own, b) :
                             \E resource \in ScopedTo(b) : BindingSatisfied(x, b, resource)
        BY DEF BindingsDiffer
      <3>1. HasBinding(r.id, b) /\ \A y \in bindings : y.subject = r.id => y \in own
        BY <1>9
      <3> HIDE DEF own
      <3> QED
        BY <1>1, <3>1, BindingFound
    <2>3. r.id \in Nat
      BY <1>1 DEF Rows
    <2>4. (CHOOSE p \in Matches(e) : \A q \in Matches(e) : p.id <= q.id) = r
      BY <2>1, <2>3
    <2> QED
      BY <1>8, <2>1, <2>2, <2>4 DEF Change
  <1> QED
    BY <1>10, <1>11

\* Where one page holds every object and no two entities share a name, an apply
\* that nothing disturbs and that reports every change applied leaves the tenant
\* as the manifest says it, and the next plan finds nothing to change: each change
\* finds the one object of its entity, what it writes is what the entity states,
\* and no later write of the apply touches that object or its bindings.
THEOREM CompleteApplyConverges ==
    ManifestSpec /\ [](PageHoldsAll /\ NamesTellApart) => []CompleteMeansConverged
  <1>1. ManifestInit => ConvergeInv
    BY ConvergeInit
  <1>2. PlanInv /\ BindInv /\ ConvergeInv /\ PageHoldsAll /\ NamesTellApart
          /\ [ManifestNext]_manifestVars => ConvergeInv'
    BY ConvergeStep
  <1>3. PlanInv /\ ConvergeInv /\ PageHoldsAll => CompleteMeansConverged
    BY CompleteConverged
  <1> QED
    BY <1>1, <1>2, <1>3, PlanAlways, BindAlways, PTL DEF ManifestSpec
-----------------------------------------------------------------------------
(* Dependencies. *)

LEMMA FindingKey ==
    ASSUME manifest \in Seq(Entities), NEW key
    PROVE  FindKey(key) # 0 =>
              FindKey(key) \in DOMAIN manifest /\ manifest[FindKey(key)].key = key
  <1> DEFINE I == {i \in 1 .. Len(manifest) : manifest[i].key = key}
  <1>1. FindKey(key) = IF I # {} THEN Min(I) ELSE 0
    BY DEF FindKey, SelectInSeq, Min
  <1>2. I # {} => Min(I) \in I
    <2>1. I \subseteq Nat
      OBVIOUS
    <2> HIDE DEF I
    <2> QED
      BY <2>1, MinIn
  <1> QED
    BY <1>1, <1>2

LEMMA DependsWithin ==
    ASSUME manifest \in Seq(Entities), NEW i
    PROVE  /\ DependsOn(i) \in DOMAIN manifest \cup {0}
           /\ Parent(i) \in DOMAIN manifest \cup {0}
           /\ Parent(i) # 0 => DependsOn(i) = Parent(i)
BY FindingKey DEF DependsOn, Parent

\* The smallest set of entities that has entity i and, with each, its parent.
LEMMA LineageLeast ==
    ASSUME manifest \in Seq(Entities), NEW i \in DOMAIN manifest
    PROVE  /\ i \in Lineage(i) /\ WithParents(Lineage(i)) /\ Lineage(i) \subseteq DOMAIN manifest
           /\ \A some \in SUBSET DOMAIN manifest :
                 i \in some /\ WithParents(some) => Lineage(i) \subseteq some
  <1>1. i \in Lineage(i) /\ Lineage(i) \subseteq DOMAIN manifest
    BY DEF Lineage
  <1>2. WithParents(Lineage(i))
    BY DependsWithin DEF Lineage, WithParents
  <1> QED
    BY <1>1, <1>2 DEF Lineage

\* A parent's chain is shorter than its child's: were the child in it, the
\* entities between the two would all depend on one another.
LEMMA ParentsAreHigher ==
    ASSUME manifest \in Seq(Entities), Acyclic, NEW i \in DOMAIN manifest, Parent(i) # 0
    PROVE  /\ Parent(i) \in DOMAIN manifest /\ Depth(Parent(i)) \in Int /\ Depth(i) \in Int
           /\ Depth(Parent(i)) < Depth(i)
  <1> DEFINE p == Parent(i)
             D == DOMAIN manifest
  <1>1. p \in D
    BY DependsWithin
  <1>2. p \in Lineage(i) /\ Lineage(p) \subseteq Lineage(i)
    BY <1>1, LineageLeast DEF WithParents
  <1>3. i \notin Lineage(p)
    <2> SUFFICES ASSUME i \in Lineage(p) PROVE FALSE
      OBVIOUS
    <2> DEFINE C == {j \in Lineage(i) : i \in Lineage(j)}
    <2>1. C \in (SUBSET D) \ {{}}
      BY LineageLeast
    <2>2. ASSUME NEW j \in C PROVE DependsOn(j) \in C
      <3>1. CASE j = i
        BY <1>2, <3>1, DependsWithin
      <3>2. CASE j # i
        <4>1. j \in D /\ j \in Lineage(i) /\ i \in Lineage(j)
          BY <2>1
        <4>2. Parent(j) # 0
          <5>1. ASSUME Parent(j) = 0 PROVE WithParents({j})
            BY <5>1 DEF WithParents
          <5> QED
            BY <3>2, <4>1, <5>1, LineageLeast
        <4>3. Parent(j) \in D /\ Parent(j) \in Lineage(i) /\ DependsOn(j) = Parent(j)
          BY <4>1, <4>2, DependsWithin, LineageLeast DEF WithParents
        <4>4. i \in Lineage(Parent(j))
          <5> DEFINE S == {j} \cup Lineage(Parent(j))
          <5>1. S \in SUBSET D /\ j \in S
            BY <4>1, <4>3, LineageLeast
          <5>2. WithParents(S)
            BY <4>3, LineageLeast DEF WithParents
          <5>3. Lineage(j) \subseteq S
            <6> HIDE DEF S
            <6> QED
              BY <4>1, <5>1, <5>2, LineageLeast
          <5> QED
            BY <3>2, <4>1, <5>3
        <4> QED
          BY <4>3, <4>4
      <3> QED
        BY <3>1, <3>2
    <2> HIDE DEF C
    <2> QED
      BY <2>1, <2>2 DEF Acyclic
  <1>4. IsFiniteSet(Lineage(i))
    <2>1. IsFiniteSet(D)
      BY FS_Interval
    <2> QED
      BY <2>1, LineageLeast, FS_Subset
  <1>5. /\ IsFiniteSet(Lineage(p)) /\ Cardinality(Lineage(p)) <= Cardinality(Lineage(i))
        /\ Cardinality(Lineage(i)) = Cardinality(Lineage(p)) => Lineage(i) = Lineage(p)
    BY <1>2, <1>4, FS_Subset
  <1>6. Cardinality(Lineage(p)) \in Nat /\ Cardinality(Lineage(i)) \in Nat
    BY <1>4, <1>5, FS_CardinalityType
  <1>7. Lineage(i) # Lineage(p)
    BY <1>3, LineageLeast
  <1>8. Depth(p) = Cardinality(Lineage(p)) - 1 /\ Depth(i) = Cardinality(Lineage(i)) - 1
    BY DEF Depth
  <1> HIDE DEF p
  <1>9. Depth(p) \in Int /\ Depth(i) \in Int /\ Depth(p) < Depth(i)
    BY <1>5, <1>6, <1>7, <1>8
  <1> QED
    BY <1>1, <1>9 DEF p

-----------------------------------------------------------------------------
(* An apply that nothing disturbs meets nothing in its way. *)

VersionsOf(key) == {v.version : v \in {x \in versions : x.key = key}}

\* The version that a profile's write would name its segment by is the segment's.
VersionsKnown ==
    \A i \in DOMAIN plan : plan[i].entity.kind = "segment" /\ HasId(i) =>
        VersionsOf(plan[i].entity.key) = Envelope(plan[i].id)

\* What the writes to come were planned from is what the tenant still has.
ReadsCurrent ==
    \A i \in DOMAIN plan : ~Wrote(i) /\ plan[i].action # "create" => plan[i].read \in rows

\* A resource comes after the one it is declared under.
ParentsFirst ==
    \A i, j \in DOMAIN plan :
        /\ plan[i].entity.kind = "resource" /\ plan[i].entity.depends # None
        /\ plan[j].entity.kind = "resource" /\ plan[j].entity.key = plan[i].entity.depends
        => j < i

\* What the subject has of the roles still to come was read.
AllRead ==
    pc \in Reconciling =>
        \A y \in bindings, k \in DOMAIN entity.roles :
            /\ y.subject = plan[at].id /\ Bears("role", y.role, RoleName(entity.roles[k]))
            /\ role < k \/ (role = k /\ ~Rebinding)
            => y \in held

\* The way is clear for the binding that replaces another.
Cleared ==
    pc = "rebinding" => \A y \in bindings : ~(y.subject = Old.subject /\ y.role = Old.role)

\* A subject that was just created holds nothing.
NewHoldsNone ==
    pc = "held" /\ change.action = "create" => \A y \in bindings : y.subject # plan[at].id

EndsWell == status \in {"new", "refused", "complete"}

SucceedInv ==
    /\ HeldBySomebody(bindings, rows)
    /\ pc # "idle" => ParentsFirst
    /\ NewHoldsNone
    /\ used.calm =>
          /\ pc # "idle" => VersionsKnown /\ ReadsCurrent
          /\ AllRead /\ Cleared /\ pc # "restoring"
          /\ pc = "idle" => EndsWell

LEMMA StopSucceeds ==
    ASSUME pc' = "idle", HeldBySomebody(bindings', rows'), used'.calm => EndsWell'
    PROVE  SucceedInv'
BY DEF SucceedInv, HeldBySomebody, NewHoldsNone, AllRead, Reconciling, Cleared

LEMMA HoldersStay ==
    ASSUME HeldBySomebody(bindings, rows), RowsStay,
           \A x \in bindings' : x \in bindings \/
               \E r \in rows : r.kind \in Subjects /\ r.id = x.subject
    PROVE  HeldBySomebody(bindings', rows')
BY DEF HeldBySomebody, RowsStay, Alike

LEMMA ParentsStay ==
    ASSUME SamePlan, ParentsFirst
    PROVE  ParentsFirst'
BY DEF SamePlan, ParentsFirst

LEMMA RowsSame ==
    ASSUME UNCHANGED rows
    PROVE  RowsStay
BY DEF RowsStay, Alike

\* Where a segment is in the plan, and that it is behind what depends on it.
LEMMA SegmentBehind ==
    ASSUME PlanInv, InOrder, at \in DOMAIN plan, entity.kind = "profile"
    PROVE  \E j \in DOMAIN plan :
              /\ plan[j].entity.kind = "segment" /\ plan[j].entity.key = entity.segment
              /\ plan[j].entity.name = SegmentName(entity) /\ j < at
  <1>1. entity \in ToSet(manifest) /\ manifest \in Seq(Entities)
    BY ChangeAt DEF PlanInv, ManifestTyped
  <1>2. FindOfKind("segment", entity.segment) # 0
    BY <1>1 DEF InOrder, Declared, NetworkDeclared, ToSet
  <1>3. PICK f : f = manifest[FindOfKind("segment", entity.segment)]
    OBVIOUS
  <1>4. f \in ToSet(manifest) /\ f.kind = "segment" /\ f.key = entity.segment
        /\ f.name = SegmentName(entity)
    BY <1>1, <1>2, <1>3, Finding DEF ToSet, SegmentName
  <1>5. PICK j \in DOMAIN plan : plan[j].entity = f
    BY <1>4 DEF InOrder
  <1>6. Rank[plan[j].entity.kind] < Rank[plan[at].entity.kind]
    BY <1>4, <1>5 DEF entity, change, Rank
  <1>7. j < at
    BY <1>6 DEF InOrder
  <1> QED
    BY <1>4, <1>5, <1>7

\* A profile names the version its segment has.
LEMMA EnvelopeNamed ==
    ASSUME PlanInv, ConvergeInv, SucceedInv, used.calm, pc = "next", at \in DOMAIN plan,
           entity.kind = "profile", NEW id, Bears("segment", id, SegmentName(entity))
    PROVE  NamedVersion = Envelope(id) /\ Envelope(id) # {}
  <1>1. InOrder /\ (\A i \in DOMAIN plan : Matched(i)) /\ VersionsKnown
    BY DEF ConvergeInv, Ongoing, SucceedInv
  <1>2. PICK j \in DOMAIN plan :
            /\ plan[j].entity.kind = "segment" /\ plan[j].entity.key = entity.segment
            /\ plan[j].entity.name = SegmentName(entity) /\ j < at
    BY <1>1, SegmentBehind
  <1>3. HasId(j)
    BY <1>2 DEF HasId, Wrote
  <1>4. PICK s \in rows : s.kind = "segment" /\ s.id = id /\ s.name = SegmentName(entity)
    BY DEF Bears
  <1>5. Fit(plan[j].entity, s)
    BY <1>2, <1>4 DEF Fit
  <1>6. plan[j].id = id
    BY <1>1, <1>4, <1>5 DEF Matched
  <1>7. VersionsOf(entity.segment) = Envelope(id)
    BY <1>1, <1>2, <1>3, <1>6 DEF VersionsKnown
  <1> QED
    BY <1>4, <1>7 DEF VersionsOf, NamedVersion, Envelope

LEMMA NothingMissing ==
    ASSUME PlanInv, ConvergeInv, SucceedInv, used.calm, pc = "next", at \in DOMAIN plan
    PROVE  ~Unresolved
  <1>1. ASSUME ParentDeclared PROVE Resolved("resource", entity.depends) # {}
    <2>1. PICK f : f = manifest[FindOfKind("resource", entity.depends)]
      OBVIOUS
    <2>2. manifest \in Seq(Entities) /\ InOrder /\ Known /\ ParentsFirst
      BY DEF PlanInv, ManifestTyped, Resolving, SucceedInv
    <2>3. f \in ToSet(manifest) /\ f.kind = "resource" /\ f.key = entity.depends
      BY <1>1, <2>1, <2>2, Finding DEF ToSet, ParentDeclared
    <2>4. PICK j \in DOMAIN plan : plan[j].entity = f
      BY <2>2, <2>3 DEF InOrder
    <2>5. j < at
      BY <1>1, <2>2, <2>3, <2>4 DEF ParentsFirst, ParentDeclared, entity, change
    <2> QED
      BY <2>2, <2>3, <2>4, <2>5 DEF Known, Wrote
  <1>2. ASSUME entity.kind = "profile"
        PROVE  /\ Resolved("segment", entity.segment) # {}
               /\ \E v \in versions : v.key = entity.segment
    <2>1. InOrder /\ (\A i \in DOMAIN plan : Matched(i))
      BY DEF ConvergeInv, Ongoing
    <2>2. PICK j \in DOMAIN plan :
              /\ plan[j].entity.kind = "segment" /\ plan[j].entity.key = entity.segment
              /\ plan[j].entity.name = SegmentName(entity) /\ j < at
      BY <1>2, <2>1, SegmentBehind
    <2>3. HasId(j)
      BY <2>2 DEF HasId, Wrote
    <2>4. Resolved("segment", entity.segment) = {plan[j].id}
      BY <2>1, <2>2, <2>3 DEF Matched
    <2>5. Bears("segment", plan[j].id, SegmentName(entity))
      BY <2>1, <2>2, <2>3 DEF Matched, Fit, Bears
    <2>6. PICK id : id = plan[j].id
      OBVIOUS
    <2>7. NamedVersion # {}
      BY <1>2, <2>5, <2>6, EnvelopeNamed
    <2> QED
      BY <2>4, <2>7 DEF NamedVersion
  <1> QED
    BY <1>1, <1>2 DEF Unresolved

LEMMA NoConflict ==
    ASSUME PlanInv, ConvergeInv, SucceedInv, used.calm, pc = "next", at \in DOMAIN plan,
           ~Unresolved
    PROVE  /\ change.action = "create" => Creatable
           /\ change.action = "update" => Replaceable
  <1>1. Matched(at) /\ ReadsCurrent /\ ~Wrote(at)
    <2>1. at \in Nat
      BY DEF PlanInv, ManifestTyped
    <2> QED
      BY <2>1 DEF ConvergeInv, Ongoing, SucceedInv, Wrote, Binds
  <1>2. ASSUME change.action = "create" PROVE Creatable
    <2>1. \A r \in rows : ~Fit(entity, r)
      BY <1>1, <1>2 DEF Matched, HasId, entity, change
    <2>2. entity.kind # "policy"
      BY <1>2, ChangeAt DEF PlannedAs, PlannedFrom, entity
    <2>3. CASE entity.kind = "profile"
      <3>1. PICK id : id = NewId
        OBVIOUS
      <3>2. Bears("segment", id, SegmentName(entity))
        BY <2>3, <3>1, SegmentNumbered
      <3>3. NamedVersion = Envelope(id)
        BY <2>3, <3>2, EnvelopeNamed
      <3>4. ~\E r \in rows : r.kind = "profile" /\ r.id = id
        BY <2>1, <2>3, <3>2 DEF Fit
      <3> QED
        BY <2>3, <3>1, <3>3, <3>4 DEF Creatable, Secretive
    <2>4. CASE entity.kind # "profile"
      <3>1. ~\E r \in rows : r.kind = entity.kind /\ r.name = entity.name
        BY <2>1, <2>2, <2>4 DEF Fit
      <3> QED
        BY <2>4, <3>1 DEF Creatable
    <2> QED
      BY <2>3, <2>4
  <1>3. ASSUME change.action = "update" PROVE Replaceable
    <2>1. /\ Target \in rows /\ Fit(entity, Target) /\ Target.id = change.id
          /\ Alike(Target, change.read)
      BY <1>3, TargetFits, TargetIsRow
    <2>2. change.read \in rows
      BY <1>1, <1>3 DEF ReadsCurrent, change
    <2>3. Target = change.read
      BY <2>1, <2>2 DEF Alike, PlanInv, Numbered
    <2>4. ASSUME entity.kind = "profile" PROVE NamedVersion = Envelope(change.id)
      <3>1. PICK id : id = change.id
        OBVIOUS
      <3>2. Bears("segment", id, SegmentName(entity))
        BY <2>1, <2>4, <3>1 DEF Fit
      <3> QED
        BY <2>4, <3>1, <3>2, EnvelopeNamed
    <2> QED
      BY <2>3, <2>4 DEF Replaceable
  <1> QED
    BY <1>2, <1>3

\* A step that writes no object, and what it leaves behind is behind it.
LEMMA QuietKeeps ==
    ASSUME SucceedInv, SamePlan, pc # "idle", UNCHANGED <<rows, manifest, plan, ids, versions>>,
           used'.calm => used.calm,
           \A i \in DOMAIN plan : (HasId(i)' => HasId(i)) /\ (Wrote(i) => Wrote(i)')
    PROVE  ParentsFirst' /\ (used'.calm => VersionsKnown' /\ ReadsCurrent')
  <1>1. ParentsFirst'
    BY ParentsStay DEF SucceedInv
  <1>2. ASSUME used'.calm PROVE VersionsKnown'
    <2>1. VersionsKnown
      BY <1>2 DEF SucceedInv
    <2> QED
      BY <2>1 DEF VersionsKnown, VersionsOf, Envelope
  <1>3. ASSUME used'.calm PROVE ReadsCurrent'
    <2>1. ReadsCurrent
      BY <1>3 DEF SucceedInv
    <2> QED
      BY <2>1 DEF ReadsCurrent
  <1> QED
    BY <1>1, <1>2, <1>3

LEMMA PlanIsSame ==
    ASSUME PlanInv, UNCHANGED plan
    PROVE  SamePlan
BY DEF SamePlan, PlanInv, ManifestTyped

LEMMA BoundSucceeds ==
    ASSUME PlanInv, SucceedInv, Bound
    PROVE  SucceedInv'
  <1>1. /\ pc = "binding" /\ pc \in Binds /\ Applied /\ pc' = "next"
        /\ UNCHANGED <<rows, bindings, manifest, plan, ids, versions, used>>
    BY DEF Bound, Applied, Binds, tenant
  <1>2. at \in DOMAIN plan /\ at \in Nat \ {0} /\ at <= Len(plan) /\ plan \in Seq(ChangeType)
    BY <1>1, InPlan DEF PlanInv, ManifestTyped
  <1>3. /\ at' \in Nat /\ at < at'
        /\ \A i \in DOMAIN plan : at < i /\ i < at' => plan[i].action = "unchanged"
    BY <1>1, <1>2, PendingNext DEF Applied
  <1>4. \A i \in DOMAIN plan : (HasId(i)' => HasId(i)) /\ (Wrote(i) => Wrote(i)')
    <2>1. \A i \in DOMAIN plan : i \in Nat
      BY <1>2
    <2> QED
      BY <1>1, <1>2, <1>3, <2>1 DEF HasId, Wrote, Binds
  <1>5. ParentsFirst' /\ (used'.calm => VersionsKnown' /\ ReadsCurrent')
    BY <1>1, <1>4, PlanIsSame, QuietKeeps
  <1>6. HeldBySomebody(bindings', rows')
    BY <1>1 DEF SucceedInv
  <1> QED
    BY <1>1, <1>5, <1>6
    DEF SucceedInv, NewHoldsNone, AllRead, Reconciling, Cleared

\* While a subject's bindings are worked on.
LEMMA FramedKeeps ==
    ASSUME PlanInv, SucceedInv, pc \in Binds, pc' \in Binds, Framed, UNCHANGED versions,
           used'.calm => used.calm
    PROVE  ParentsFirst' /\ (used'.calm => VersionsKnown' /\ ReadsCurrent')
  <1>1. \A i \in DOMAIN plan : (HasId(i)' => HasId(i)) /\ (Wrote(i) => Wrote(i)')
    BY DEF HasId, Wrote, Framed
  <1>2. pc # "idle"
    BY DEF Binds
  <1> QED
    BY <1>1, <1>2, PlanIsSame, QuietKeeps DEF Framed

LEMMA ReadHeldSucceeds ==
    ASSUME PlanInv, ConvergeInv, SucceedInv, ReadHeld
    PROVE  SucceedInv'
  <1>1. /\ pc = "held" /\ pc \in Binds /\ pc' = "binding" /\ pc' \in Binds
        /\ UNCHANGED <<rows, bindings, manifest, plan, at, ids, versions, used>>
    BY DEF ReadHeld, Binds, tenant
  <1>2. subject = plan[at].id
    BY <1>1, SubjectMatched, InPlan DEF ConvergeInv, Ongoing
  <1>3. \A y \in bindings : y.subject = plan[at].id => y \in held'
    BY <1>1, <1>2 DEF ReadHeld, SucceedInv, NewHoldsNone
  <1>4. AllRead'
    BY <1>1, <1>3 DEF AllRead
  <1>5. ParentsFirst' /\ (used'.calm => VersionsKnown' /\ ReadsCurrent')
    <2>1. \A i \in DOMAIN plan : (HasId(i)' => HasId(i)) /\ (Wrote(i) => Wrote(i)')
      BY <1>1 DEF HasId, Wrote
    <2> QED
      BY <1>1, <2>1, PlanIsSame, QuietKeeps
  <1>6. HeldBySomebody(bindings', rows')
    BY <1>1 DEF SucceedInv
  <1> QED
    BY <1>1, <1>4, <1>5, <1>6 DEF SucceedInv, NewHoldsNone, Cleared

\* On to the next declared binding: one that was written is of no role to come.
LEMMA NextSucceeds ==
    ASSUME PlanInv, ConvergeInv, SucceedInv, NamesTellApart, pc \in Reconciling,
           role <= Len(entity.roles), pc' = "binding", role' = role + 1,
           Framed, UNCHANGED versions, used'.calm => used.calm,
           NEW scope, NEW x, x = Wanted(scope), \A y \in bindings' : y \in bindings \/ y = x
    PROVE  SucceedInv'
  <1>1. /\ pc \in Binds /\ pc' \in Binds /\ pc # "idle"
        /\ UNCHANGED <<rows, manifest, plan, at, ids, held>>
    BY DEF Reconciling, Binds, Framed
  <1>2. /\ at \in DOMAIN plan /\ entity' = entity /\ entity \in ToSet(manifest)
        /\ entity.kind \in Subjects /\ role \in Nat \ {0}
        /\ entity.roles \in Seq([role : Nat, resource : Nat \cup {None}, narrow : BOOLEAN])
    BY <1>1, InPlan, ChangeAt DEF PlanInv, ManifestTyped, entity, change, Entities
  <1>3. /\ role \in DOMAIN entity.roles /\ x.subject = subject
        /\ Bears("role", x.role, RoleName(declared))
    BY <1>1, WantedNamed
  <1>4. HeldBySomebody(bindings', rows')
    <2>1. \E r \in rows : r.kind \in Subjects /\ r.id = x.subject
      BY <1>1, <1>3, SubjectNamed
    <2> QED
      BY <1>1, <2>1, RowsSame, HoldersStay DEF SucceedInv
  <1>5. ASSUME used'.calm PROVE AllRead'
    <2> SUFFICES ASSUME NEW y \in bindings', NEW k \in DOMAIN entity.roles,
                        y.subject = plan[at].id, role < k,
                        Bears("role", y.role, RoleName(entity.roles[k]))'
                 PROVE  y \in held
      BY <1>1, <1>2 DEF AllRead, Rebinding
    <2>1. PICK b : b = entity.roles[k]
      OBVIOUS
    <2>2. Bears("role", y.role, RoleName(b))
      <3>1. RoleName(b)' = RoleName(b) /\ (entity.roles[k])' = b
        BY <1>1, <1>2, <2>1, NamesStay
      <3> QED
        BY <1>1, <3>1 DEF Bears
    <2>3. y # x
      <3>1. k # role
        BY <1>2
      <3> QED
        BY <1>1, <1>2, <1>3, <2>1, <2>2, <3>1, BindingsApart DEF declared
    <2>4. y \in bindings
      BY <2>3
    <2> QED
      BY <1>5, <2>1, <2>2, <2>4 DEF SucceedInv, AllRead
  <1>6. ParentsFirst' /\ (used'.calm => VersionsKnown' /\ ReadsCurrent')
    BY <1>1, FramedKeeps
  <1> QED
    BY <1>1, <1>4, <1>5, <1>6 DEF SucceedInv, NewHoldsNone, Cleared

LEMMA AlreadyBoundSucceeds ==
    ASSUME PlanInv, ConvergeInv, SucceedInv, NamesTellApart, AlreadyBound
    PROVE  SucceedInv'
  <1>1. /\ pc \in Reconciling /\ role <= Len(entity.roles) /\ pc' = "binding"
        /\ role' = role + 1 /\ Framed /\ UNCHANGED <<bindings, versions, used>>
    BY DEF AlreadyBound, Reconciling, Framed, tenant
  <1>2. PICK x : x = Wanted(None)
    OBVIOUS
  <1> QED
    BY <1>1, <1>2, NextSucceeds

\* What is to be assigned is not in the tenant's way.
LEMMA AbsentIsAssignable ==
    ASSUME PlanInv, ConvergeInv, SucceedInv, used.calm, pc = "binding",
           role <= Len(entity.roles), Current(held, declared) = {}
    PROVE  Assignable(Wanted(None))
  <1> SUFFICES ASSUME NEW y \in bindings, y.subject = Wanted(None).subject,
                      y.role = Wanted(None).role
               PROVE  FALSE
    BY DEF Assignable
  <1>1. pc \in Binds /\ pc \in Reconciling /\ ~Rebinding /\ pc # "idle"
    BY DEF Binds, Reconciling, Rebinding
  <1>2. /\ role \in DOMAIN entity.roles /\ y.subject = subject
        /\ Bears("role", y.role, RoleName(declared))
    BY <1>1, WantedNamed
  <1>3. subject = plan[at].id
    BY <1>1, SubjectMatched, InPlan DEF ConvergeInv, Ongoing
  <1>4. y \in held
    BY <1>1, <1>2, <1>3 DEF SucceedInv, AllRead, declared
  <1> QED
    BY <1>2, <1>4 DEF Current, Bears

LEMMA AssignAbsentSucceeds ==
    ASSUME PlanInv, ConvergeInv, SucceedInv, NamesTellApart,
           NEW ending \in Endings, AssignAbsent(ending)
    PROVE  SucceedInv'
  <1>1. /\ pc = "binding" /\ pc \in Reconciling /\ pc \in Binds /\ role <= Len(entity.roles)
        /\ Current(held, declared) = {} /\ Framed /\ UNCHANGED versions
    BY DEF AssignAbsent, Assign, Framed, Reconciling, Binds
  <1>2. PICK x : x = Wanted(None)
    OBVIOUS
  <1>3. Assign(x, ending, NextBinding, Report("failed") /\ UNCHANGED role)
    BY <1>2 DEF AssignAbsent
  <1>4. /\ used'.calm => used.calm
        /\ \A y \in bindings' : y \in bindings \/ y = x
    BY <1>3, CalmAssign DEF Assign
  <1>5. CASE NextBinding
    BY <1>1, <1>2, <1>4, <1>5, NextSucceeds DEF NextBinding
  <1>6. CASE Report("failed") /\ ~NextBinding
    <2>1. ASSUME used'.calm PROVE FALSE
      <3>1. Assignable(x)
        BY <1>1, <1>2, <1>4, <2>1, AbsentIsAssignable
      <3>2. Spend(ending) /\ ending # "done"
        BY <1>3, <1>6, <3>1 DEF Assign
      <3> QED
        BY <2>1, <3>2 DEF Spend, PlanInv, ManifestTyped, UsedTyped
    <2>2. HeldBySomebody(bindings', rows')
      <3>1. \E r \in rows : r.kind \in Subjects /\ r.id = x.subject
        BY <1>1, <1>2, SubjectNamed, WantedNamed
      <3> QED
        BY <1>1, <1>4, <3>1, RowsSame, HoldersStay DEF SucceedInv, Framed
    <2> QED
      BY <1>6, <2>1, <2>2, StopSucceeds DEF Report
  <1> QED
    BY <1>3, <1>5, <1>6 DEF Assign

\* With the old binding gone, nobody holds its role in the new one's place.
LEMMA UnassignSucceeds ==
    ASSUME PlanInv, BindInv, ConvergeInv, SucceedInv, NEW ending \in Endings, Unassign(ending)
    PROVE  SucceedInv'
  <1>1. /\ pc = "binding" /\ pc \in Reconciling /\ pc \in Binds /\ role <= Len(entity.roles)
        /\ Current(held, declared) # {} /\ Spend(ending) /\ Framed
        /\ UNCHANGED <<role, versions>>
    BY DEF Unassign, Reconciling, Binds, progress, Framed
  <1>2. used'.calm => used.calm
    BY <1>1, CalmSpend
  <1>3. \A y \in bindings' : y \in bindings
    BY DEF Unassign
  <1>4. HeldBySomebody(bindings', rows')
    BY <1>1, <1>3, RowsSame, HoldersStay DEF SucceedInv, Framed
  <1>5. CASE ending # "done"
    <2>1. pc' = "idle"
      BY <1>5 DEF Unassign, Report
    <2>2. ~used'.calm
      BY <1>1, <1>5 DEF Spend, PlanInv, ManifestTyped, UsedTyped
    <2> QED
      BY <1>4, <2>1, <2>2, StopSucceeds
  <1>6. CASE ending = "done"
    <2>1. pc' = "rebinding" /\ bindings' = bindings \ {Old}
      BY <1>6 DEF Unassign
    <2>2. pc' \in Binds /\ pc' \in Reconciling /\ Rebinding' /\ ~Rebinding
      BY <1>1, <2>1 DEF Binds, Reconciling, Rebinding
    <2>3. ParentsFirst' /\ (used'.calm => VersionsKnown' /\ ReadsCurrent')
      BY <1>1, <1>2, <2>2, FramedKeeps
    <2>4. entity' = entity /\ Old' = Old
      BY <1>1, OldKept DEF Framed, RoleRows
    <2>5. ASSUME used'.calm PROVE AllRead'
      <3> SUFFICES ASSUME NEW y \in bindings, NEW k \in DOMAIN entity.roles,
                          y.subject = plan[at].id, role < k,
                          Bears("role", y.role, RoleName(entity.roles[k]))'
                   PROVE  y \in held
        BY <1>1, <1>3, <2>2, <2>4 DEF AllRead, Framed
      <3>1. PICK b : b = entity.roles[k]
        OBVIOUS
      <3>2. Bears("role", y.role, RoleName(b))
        <4>1. RoleName(b)' = RoleName(b) /\ (entity.roles[k])' = b
          BY <1>1, <2>4, <3>1, NamesStay DEF Framed
        <4> QED
          BY <1>1, <4>1 DEF Bears, Framed
      <3> QED
        BY <1>1, <1>2, <2>5, <3>1, <3>2 DEF SucceedInv, AllRead
    <2>6. ASSUME used'.calm PROVE Cleared'
      <3>1. role \in DOMAIN entity.roles
        BY <1>1, WantedNamed
      <3>2. Old \in bindings
        <4>1. Current(held, declared) \subseteq bindings
          BY <1>1, <1>2, <2>2, <2>6, <3>1 DEF ConvergeInv, Ongoing, HeldStill, declared
        <4>2. Old \in Current(held, declared)
          BY <1>1 DEF Old
        <4> QED
          BY <4>1, <4>2
      <3>3. PICK o : o = Old
        OBVIOUS
      <3>4. \A y \in bindings' : ~(y.subject = o.subject /\ y.role = o.role)
        BY <2>1, <3>2, <3>3 DEF BindInv, HeldOnce
      <3> QED
        BY <2>4, <3>3, <3>4 DEF Cleared
    <2>7. NewHoldsNone'
      BY <2>1 DEF NewHoldsNone
    <2> QED
      BY <1>1, <1>2, <1>4, <2>1, <2>3, <2>5, <2>6, <2>7 DEF SucceedInv
  <1> QED
    BY <1>5, <1>6

\* The binding that replaces the old one is assigned, unless that is disturbed.
LEMMA RebindSucceeds ==
    ASSUME PlanInv, BindInv, ConvergeInv, SucceedInv, NamesTellApart,
           NEW ending \in Endings, Rebind(ending)
    PROVE  SucceedInv'
  <1>1. /\ pc = "rebinding" /\ pc \in Reconciling /\ pc \in Binds
        /\ role <= Len(entity.roles) /\ Current(held, declared) # {}
        /\ Framed /\ UNCHANGED versions
    BY DEF Rebind, Assign, Framed, Reconciling, Rebinding, Binds, BindInv, HeldKnown
  <1>2. PICK sc, x : sc = Old.scope /\ x = Wanted(sc)
    OBVIOUS
  <1>3. Assign(x, ending, NextBinding,
               pc' = "restoring" /\ UNCHANGED <<role, status, secrets, accused>>)
    BY <1>2 DEF Rebind
  <1>4. /\ used'.calm => used.calm
        /\ \A y \in bindings' : y \in bindings \/ y = x
    BY <1>3, CalmAssign DEF Assign
  <1>5. CASE NextBinding
    BY <1>1, <1>2, <1>4, <1>5, NextSucceeds DEF NextBinding
  <1>6. CASE pc' = "restoring" /\ ~NextBinding
    <2>1. ~used'.calm
      <3> SUFFICES ASSUME used'.calm PROVE FALSE
        OBVIOUS
      <3>1. x.subject = Old.subject /\ x.role = Old.role
        BY <1>1, <1>2, HeldSubject, RoleIsOld, WantedNamed
      <3>2. Cleared
        BY <1>4 DEF SucceedInv
      <3>3. Assignable(x)
        BY <1>1, <3>1, <3>2 DEF Cleared, Assignable
      <3>4. Spend(ending) /\ ending # "done"
        BY <1>3, <1>6, <3>3 DEF Assign
      <3> QED
        BY <3>4 DEF Spend, PlanInv, ManifestTyped, UsedTyped
    <2>2. HeldBySomebody(bindings', rows')
      <3>1. \E r \in rows : r.kind \in Subjects /\ r.id = x.subject
        BY <1>1, <1>2, SubjectNamed, WantedNamed
      <3> QED
        BY <1>1, <1>4, <3>1, RowsSame, HoldersStay DEF SucceedInv, Framed
    <2>3. pc' \in Binds
      BY <1>6 DEF Binds
    <2>4. ParentsFirst'
      BY <1>1, <1>4, <2>3, FramedKeeps
    <2> QED
      BY <1>6, <2>1, <2>2, <2>4 DEF SucceedInv, NewHoldsNone
  <1> QED
    BY <1>3, <1>5, <1>6 DEF Assign

LEMMA RestoreSucceeds ==
    ASSUME PlanInv, BindInv, SucceedInv, NEW ending, Restore(ending)
    PROVE  SucceedInv'
  <1>1. /\ pc = "restoring" /\ pc \in Reconciling /\ pc \in Binds /\ pc' = "idle"
        /\ Current(held, declared) # {} /\ UNCHANGED rows
    BY DEF Restore, Assign, Report, Reconciling, Rebinding, Binds, BindInv, HeldKnown
  <1>2. PICK x : x = Old
    OBVIOUS
  <1>3. Assign(x, ending, Report("failed") /\ UNCHANGED role, Report("failed") /\ UNCHANGED role)
    BY <1>2 DEF Restore
  <1>4. /\ used'.calm => used.calm
        /\ \A y \in bindings' : y \in bindings \/ y = x
    BY <1>3, CalmAssign DEF Assign
  <1>5. ~used'.calm
    BY <1>1, <1>4 DEF SucceedInv
  <1>6. \E r \in rows : r.kind \in Subjects /\ r.id = x.subject
    BY <1>1, <1>2, HeldSubject, SubjectNamed
  <1>7. HeldBySomebody(bindings', rows')
    BY <1>1, <1>4, <1>6, RowsSame, HoldersStay DEF SucceedInv
  <1> QED
    BY <1>1, <1>5, <1>7, StopSucceeds

\* A write of one segment's entity leaves the other segments and what is known
\* of their versions; its own version is the one the answer gave.
LEMMA VersionsFollow ==
    ASSUME PlanInv, PlanInv', InOrder, NamesTellApart, at \in DOMAIN plan,
           \A i \in DOMAIN plan : Matched(i),
           \A i \in DOMAIN plan : i # at => (HasId(i)' <=> HasId(i)),
           NEW e, NEW id, NEW version, e = entity, WroteIt(id), Versioned(version),
           e.kind = "segment" =>
               \E q \in rows' : q.kind = "segment" /\ q.id = id /\ q.version = version,
           VersionsKnown
    PROVE  VersionsKnown'
  <1>1. /\ SamePlan /\ WroteRows(e, id) /\ plan'[at].id = id
        /\ \A i \in DOMAIN plan : i # at => plan'[i].id = plan[i].id
        /\ DOMAIN plan' = DOMAIN plan
        /\ \A i \in DOMAIN plan : plan'[i].entity = plan[i].entity
    BY DEF WroteIt, SamePlan
  <1>2. Numbered(rows)
    BY DEF PlanInv
  <1>3. \A r, q \in rows' : r.kind = "segment" /\ q.kind = "segment" /\ r.id = q.id => r = q
    BY DEF PlanInv, Numbered
  <1> SUFFICES ASSUME NEW i \in DOMAIN plan, plan[i].entity.kind = "segment", HasId(i)'
               PROVE  /\ {v.version : v \in {x \in versions' : x.key = plan[i].entity.key}}
                            = {r.version : r \in {q \in rows' : q.kind = "segment" /\
                                                     q.id = plan'[i].id}}
    BY <1>1 DEF VersionsKnown, VersionsOf, Envelope
  <1>4. CASE i = at
    <2>1. e.kind = "segment" /\ e = plan[i].entity
      BY <1>4 DEF entity, change
    <2>2. PICK q \in rows' : q.kind = "segment" /\ q.id = id /\ q.version = version
      BY <2>1
    <2>3. {r \in rows' : r.kind = "segment" /\ r.id = id} = {q}
      BY <1>3, <2>2
    <2>4. versions' = {v \in versions : v.key # e.key}
                         \cup {[key |-> e.key, version |-> version]}
      BY <2>1 DEF Versioned
    <2>5. PICK x : x = [key |-> e.key, version |-> version]
      OBVIOUS
    <2>6. x.key = e.key /\ x.version = version
      BY <2>5
    <2>7. {y \in versions' : y.key = e.key} = {x}
      BY <2>4, <2>5, <2>6
    <2>8. {v.version : v \in {y \in versions' : y.key = e.key}} = {version}
      BY <2>6, <2>7
    <2>9. {r.version : r \in {y \in rows' : y.kind = "segment" /\ y.id = id}} = {version}
      BY <2>2, <2>3
    <2> QED
      BY <1>1, <1>4, <2>1, <2>8, <2>9
  <1>5. CASE i # at
    <2>1. PICK f, n : f = plan[i].entity /\ n = plan[i].id
      OBVIOUS
    <2>2. HasId(i) /\ plan'[i].id = n /\ Matched(i)
      BY <1>1, <1>5, <2>1
    <2>3. PICK s \in rows : Fit(f, s) /\ s.id = n
      BY <2>1, <2>2 DEF Matched
    <2>4. s.kind = "segment"
      BY <2>1, <2>3 DEF Fit
    <2>5. ~Fit(e, s)
      BY <1>5, <2>1, <2>3, FitOnce DEF entity, change
    <2>6. s \in rows'
      BY <1>1, <2>5 DEF WroteRows
    <2>7. {q \in rows : q.kind = "segment" /\ q.id = n} = {s}
      BY <1>2, <2>3, <2>4 DEF Numbered
    <2>8. {q \in rows' : q.kind = "segment" /\ q.id = n} = {s}
      BY <1>3, <2>3, <2>4, <2>6
    <2>9. {v.version : v \in {x \in versions : x.key = f.key}} = {s.version}
      BY <2>1, <2>2, <2>7 DEF VersionsKnown, VersionsOf, Envelope
    <2>10. {x \in versions' : x.key = f.key} = {x \in versions : x.key = f.key}
      <3>1. CASE e.kind # "segment"
        BY <3>1 DEF Versioned
      <3>2. CASE e.kind = "segment"
        <4>1. e.key # f.key
          <5>1. e \in ToSet(manifest) /\ f \in ToSet(manifest) /\ manifest \in Seq(Entities)
            BY <2>1, ChangeAt, PlannedEntity DEF PlanInv, ManifestTyped
          <5>2. e # f
            BY <1>5, <2>1 DEF InOrder, entity, change
          <5> QED
            BY <2>1, <3>2, <5>1, <5>2, KeyedOnce DEF InOrder, Declared
        <4>2. versions' = {v \in versions : v.key # e.key}
                             \cup {[key |-> e.key, version |-> version]}
          BY <3>2 DEF Versioned
        <4> QED
          BY <4>1, <4>2
      <3> QED
        BY <3>1, <3>2
    <2> QED
      BY <2>1, <2>2, <2>8, <2>9, <2>10
  <1> QED
    BY <1>4, <1>5

\* And it leaves what the writes to come were planned from.
LEMMA ReadsFollow ==
    ASSUME PlanInv, InOrder, NamesTellApart, at \in DOMAIN plan,
           \A i \in DOMAIN plan : Matched(i),
           \A i \in DOMAIN plan : ~Wrote(i)' => i # at /\ ~Wrote(i),
           NEW e, NEW id, e = entity, WroteIt(id), ReadsCurrent
    PROVE  ReadsCurrent'
  <1>1. SamePlan /\ WroteRows(e, id)
    BY DEF WroteIt
  <1> SUFFICES ASSUME NEW i \in DOMAIN plan, ~Wrote(i)', plan[i].action # "create"
               PROVE  plan[i].read \in rows'
    BY <1>1 DEF SamePlan, ReadsCurrent
  <1>2. PICK f, r, n : f = plan[i].entity /\ r = plan[i].read /\ n = plan[i].id
    OBVIOUS
  <1>3. r \in rows /\ i # at
    BY <1>2 DEF ReadsCurrent
  <1>4. r.kind = f.kind /\ r.id = n
    BY <1>2 DEF PlanInv, Planned, PlannedAs, PlannedFrom
  <1>5. PICK s \in rows : Fit(f, s) /\ s.id = n
    BY <1>2 DEF Matched, HasId
  <1>6. s = r
    BY <1>3, <1>4, <1>5 DEF Fit, PlanInv, Numbered
  <1>7. ~Fit(e, r)
    BY <1>2, <1>3, <1>5, <1>6, FitOnce DEF entity, change
  <1> QED
    BY <1>1, <1>2, <1>3, <1>7 DEF WroteRows

LEMMA WrittenSucceeds ==
    ASSUME PlanInv, PlanInv', ConvergeInv, SucceedInv, NamesTellApart, pc = "next",
           at \in DOMAIN plan, change.action # "unchanged", used'.calm => used.calm,
           NEW e, NEW id, NEW version, e = entity, WroteIt(id), Versioned(version),
           e.kind = "segment" =>
               \E q \in rows' : q.kind = "segment" /\ q.id = id /\ q.version = version,
           change.action = "create" /\ e.kind \in Subjects =>
               \A y \in bindings : y.subject # id
    PROVE  SucceedInv'
  <1>1. /\ Written(id) /\ SamePlan /\ RowsMove /\ plan'[at].id = id /\ UNCHANGED bindings
        /\ \A i \in DOMAIN plan : plan'[i].action = plan[i].action
    BY DEF WroteIt, WroteRows, SamePlan
  <1>2. /\ \A i \in DOMAIN plan : i # at => (HasId(i)' <=> HasId(i))
        /\ pc' \in {"held", "next"} /\ (pc' = "held" => at' = at)
    BY <1>1, WrittenMoves
  <1>3. InOrder /\ \A i \in DOMAIN plan : Matched(i)
    BY DEF ConvergeInv, Ongoing
  <1>4. \A i \in DOMAIN plan : ~Wrote(i)' => i # at /\ ~Wrote(i)
    <2>1. /\ at \in Nat \ {0} /\ at <= Len(plan) /\ plan \in Seq(ChangeType)
      BY DEF PlanInv, ManifestTyped
    <2>2. \/ at' = at /\ pc' \in Binds
          \/ at' = Pending(plan, at)
      BY <1>1 DEF Written, Applied, Binds
    <2>3. Pending(plan, at) \in Nat /\ at < Pending(plan, at)
      BY <2>1, PendingNext
    <2>4. pc \notin Binds /\ \A i \in DOMAIN plan : i \in Nat
      BY <2>1 DEF Binds
    <2> QED
      BY <2>1, <2>2, <2>3, <2>4 DEF Wrote
  <1>5. HeldBySomebody(bindings', rows')
    BY <1>1, RowsMoveKeeps, HoldersStay DEF SucceedInv
  <1>6. ParentsFirst'
    BY <1>1, ParentsStay DEF SucceedInv
  <1>7. used'.calm => VersionsKnown' /\ ReadsCurrent'
    <2> SUFFICES ASSUME used'.calm PROVE VersionsKnown' /\ ReadsCurrent'
      OBVIOUS
    <2>1. VersionsKnown /\ ReadsCurrent
      BY DEF SucceedInv
    <2> QED
      BY <1>2, <1>3, <1>4, <2>1, VersionsFollow, ReadsFollow
  <1>8. NewHoldsNone'
    <2> SUFFICES ASSUME pc' = "held", (plan'[at']).action = "create"
                 PROVE  \A y \in bindings : y.subject # id
      BY <1>1, <1>2 DEF NewHoldsNone, change
    <2>1. change.action = "create"
      BY <1>1, <1>2 DEF change
    <2>2. e.kind \in Subjects
      BY <1>1 DEF Written, Applied
    <2> QED
      BY <2>1, <2>2
  <1> QED
    BY <1>2, <1>5, <1>6, <1>7, <1>8 DEF SucceedInv, AllRead, Reconciling, Cleared

LEMMA CreateSucceeds ==
    ASSUME PlanInv, PlanInv', ConvergeInv, SucceedInv, NamesTellApart,
           NEW ending \in Endings, Create(ending)
    PROVE  SucceedInv'
  <1>1. /\ pc = "next" /\ at <= Len(plan) /\ ~Unresolved /\ change.action = "create" /\ Creatable
        /\ Spend(ending) /\ UNCHANGED bindings
        /\ rows' = rows \/ rows' = rows \cup {Row}
    BY DEF Create
  <1>2. at \in DOMAIN plan /\ (used'.calm => used.calm)
    BY <1>1, InPlan, CalmSpend
  <1>3. CASE ending # "done"
    <2>1. pc' = "idle"
      BY <1>3 DEF Create, Report
    <2>2. ~used'.calm
      BY <1>1, <1>3 DEF Spend, PlanInv, ManifestTyped, UsedTyped
    <2>3. HeldBySomebody(bindings', rows')
      BY <1>1 DEF SucceedInv, HeldBySomebody
    <2> QED
      BY <2>1, <2>2, <2>3, StopSucceeds
  <1>4. CASE ending = "done"
    <2>1. PICK id, version, e : id = NewId /\ version = 1 /\ e = entity
      OBVIOUS
    <2>2. WroteIt(id) /\ Versioned(version) /\ rows' = rows \cup {Row}
      BY <1>4, <2>1, CreateWrote DEF Create
    <2>3. Row.kind = e.kind /\ Row.id = id /\ Row.version = version
      BY <2>1 DEF Row
    <2>4. e.kind = "segment" =>
              \E q \in rows' : q.kind = "segment" /\ q.id = id /\ q.version = version
      BY <2>2, <2>3
    <2>5. ASSUME e.kind \in Subjects, NEW y \in bindings PROVE y.subject # id
      <3>1. PICK r \in rows : r.kind \in Subjects /\ r.id = y.subject
        BY DEF SucceedInv, HeldBySomebody
      <3>2. PICK u : u = Row
        OBVIOUS
      <3>3. Added(u)
        BY <1>1, <1>2, <2>2, <3>2, CreateAdds
      <3>4. u.kind # "profile" /\ r.kind # "profile" /\ u.id = id
        BY <2>3, <2>5, <3>1, <3>2 DEF Subjects
      <3>5. r.id < u.id /\ r.id \in Nat /\ u.id \in Nat
        BY <3>3, <3>4, AddedRow DEF Added, PlanInv, ManifestTyped, Rows
      <3> QED
        BY <3>1, <3>4, <3>5
    <2> QED
      BY <1>1, <1>2, <2>1, <2>2, <2>4, <2>5, WrittenSucceeds
  <1> QED
    BY <1>3, <1>4

LEMMA UpdateSucceeds ==
    ASSUME PlanInv, PlanInv', ConvergeInv, SucceedInv, NamesTellApart,
           NEW ending \in Endings, Update(ending)
    PROVE  SucceedInv'
  <1>1. /\ pc = "next" /\ at <= Len(plan) /\ change.action = "update"
        /\ Spend(ending) /\ UNCHANGED bindings
        /\ rows' = rows \/ rows' = (rows \ {Target}) \cup {Replaced}
    BY DEF Update
  <1>2. at \in DOMAIN plan /\ (used'.calm => used.calm)
    BY <1>1, InPlan, CalmSpend
  <1>3. CASE ending # "done"
    <2>1. pc' = "idle"
      BY <1>3 DEF Update, Report
    <2>2. ~used'.calm
      BY <1>1, <1>3 DEF Spend, PlanInv, ManifestTyped, UsedTyped
    <2>3. RowsStay
      BY <1>1, <1>2, UpdateRenews, RowsMoveKeeps DEF RowsMove
    <2>4. HeldBySomebody(bindings', rows')
      BY <1>1, <2>3, HoldersStay DEF SucceedInv
    <2> QED
      BY <2>1, <2>2, <2>4, StopSucceeds
  <1>4. CASE ending = "done"
    <2>1. PICK id, version, e : id = change.id /\ version = Replaced.version /\ e = entity
      OBVIOUS
    <2>2. /\ WroteIt(id) /\ Versioned(version)
          /\ rows' = (rows \ {Target}) \cup {Replaced}
      BY <1>4, <2>1, UpdateWrote DEF Update
    <2>3. Replaced.id = id /\ Replaced.kind = e.kind
      BY <1>1, <1>2, <2>1, <2>2, TargetFits, UpdateRenews DEF Renewed, Fit
    <2>4. e.kind = "segment" =>
              \E q \in rows' : q.kind = "segment" /\ q.id = id /\ q.version = version
      BY <2>1, <2>2, <2>3
    <2> QED
      BY <1>1, <1>2, <2>1, <2>2, <2>4, WrittenSucceeds
  <1> QED
    BY <1>3, <1>4

LEMMA BindingsOnlySucceeds ==
    ASSUME PlanInv, PlanInv', ConvergeInv, SucceedInv, NamesTellApart, BindingsOnly
    PROVE  SucceedInv'
  <1>1. /\ pc = "next" /\ at <= Len(plan) /\ change.action = "update"
        /\ UNCHANGED <<versions, used>> /\ entity.kind \in Subjects
    BY DEF BindingsOnly, SendsUpdate
  <1>2. at \in DOMAIN plan
    BY <1>1, InPlan
  <1>3. PICK id, version, e : id = change.id /\ version = 1 /\ e = entity
    OBVIOUS
  <1>4. WroteIt(id)
    BY <1>3, BindingsOnlyWrote
  <1>5. e.kind # "segment" /\ Versioned(version)
    BY <1>1, <1>3 DEF Versioned, Subjects
  <1> QED
    BY <1>1, <1>2, <1>3, <1>4, <1>5, WrittenSucceeds

LEMMA StopsSucceed ==
    ASSUME PlanInv, ConvergeInv, SucceedInv, DependencyMissing \/ Conflict \/ Complete
    PROVE  SucceedInv'
  <1>1. pc = "next" /\ pc' = "idle" /\ UNCHANGED <<rows, bindings, used>>
    BY DEF DependencyMissing, Conflict, Complete, Report, tenant
  <1>2. HeldBySomebody(bindings', rows')
    BY <1>1 DEF SucceedInv
  <1>3. ASSUME used.calm PROVE ~DependencyMissing /\ ~Conflict
    <2>1. CASE at <= Len(plan)
      <3>1. at \in DOMAIN plan
        BY <2>1, InPlan
      <3>2. ~Unresolved
        BY <1>1, <1>3, <3>1, NothingMissing
      <3> QED
        BY <1>1, <1>3, <3>1, <3>2, NoConflict DEF DependencyMissing, Conflict
    <2> QED
      BY <2>1 DEF DependencyMissing, Conflict
  <1>4. used'.calm => EndsWell'
    BY <1>1, <1>3 DEF Complete, Report, EndsWell
  <1> QED
    BY <1>1, <1>2, <1>4, StopSucceeds

LEMMA EditSucceeds ==
    ASSUME PlanInv, SucceedInv, EditElsewhere
    PROVE  SucceedInv'
  <1>1. UNCHANGED <<bindings, manifest, pc, plan, at, ids>>
    BY DEF EditElsewhere, progress
  <1>2. ~used'.calm
    BY DEF EditElsewhere, PlanInv, ManifestTyped, UsedTyped
  <1>3. RowsStay /\ SamePlan
    BY <1>1, EditRenews, RowsMoveKeeps, PlanIsSame
  <1>4. HeldBySomebody(bindings', rows')
    BY <1>1, <1>3, HoldersStay DEF SucceedInv
  <1>5. pc # "idle" => ParentsFirst'
    BY <1>3, ParentsStay DEF SucceedInv
  <1> QED
    BY <1>1, <1>2, <1>4, <1>5 DEF SucceedInv, NewHoldsNone, change

\* What a change was planned from is what the tenant has.
LEMMA ChangeReads ==
    ASSUME manifest \in Seq(Entities), rows \subseteq Rows, Numbered(rows), NamedOnce(rows),
           NEW e \in ToSet(manifest), Change(e).action # "create"
    PROVE  /\ Change(e).read \in rows /\ Change(e).read # None
           /\ Change(e).read.id = Change(e).id /\ Change(e).read.kind = e.kind
  <1>1. PICK c : c = Change(e)
    OBVIOUS
  <1>2. c.entity = e /\ PlannedFrom(c, rows, ToSet(manifest))
    BY <1>1, ChangePlanned DEF PlannedAs
  <1>3. c.read \in Rows /\ c.read.id = c.id /\ c.read.kind = e.kind
    BY <1>1, <1>2 DEF PlannedFrom
  <1>4. PICK q \in rows : Alike(q, c.read)
    BY <1>1, <1>2 DEF PlannedFrom
  <1>5. c.read = CHOOSE r \in Matches(e) : \A p \in Matches(e) : r.id <= p.id
    BY <1>1 DEF Change
  <1>6. \E r \in Matches(e) : \A p \in Matches(e) : r.id <= p.id
    <2> DEFINE I == {r.id : r \in Matches(e)}
    <2>1. e \in Entities
      BY DEF ToSet
    <2>2. Matches(e) # {}
      BY DEF Change
    <2>3. I \subseteq Nat /\ I # {}
      BY <2>1, <2>2, MatchesAreRows DEF Rows, Entities
    <2>4. PICK m \in I : \A n \in I : m <= n
      <3> HIDE DEF I
      <3> QED
        BY <2>3, MinIn
    <2> QED
      BY <2>4
  <1>7. c.read \in rows
    <2>1. e \in Entities
      BY DEF ToSet
    <2> QED
      BY <1>5, <1>6, <2>1, MatchesAreRows DEF Entities
  <1>8. c.read # None
    BY <1>3, WorldAssumption
  <1> QED
    BY <1>1, <1>3, <1>7, <1>8

\* Two entities of the plan, one declared under the other.
LEMMA ParentBefore ==
    ASSUME manifest \in Seq(Entities), Valid, KeysTellApart,
           NEW order \in [DOMAIN manifest -> DOMAIN manifest], Ordered(order),
           NEW k \in DOMAIN manifest, NEW l \in DOMAIN manifest,
           NEW e, NEW f, e = manifest[order[k]], f = manifest[order[l]],
           e.kind = "resource", e.depends # None, f.kind = "resource", f.key = e.depends
    PROVE  l < k
  <1>1. PICK i \in DOMAIN manifest, p \in DOMAIN manifest : i = order[k] /\ p = order[l]
    OBVIOUS
  <1>2. Acyclic /\ WellDeclared
    BY DEF Valid
  <1>3. e = manifest[i] /\ f = manifest[p] /\ e \in ToSet(manifest)
    BY <1>1 DEF ToSet
  <1>4. FindOfKind("resource", e.depends) = p
    BY <1>2, <1>3 DEF WellDeclared
  <1>5. p # 0
    OBVIOUS
  <1>6. FindKey(e.depends) = p
    BY <1>3, <1>4, <1>5 DEF KeysTellApart
  <1>7. Parent(i) = p
    BY <1>3, <1>5, <1>6 DEF Parent, DependsOn
  <1>8. Depth(p) \in Int /\ Depth(i) \in Int /\ Depth(p) < Depth(i)
    BY <1>2, <1>5, <1>7, ParentsAreHigher
  <1>9. ~Before(i, p)
    <2>1. Rank[e.kind] \in Nat /\ Rank[f.kind] = Rank[e.kind]
      BY RanksAreNumbers DEF Rank
    <2> QED
      BY <1>3, <1>8, <2>1 DEF Before
  <1>10. ~(k < l)
    BY <1>1, <1>9 DEF Ordered
  <1>11. k # l
    BY <1>1, <1>8
  <1> QED
    BY <1>10, <1>11

LEMMA PlanSucceeds ==
    ASSUME PlanInv, ConvergeInv, SucceedInv, KeysTellApart, Plan
    PROVE  SucceedInv'
  <1>1. UNCHANGED <<rows, bindings, manifest>>
    BY DEF Plan, tenant
  <1>2. HeldBySomebody(bindings', rows')
    BY <1>1 DEF SucceedInv
  <1>3. CASE ~Plannable
    <2>1. pc' = "idle" /\ EndsWell'
      BY <1>3 DEF Plan, EndsWell
    <2> QED
      BY <1>2, <2>1, StopSucceeds
  <1>4. CASE Plannable
    <2>1. PICK order \in Bijection(DOMAIN manifest, DOMAIN manifest) :
                 Ordered(order) /\ plan' = Changes(order)
      BY <1>4 DEF Plan
    <2>2. /\ ids' = Seeded(plan') /\ at' = Pending(plan', 0) /\ pc' = "next"
          /\ versions' = SeededVersions(plan')
      BY <1>4 DEF Plan
    <2> DEFINE D == DOMAIN manifest
    <2>3. order \in [D -> D] /\ manifest \in Seq(Entities)
      BY <2>1 DEF Bijection, Injection, PlanInv, ManifestTyped
    <2>4. plan' = [k \in D |-> Change(manifest[order[k]])] /\ DOMAIN plan' = D
      BY <2>1 DEF Changes
    <2>5. PlanInv'
      BY PlanStep
    <2>6. InOrder' /\ plan' \in Seq(ChangeType)
      BY <2>2, <2>5 DEF PlanInv, Resolving, ManifestTyped
    <2>7. \A k \in D : /\ manifest[order[k]] \in ToSet(manifest)
                       /\ plan'[k] = Change(manifest[order[k]])
                       /\ plan'[k].entity = manifest[order[k]]
      BY <2>3, <2>4, ChangePlanned DEF ToSet, PlanInv, ManifestTyped
    <2>8. \A k \in D : plan'[k].action # "create" =>
              /\ plan'[k].read \in rows /\ plan'[k].read # None
              /\ plan'[k].read.id = plan'[k].id /\ plan'[k].read.kind = plan'[k].entity.kind
      BY <2>3, <2>7, ChangeReads DEF PlanInv, ManifestTyped
    <2>9. ParentsFirst'
      <3> SUFFICES ASSUME NEW k \in D, NEW l \in D,
                          plan'[k].entity.kind = "resource", plan'[k].entity.depends # None,
                          plan'[l].entity.kind = "resource",
                          plan'[l].entity.key = plan'[k].entity.depends
                   PROVE  l < k
        BY <2>4 DEF ParentsFirst
      <3>1. PICK e, f : e = manifest[order[k]] /\ f = manifest[order[l]]
        OBVIOUS
      <3>2. /\ e.kind = "resource" /\ e.depends # None
            /\ f.kind = "resource" /\ f.key = e.depends
        BY <2>7, <3>1
      <3> QED
        BY <1>4, <2>1, <2>3, <3>1, <3>2, ParentBefore DEF Plannable
    <2>10. ReadsCurrent'
      BY <1>1, <2>4, <2>8 DEF ReadsCurrent
    <2>11. \A i \in D : HasId(i)' => plan'[i].action # "create"
      <3>1. /\ \A i \in DOMAIN plan' : 0 < i /\ i < at' => plan'[i].action = "unchanged"
            /\ Len(plan') \in Nat
        BY <2>2, <2>6, PendingNext
      <3>2. \A i \in D : i \in Nat /\ 0 < i
        BY <2>3
      <3> QED
        BY <2>2, <2>4, <3>1, <3>2 DEF HasId, Wrote, Binds
    <2>12. VersionsKnown'
      <3> SUFFICES ASSUME NEW i \in D, plan'[i].entity.kind = "segment",
                          plan'[i].action # "create"
                   PROVE  {v.version : v \in {x \in versions' : x.key = plan'[i].entity.key}}
                            = {r.version : r \in {q \in rows : q.kind = "segment" /\
                                                     q.id = plan'[i].id}}
        BY <1>1, <2>4, <2>11 DEF VersionsKnown, VersionsOf, Envelope
      <3>1. PICK c, e : c = plan'[i] /\ e = c.entity
        OBVIOUS
      <3>2. /\ c.read \in rows /\ c.read # None /\ c.read.id = c.id
            /\ c.read.kind = "segment" /\ e.kind = "segment" /\ e \in ToSet(manifest)
            /\ c \in ToSet(plan')
        BY <2>4, <2>7, <2>8, <3>1 DEF ToSet
      <3>3. {q \in rows : q.kind = "segment" /\ q.id = c.id} = {c.read}
        BY <3>2 DEF PlanInv, Numbered
      <3>4. versions' = {[key |-> d.entity.key, version |-> d.read.version] :
                            d \in {f \in ToSet(plan') : f.entity.kind = "segment" /\ f.read # None}}
        BY <2>2 DEF SeededVersions
      <3>5. PICK x : x = [key |-> e.key, version |-> c.read.version]
        OBVIOUS
      <3>6. x.key = e.key /\ x.version = c.read.version /\ x \in versions'
        BY <3>1, <3>2, <3>4, <3>5
      <3>7. ASSUME NEW y \in versions', y.key = e.key PROVE y.version = c.read.version
        <4>1. PICK d \in ToSet(plan') :
                  /\ d.entity.kind = "segment"
                  /\ y = [key |-> d.entity.key, version |-> d.read.version]
          BY <3>4
        <4>2. PICK j \in D : d = plan'[j]
          BY <2>4, <4>1 DEF ToSet
        <4>3. d.entity \in ToSet(manifest) /\ d.entity.key = e.key /\ y.version = d.read.version
          BY <2>7, <3>7, <4>1, <4>2
        <4>4. Keyed
          BY <1>4 DEF Plannable, Valid, WellDeclared, Keyed
        <4>5. d.entity = e
          BY <2>3, <3>2, <4>1, <4>3, <4>4, KeyedOnce
        <4>6. d = c
          BY <2>7, <3>1, <4>2, <4>5
        <4> QED
          BY <4>3, <4>6
      <3>8. {v.version : v \in {y \in versions' : y.key = e.key}} = {c.read.version}
        BY <3>6, <3>7
      <3>9. {r.version : r \in {q \in rows : q.kind = "segment" /\ q.id = c.id}}
              = {c.read.version}
        BY <3>3
      <3> QED
        BY <3>1, <3>8, <3>9
    <2> QED
      BY <1>2, <2>2, <2>9, <2>10, <2>12
      DEF SucceedInv, NewHoldsNone, AllRead, Reconciling, Cleared
  <1> QED
    BY <1>3, <1>4

LEMMA StutterSucceeds ==
    ASSUME PlanInv, SucceedInv, UNCHANGED manifestVars
    PROVE  SucceedInv'
  <1>1. UNCHANGED <<rows, bindings, manifest, pc, plan, at, ids, versions, held, role,
                    status, used>>
    BY DEF manifestVars
  <1>2. HeldBySomebody(bindings', rows')
    BY <1>1 DEF SucceedInv
  <1>3. CASE pc = "idle"
    BY <1>1, <1>2, <1>3, StopSucceeds DEF SucceedInv, EndsWell
  <1>4. CASE pc # "idle"
    <2>1. \A i \in DOMAIN plan : (HasId(i)' => HasId(i)) /\ (Wrote(i) => Wrote(i)')
      BY <1>1 DEF HasId, Wrote
    <2>2. ParentsFirst' /\ (used'.calm => VersionsKnown' /\ ReadsCurrent')
      BY <1>1, <1>4, <2>1, PlanIsSame, QuietKeeps
    <2>3. entity' = entity /\ Old' = Old
      BY <1>1, OldKept DEF RoleRows
    <2>4. AllRead => AllRead'
      <3> SUFFICES ASSUME AllRead, pc \in Reconciling,
                          NEW y \in bindings, NEW k \in DOMAIN entity.roles,
                          y.subject = plan[at].id, role < k \/ (role = k /\ ~Rebinding),
                          Bears("role", y.role, RoleName(entity.roles[k]))'
                   PROVE  y \in held
        BY <1>1, <2>3 DEF AllRead, Rebinding
      <3>1. PICK b : b = entity.roles[k]
        OBVIOUS
      <3>2. RoleName(b)' = RoleName(b) /\ (entity.roles[k])' = b
        BY <1>1, <2>3, <3>1, NamesStay
      <3>3. Bears("role", y.role, RoleName(b))
        BY <1>1, <3>2 DEF Bears
      <3> QED
        BY <3>1, <3>3 DEF AllRead
    <2>5. (Cleared => Cleared') /\ (NewHoldsNone => NewHoldsNone')
      BY <1>1, <2>3 DEF Cleared, NewHoldsNone, change
    <2> QED
      BY <1>1, <1>2, <1>4, <2>2, <2>4, <2>5 DEF SucceedInv
  <1> QED
    BY <1>3, <1>4

LEMMA SucceedInit == ManifestInit => SucceedInv
  <1> SUFFICES ASSUME ManifestInit PROVE SucceedInv
    OBVIOUS
  <1>1. PICK w \in Worlds : rows = w.rows /\ bindings = w.bindings
    BY DEF ManifestInit
  <1>2. pc = "idle" /\ status = "new"
    BY DEF ManifestInit
  <1>3. HeldBySomebody(bindings, rows)
    BY <1>1, WorldAssumption
  <1> QED
    BY <1>2, <1>3
    DEF SucceedInv, NewHoldsNone, AllRead, Reconciling, Cleared, EndsWell

LEMMA SucceedStep ==
    ASSUME PlanInv, PlanInv', BindInv, ConvergeInv, SucceedInv, KeysTellApart, NamesTellApart,
           [ManifestNext]_manifestVars
    PROVE  SucceedInv'
  <1>1. CASE DependencyMissing \/ Conflict \/ Complete
    BY <1>1, StopsSucceed
  <1>2. CASE Plan \/ BindingsOnly \/ ReadHeld \/ Bound \/ AlreadyBound
    BY <1>2, PlanSucceeds, BindingsOnlySucceeds, ReadHeldSucceeds, BoundSucceeds,
       AlreadyBoundSucceeds
  <1>3. ASSUME NEW ending \in Endings,
               \/ Create(ending) \/ Update(ending) \/ AssignAbsent(ending)
               \/ Unassign(ending) \/ Rebind(ending) \/ Restore(ending)
        PROVE  SucceedInv'
    BY <1>3, CreateSucceeds, UpdateSucceeds, AssignAbsentSucceeds, UnassignSucceeds,
       RebindSucceeds, RestoreSucceeds
  <1> QED
    BY <1>1, <1>2, <1>3, EditSucceeds, StutterSucceeds DEF ManifestNext, Apply, ManifestDone

\* The manifest stays what it is, and so does what is said of it alone.
LEMMA ManifestStays ==
    ASSUME [ManifestNext]_manifestVars
    PROVE  UNCHANGED manifest
  <1>1. CASE ManifestNext
    BY <1>1
    DEF ManifestNext, Apply, Plan, DependencyMissing, BindingsOnly, Conflict, Complete, ReadHeld,
        Bound, AlreadyBound, Create, Update, AssignAbsent, Unassign, Rebind, Restore, Assign,
        EditElsewhere, ManifestDone, manifestVars
  <1> QED
    BY <1>1 DEF manifestVars

TellApart == KeysTellApart /\ NamesTellApart

LEMMA TellApartStays ==
    ASSUME UNCHANGED manifest, TellApart'
    PROVE  TellApart
  <1>1. \A key : FindKey(key)' = FindKey(key)
    BY DEF FindKey, SelectInSeq
  <1>2. \A kind, key : FindOfKind(kind, key)' = FindOfKind(kind, key)
    BY NamesStay
  <1>3. KeysTellApart
    BY <1>1, <1>2 DEF TellApart, KeysTellApart
  <1>4. NamesTellApart
    BY DEF TellApart, NamesTellApart
  <1> QED
    BY <1>3, <1>4 DEF TellApart

\* Where one page holds every object, an apply that nothing disturbs ends with
\* every change applied, whatever earlier ones left half done: a dependency is
\* performed before what needs it, the object a write is for is there in the
\* version it names, or not there if it is to be created, and the binding that
\* goes where another was taken away finds the place free.
THEOREM UndisturbedApplyEndsWell == ManifestSpec /\ []PageHoldsAll => []UndisturbedApplySucceeds
  <1> DEFINE I == TellApart => ConvergeInv /\ SucceedInv
  <1>1. ManifestInit => I
    BY ConvergeInit, SucceedInit
  <1>2. PlanInv /\ PlanInv' /\ BindInv /\ I /\ PageHoldsAll /\ [ManifestNext]_manifestVars => I'
    <2> SUFFICES ASSUME PlanInv, PlanInv', BindInv, I, PageHoldsAll,
                        [ManifestNext]_manifestVars, TellApart'
                 PROVE  ConvergeInv' /\ SucceedInv'
      OBVIOUS
    <2>1. TellApart
      BY ManifestStays, TellApartStays
    <2> QED
      BY <2>1, ConvergeStep, SucceedStep DEF TellApart
  <1>3. I => UndisturbedApplySucceeds
    BY DEF TellApart, SucceedInv, EndsWell, UndisturbedApplySucceeds
  <1> QED
    BY <1>1, <1>2, <1>3, PlanAlways, BindAlways, PTL DEF ManifestSpec
=============================================================================
