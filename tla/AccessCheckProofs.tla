------------------------- MODULE AccessCheckProofs -------------------------
(***************************************************************************)
(* Proofs about check_access and its decision memo, for any checkers,      *)
(* questions, principals, tenants, time to live and cap: the memo keeps    *)
(* its shape and answers nothing too old, and a decision in it that is     *)
(* somebody else's, or for another tenant, was raced by a change of        *)
(* credentials or of the acting tenant.                                    *)
(***************************************************************************)
EXTENDS AccessCheck, SequenceTheorems, TLAPS

Acts == Tenants \cup {NoTenant}
Whos == Principals \cup {Nobody}
Keys == {<<>>} \cup (Questions \X Acts)
Decisions == [who : Whos, tenant : Acts, whoRaced : BOOLEAN, tenantRaced : BOOLEAN]
Entries == [decision : Decisions, storedAt : Int]
Ops == [key : Keys, attempt : Int, refreshed : BOOLEAN, seen : Decisions,
        whoRaced : BOOLEAN, tenantRaced : BOOLEAN]
Answers == [from : {"none", "memo"}, age : Int]
Places == {"idle", "lookup", "build", "send", "wire", "refresh"}

Typed ==
    /\ pc \in [Checkers -> Places] /\ op \in [Checkers -> Ops]
    /\ answer \in [Checkers -> Answers]
    /\ now \in Int /\ jar \in Whos /\ acting \in Acts

\* The queue holds every key of the map and no other, each once, in the order the
\* entries were stored.
InStep(m) ==
    /\ \A i \in 1 .. Len(m.order) : m.order[i] \in DOMAIN m.entries
    /\ \A k \in DOMAIN m.entries : \E i \in 1 .. Len(m.order) : m.order[i] = k

InOrder(m) ==
    \A i, j \in 1 .. Len(m.order) :
        i < j => /\ m.order[i] # m.order[j]
                 /\ m.entries[m.order[i]].storedAt <= m.entries[m.order[j]].storedAt

Shaped(m, t) ==
    /\ m.order \in Seq(Keys) /\ InStep(m) /\ InOrder(m)
    /\ \A k \in DOMAIN m.entries : m.entries[k] \in Entries /\ m.entries[k].storedAt <= t

Kept(m, t) == Shaped(m, t) /\ Len(m.order) <= MaxEntries

\* What is in memo n was in memo m.
From(n, m) ==
    \A k \in DOMAIN n.entries : k \in DOMAIN m.entries /\ n.entries[k] = m.entries[k]

Young ==
    \A c \in Checkers :
        answer[c].from = "memo" => answer[c].age < RequestedTtl /\ answer[c].age < MaxTtl

\* A check under way that is unmarked files its decision under the tenant it asks
\* about and carries the cookies that are in the jar; while the credentials are
\* between the two ends of a change, none is unmarked.
Fits(place, o) ==
    place # "idle" =>
        /\ acting # o.key[2] => o.tenantRaced = TRUE
        /\ place \in {"send", "wire"} /\ o.seen.tenant # o.key[2] => o.tenantRaced = TRUE
        /\ place = "wire" /\ o.seen.who # jar => o.whoRaced = TRUE
        /\ change # "none" => o.whoRaced = TRUE

\* The same of a decision in the memo.
Fitting(k, e) ==
    /\ e.decision.who # jar => e.decision.whoRaced = TRUE
    /\ e.decision.tenant # k[2] => e.decision.tenantRaced = TRUE
    /\ change # "none" => e.decision.whoRaced = TRUE

IInv ==
    /\ Typed /\ Kept(memo, now) /\ Young
    /\ \A c \in Checkers : Fits(pc[c], op[c])
    /\ \A k \in DOMAIN memo.entries : Fitting(k, memo.entries[k])

-----------------------------------------------------------------------------
(* The memo: erase_locked, get and put. *)

LEMMA RemovedAt ==
    ASSUME NEW S, NEW m \in Seq(S), NEW i \in 1 .. Len(m)
    PROVE  /\ RemoveAt(m, i) \in Seq(S) /\ Len(RemoveAt(m, i)) = Len(m) - 1
           /\ \A j \in 1 .. (Len(m) - 1) :
                 RemoveAt(m, i)[j] = IF j < i THEN m[j] ELSE m[j + 1]
  <1> DEFINE front == SubSeq(m, 1, i - 1)
             back == SubSeq(m, i + 1, Len(m))
             w == RemoveAt(m, i)
  <1>1. Len(m) \in Nat /\ i \in 1 .. Len(m)
    BY LenProperties
  <1>2. front \in Seq(S) /\ Len(front) = i - 1 /\ \A j \in 1 .. (i - 1) : front[j] = m[j]
    OBVIOUS
  <1>3. /\ back \in Seq(S) /\ Len(back) = Len(m) - i
        /\ \A j \in 1 .. (Len(m) - i) : back[j] = m[i + j]
    OBVIOUS
  <1>4. w = front \o back
    BY DEF RemoveAt
  <1> HIDE DEF front, back, w
  <1>5. /\ w \in Seq(S) /\ Len(w) = Len(front) + Len(back)
        /\ \A j \in 1 .. Len(front) + Len(back) :
              w[j] = IF j <= Len(front) THEN front[j] ELSE back[j - Len(front)]
    BY <1>2, <1>3, <1>4, ConcatProperties
  <1>6. ASSUME NEW j \in 1 .. (Len(m) - 1) PROVE w[j] = IF j < i THEN m[j] ELSE m[j + 1]
    <2>0. w[j] = IF j <= Len(front) THEN front[j] ELSE back[j - Len(front)]
      <3>1. Len(front) + Len(back) = Len(m) - 1
        BY <1>1, <1>2, <1>3
      <3> QED
        BY <1>5, <3>1
    <2>1. CASE j < i
      <3>1. j \in 1 .. (i - 1) /\ j <= Len(front)
        BY <1>1, <1>2, <2>1
      <3> QED
        BY <1>2, <2>0, <2>1, <3>1
    <2>2. CASE ~(j < i)
      <3>1. j - (i - 1) \in 1 .. (Len(m) - i) /\ i + (j - (i - 1)) = j + 1
        BY <1>1, <2>2
      <3>2. w[j] = back[j - (i - 1)]
        BY <1>1, <1>2, <2>0, <2>2
      <3> QED
        BY <1>3, <2>2, <3>1, <3>2
    <2> QED
      BY <2>1, <2>2
  <1>7. Len(w) = Len(m) - 1
    BY <1>1, <1>2, <1>3, <1>5
  <1> QED
    BY <1>5, <1>6, <1>7 DEF w

LEMMA OneOut ==
    ASSUME NEW e, NEW K
    PROVE  /\ DOMAIN Without(e, K) = DOMAIN e \ K
           /\ \A k \in DOMAIN Without(e, K) : Without(e, K)[k] = e[k]
  BY DEF Without

\* The entry of one key leaves, map and queue alike: the others stay in order.
LEMMA ErasedKept ==
    ASSUME NEW t \in Int, NEW m, Kept(m, t), NEW k
    PROVE  /\ Kept(Erased(m, k), t)
           /\ k \notin DOMAIN Erased(m, k).entries
           /\ From(Erased(m, k), m)
  <1> DEFINE q == m.order
  <1>0. q \in Seq(Keys) /\ Len(q) \in Nat /\ DOMAIN q = 1 .. Len(q) /\ MaxEntries \in Nat
    BY LenProperties, MemoAssumption DEF Kept, Shaped
  <1>1. CASE k \notin DOMAIN m.entries
    BY <1>1 DEF Erased, From
  <1>2. CASE k \in DOMAIN m.entries
    <2> DEFINE w == RemoveAt(q, PlaceOf(q, k))
               e == Without(m.entries, {k})
    <2>1. PICK n \in 1 .. Len(q) : q[n] = k
      BY <1>2 DEF Kept, Shaped, InStep
    <2>2. \A i, j \in 1 .. Len(q) : i < j => q[i] # q[j]
      BY DEF Kept, Shaped, InOrder
    <2>3. \A i \in 1 .. Len(q) : q[i] = k => i = n
      BY <1>0, <2>1, <2>2
    <2>4. PlaceOf(q, k) = n
      <3>1. \A j \in 1 .. (n - 1) : q[j] # k
        BY <1>0, <2>1, <2>3
      <3> QED
        BY <1>0, <2>1, <2>3, <3>1 DEF PlaceOf
    <2>5. Erased(m, k) = [entries |-> e, order |-> w]
      BY <1>0, <1>2, <2>1 DEF Erased
    <2>6. /\ w \in Seq(Keys) /\ Len(w) = Len(q) - 1
          /\ \A j \in 1 .. (Len(q) - 1) : w[j] = IF j < n THEN q[j] ELSE q[j + 1]
      BY <1>0, <2>1, <2>4, RemovedAt
    <2>7. DOMAIN e = DOMAIN m.entries \ {k} /\ \A j \in DOMAIN e : e[j] = m.entries[j]
      BY OneOut
    <2> HIDE DEF w, e
    <2> DEFINE f(j) == IF j < n THEN j ELSE j + 1
    <2>8. \A j \in 1 .. Len(w) : w[j] = q[f(j)] /\ f(j) \in 1 .. Len(q) /\ f(j) # n
      BY <1>0, <2>1, <2>6
    <2>9. \A i, j \in 1 .. Len(w) : i < j => f(i) < f(j)
      BY <1>0, <2>1, <2>6
    <2>10. Len(w) <= MaxEntries
      BY <1>0, <2>6 DEF Kept
    <2>11. \A i \in 1 .. Len(q) : i # n => \E j \in 1 .. Len(w) : f(j) = i
      <3> SUFFICES ASSUME NEW i \in 1 .. Len(q), i # n PROVE \E j \in 1 .. Len(w) : f(j) = i
        OBVIOUS
      <3>1. CASE i < n
        BY <1>0, <2>1, <2>6, <3>1
      <3>2. CASE ~(i < n)
        <4>1. i - 1 \in 1 .. Len(w) /\ f(i - 1) = i
          BY <1>0, <2>1, <2>6, <3>2
        <4> QED
          BY <4>1
      <3> QED
        BY <3>1, <3>2
    <2> HIDE DEF f
    <2>12. \A i \in 1 .. Len(w) : w[i] \in DOMAIN e
      <3> SUFFICES ASSUME NEW i \in 1 .. Len(w) PROVE w[i] \in DOMAIN e
        OBVIOUS
      <3>1. q[f(i)] \in DOMAIN m.entries /\ q[f(i)] # k
        BY <2>3, <2>8 DEF Kept, Shaped, InStep
      <3> QED
        BY <2>7, <2>8, <3>1
    <2>13. \A j \in DOMAIN e : \E i \in 1 .. Len(w) : w[i] = j
      <3> SUFFICES ASSUME NEW j \in DOMAIN e PROVE \E i \in 1 .. Len(w) : w[i] = j
        OBVIOUS
      <3>1. PICK i \in 1 .. Len(q) : q[i] = j
        BY <2>7 DEF Kept, Shaped, InStep
      <3>2. i # n
        BY <2>1, <2>7, <3>1
      <3>3. PICK h \in 1 .. Len(w) : f(h) = i
        BY <2>11, <3>2
      <3> QED
        BY <2>8, <3>1, <3>3
    <2>14. ASSUME NEW i \in 1 .. Len(w), NEW j \in 1 .. Len(w), i < j
           PROVE  w[i] # w[j] /\ e[w[i]].storedAt <= e[w[j]].storedAt
      <3>1. f(i) \in 1 .. Len(q) /\ f(j) \in 1 .. Len(q) /\ f(i) < f(j)
        BY <2>8, <2>9, <2>14
      <3>2. /\ q[f(i)] # q[f(j)]
            /\ m.entries[q[f(i)]].storedAt <= m.entries[q[f(j)]].storedAt
        BY <3>1 DEF Kept, Shaped, InOrder
      <3>3. w[i] = q[f(i)] /\ w[j] = q[f(j)]
        BY <2>8
      <3>4. e[w[i]] = m.entries[w[i]] /\ e[w[j]] = m.entries[w[j]]
        BY <2>7, <2>12
      <3> QED
        BY <3>2, <3>3, <3>4
    <2>15. \A j \in DOMAIN e : e[j] \in Entries /\ e[j].storedAt <= t
      BY <2>7 DEF Kept, Shaped
    <2> DEFINE r == [entries |-> e, order |-> w]
    <2>16. r.entries = e /\ r.order = w
      OBVIOUS
    <2> HIDE DEF r, q
    <2>17. Kept(r, t)
      BY <2>6, <2>10, <2>12, <2>13, <2>14, <2>15, <2>16 DEF Kept, Shaped, InStep, InOrder
    <2>18. k \notin DOMAIN r.entries /\ From(r, m)
      BY <2>7, <2>16 DEF From
    <2> QED
      BY <2>5, <2>17, <2>18 DEF r
  <1> QED
    BY <1>1, <1>2

LEMMA ButTheFirst ==
    ASSUME NEW S, NEW m \in Seq(S), Len(m) >= 1, NEW w, w = SubSeq(m, 2, Len(m))
    PROVE  /\ w \in Seq(S) /\ Len(w) = Len(m) - 1
           /\ \A i \in 1 .. (Len(m) - 1) : w[i] = m[i + 1]
  <1>1. Len(m) \in Nat /\ 2 \in Int /\ \A i \in 2 .. Len(m) : m[i] \in S
    BY LenProperties, ElementOfSeq
  <1>2. /\ w \in Seq(S) /\ Len(w) = IF 2 <= Len(m) THEN Len(m) - 2 + 1 ELSE 0
        /\ \A i \in 1 .. Len(m) - 2 + 1 : w[i] = m[2 + i - 1]
    BY <1>1, SubSeqProperties
  <1>3. \A i \in 1 .. (Len(m) - 1) : i \in 1 .. Len(m) - 2 + 1 /\ 2 + i - 1 = i + 1
    BY <1>1
  <1>4. ASSUME NEW n \in Nat, n >= 1 PROVE (IF 2 <= n THEN n - 2 + 1 ELSE 0) = n - 1
    BY <1>4
  <1>5. (IF 2 <= Len(m) THEN Len(m) - 2 + 1 ELSE 0) = Len(m) - 1
    BY <1>1, <1>4
  <1>6. \A i \in 1 .. (Len(m) - 1) : w[i] = m[i + 1]
    <2> TAKE i \in 1 .. (Len(m) - 1)
    <2>1. w[i] = m[2 + i - 1] /\ 2 + i - 1 = i + 1
      BY <1>2, <1>3
    <2> QED
      BY <2>1
  <1> QED
    BY <1>2, <1>5, <1>6

\* The entries of w are e, of key k, and some of m's.
Drawn(w, m, k, e) ==
    \A j \in DOMAIN w.entries :
        \/ j = k /\ w.entries[j] = e
        \/ j \in DOMAIN m.entries /\ w.entries[j] = m.entries[j]

\* The new entry is the youngest.
LEMMA AddedShaped ==
    ASSUME now \in Int, NEW m, Shaped(m, now), NEW k \in Keys, k \notin DOMAIN m.entries,
           NEW e \in Entries, e.storedAt = now, NEW w, w = Added(m, k, e)
    PROVE  Shaped(w, now) /\ Drawn(w, m, k, e) /\ Len(w.order) = Len(m.order) + 1
  <1> DEFINE q == m.order
             p == w.order
             a == w.entries
  <1>0. q \in Seq(Keys) /\ Len(q) \in Nat
    BY LenProperties DEF Shaped
  <1>1. /\ DOMAIN a = DOMAIN m.entries \cup {k} /\ a[k] = e
        /\ \A j \in DOMAIN m.entries : a[j] = m.entries[j] /\ j # k
    BY DEF Added
  <1>2. p = Append(q, k)
    BY DEF Added
  <1>3. /\ p \in Seq(Keys) /\ Len(p) = Len(q) + 1
        /\ \A i \in 1 .. Len(q) : p[i] = q[i]
        /\ p[Len(q) + 1] = k
    BY <1>0, <1>2
  <1> HIDE DEF a, p, q
  <1>4. \A i \in 1 .. Len(q) : q[i] \in DOMAIN m.entries
    BY DEF Shaped, InStep, q
  <1>5. \A i \in 1 .. Len(p) : p[i] \in DOMAIN a
    BY <1>0, <1>1, <1>3, <1>4
  <1>6. \A j \in DOMAIN a : \E i \in 1 .. Len(p) : p[i] = j
    <2> SUFFICES ASSUME NEW j \in DOMAIN a PROVE \E i \in 1 .. Len(p) : p[i] = j
      OBVIOUS
    <2>1. CASE j = k
      BY <1>0, <1>3, <2>1
    <2>2. CASE j \in DOMAIN m.entries
      <3>1. PICK i \in 1 .. Len(q) : q[i] = j
        BY <2>2 DEF Shaped, InStep, q
      <3> QED
        BY <1>0, <1>3, <3>1
    <2> QED
      BY <1>1, <2>1, <2>2
  <1>7. \A j \in DOMAIN a : a[j] \in Entries /\ a[j].storedAt <= now
    BY <1>1 DEF Shaped
  <1>8. ASSUME NEW i \in 1 .. Len(p), NEW j \in 1 .. Len(p), i < j
        PROVE  p[i] # p[j] /\ a[p[i]].storedAt <= a[p[j]].storedAt
    <2>0. i \in 1 .. Len(q) /\ p[i] = q[i] /\ q[i] \in DOMAIN m.entries
      BY <1>0, <1>3, <1>4, <1>8
    <2>1. CASE j = Len(q) + 1
      <3>1. p[j] = k /\ p[i] # k
        BY <1>1, <1>3, <2>0, <2>1
      <3>2. a[p[i]].storedAt <= now
        BY <1>5, <1>7
      <3>3. a[p[j]].storedAt = now
        BY <1>1, <3>1
      <3> QED
        BY <3>1, <3>2, <3>3
    <2>2. CASE j # Len(q) + 1
      <3>1. j \in 1 .. Len(q) /\ p[j] = q[j] /\ q[j] \in DOMAIN m.entries
        BY <1>0, <1>3, <1>4, <2>2
      <3>2. q[i] # q[j] /\ m.entries[q[i]].storedAt <= m.entries[q[j]].storedAt
        BY <1>8, <2>0, <3>1 DEF Shaped, InOrder, q
      <3> QED
        BY <1>1, <2>0, <3>1, <3>2
    <2> QED
      BY <2>1, <2>2
  <1>9. Shaped(w, now)
    BY <1>3, <1>5, <1>6, <1>7, <1>8 DEF Shaped, InStep, InOrder, a, p
  <1>10. Drawn(w, m, k, e)
    BY <1>1 DEF Drawn, a
  <1> QED
    BY <1>3, <1>9, <1>10 DEF p, q

\* The oldest entry leaves, map and queue alike, when the cap is passed.
LEMMA EvictedKept ==
    ASSUME NEW t \in Int, NEW m, Shaped(m, t), Len(m.order) <= MaxEntries + 1
    PROVE  Kept(Evicted(m), t) /\ From(Evicted(m), m)
  <1> DEFINE q == m.order
  <1>0. q \in Seq(Keys) /\ Len(q) \in Nat /\ MaxEntries \in Nat \ {0}
    BY LenProperties, MemoAssumption DEF Shaped
  <1>1. CASE Len(q) <= MaxEntries
    <2>1. Evicted(m) = m
      BY <1>0, <1>1 DEF Evicted
    <2> QED
      BY <1>1, <2>1 DEF Kept, From
  <1>2. CASE ~(Len(q) <= MaxEntries)
    <2>1. Len(q) = MaxEntries + 1 /\ Len(q) - MaxEntries = 1 /\ Len(q) >= 1
      BY <1>0, <1>2
    <2> DEFINE w == SubSeq(q, 2, Len(q))
               e == Without(m.entries, {q[1]})
               r == [entries |-> e, order |-> w]
    <2>2. {q[i] : i \in 1 .. 1} = {q[1]}
      <3>1. \A i \in 1 .. 1 : i = 1
        OBVIOUS
      <3> QED
        BY <3>1
    <2>3. Evicted(m) = r
      <3>1. \A n : n = 1 => {q[i] : i \in 1 .. n} = {q[1]} /\ ~(n <= 0) /\ n + 1 = 2
        BY <2>2
      <3>2. Evicted(m) = [entries |-> Without(m.entries, {q[i] : i \in 1 .. (Len(q) - MaxEntries)}),
                          order |-> SubSeq(q, (Len(q) - MaxEntries) + 1, Len(q))]
        BY <2>1 DEF Evicted
      <3> QED
        BY <2>1, <3>1, <3>2
    <2>4. /\ w \in Seq(Keys) /\ Len(w) = Len(q) - 1
          /\ \A i \in 1 .. (Len(q) - 1) : w[i] = q[i + 1]
      BY <1>0, <2>1, ButTheFirst
    <2>5. DOMAIN e = DOMAIN m.entries \ {q[1]} /\ \A j \in DOMAIN e : e[j] = m.entries[j]
      BY OneOut
    <2>6. r.entries = e /\ r.order = w
      OBVIOUS
    <2> HIDE DEF w, e, r, q
    <2>7. Len(w) = MaxEntries /\ \A i \in 1 .. Len(w) : i + 1 \in 1 .. Len(q) /\ w[i] = q[i + 1]
      BY <1>0, <2>1, <2>4
    <2>8. \A i, j \in 1 .. Len(q) :
              i < j => q[i] # q[j] /\ m.entries[q[i]].storedAt <= m.entries[q[j]].storedAt
      BY DEF Shaped, InOrder, q
    <2>9. \A i \in 1 .. Len(w) : w[i] \in DOMAIN e
      <3> SUFFICES ASSUME NEW i \in 1 .. Len(w) PROVE w[i] \in DOMAIN e
        OBVIOUS
      <3>1. i + 1 \in 1 .. Len(q) /\ 1 \in 1 .. Len(q) /\ 1 < i + 1
        BY <1>0, <2>1, <2>7
      <3>2. q[i + 1] \in DOMAIN m.entries /\ q[1] # q[i + 1]
        BY <2>8, <3>1 DEF Shaped, InStep, q
      <3> QED
        BY <2>5, <2>7, <3>2
    <2>10. \A j \in DOMAIN e : \E i \in 1 .. Len(w) : w[i] = j
      <3> SUFFICES ASSUME NEW j \in DOMAIN e PROVE \E i \in 1 .. Len(w) : w[i] = j
        OBVIOUS
      <3>1. PICK i \in 1 .. Len(q) : q[i] = j
        BY <2>5 DEF Shaped, InStep, q
      <3>2. i # 1
        BY <2>5, <3>1
      <3>3. i - 1 \in 1 .. Len(w) /\ (i - 1) + 1 = i
        BY <1>0, <2>1, <2>7, <3>2
      <3> QED
        BY <2>7, <3>1, <3>3
    <2>11. ASSUME NEW i \in 1 .. Len(w), NEW j \in 1 .. Len(w), i < j
           PROVE  w[i] # w[j] /\ e[w[i]].storedAt <= e[w[j]].storedAt
      <3>1. i + 1 \in 1 .. Len(q) /\ j + 1 \in 1 .. Len(q) /\ i + 1 < j + 1
        BY <1>0, <2>7, <2>11
      <3>2. /\ q[i + 1] # q[j + 1]
            /\ m.entries[q[i + 1]].storedAt <= m.entries[q[j + 1]].storedAt
        BY <2>8, <3>1
      <3>3. e[w[i]] = m.entries[w[i]] /\ e[w[j]] = m.entries[w[j]]
        BY <2>5, <2>9
      <3> QED
        BY <2>7, <3>2, <3>3
    <2>12. \A j \in DOMAIN e : e[j] \in Entries /\ e[j].storedAt <= t
      BY <2>5 DEF Shaped
    <2>13. Len(w) <= MaxEntries
      BY <1>0, <2>7
    <2>14. Kept(r, t) /\ From(r, m)
      <3>1. InStep(r)
        BY <2>6, <2>9, <2>10 DEF InStep
      <3>2. InOrder(r)
        BY <2>6, <2>11 DEF InOrder
      <3>3. Shaped(r, t)
        BY <2>4, <2>6, <2>12, <3>1, <3>2 DEF Shaped
      <3> QED
        BY <2>5, <2>6, <2>13, <3>3 DEF Kept, From
    <2> QED
      BY <2>3, <2>14
  <1> QED
    BY <1>1, <1>2

LEMMA AfterMissKept ==
    ASSUME Kept(memo, now), now \in Int, NEW k
    PROVE  Kept(AfterMiss(k), now) /\ From(AfterMiss(k), memo)
  BY ErasedKept DEF AfterMiss, From

LEMMA AfterPutKept ==
    ASSUME Kept(memo, now), now \in Int, NEW k \in Keys, NEW d \in Decisions
    PROVE  /\ Kept(AfterPut(k, d), now)
           /\ Drawn(AfterPut(k, d), memo, k, [decision |-> d, storedAt |-> now])
  <1> DEFINE e == [decision |-> d, storedAt |-> now]
             m == Erased(memo, k)
             a == Added(m, k, e)
             w == Evicted(a)
  <1>1. CASE ~Enabled
    BY <1>1 DEF AfterPut, Drawn
  <1>2. CASE Enabled
    <2>1. AfterPut(k, d) = w
      BY <1>2 DEF AfterPut
    <2>2. e \in Entries /\ e.storedAt = now
      BY DEF Entries
    <2>3. Kept(m, now) /\ k \notin DOMAIN m.entries /\ From(m, memo)
      BY ErasedKept
    <2>4. a = Added(m, k, e) /\ w = Evicted(a)
      OBVIOUS
    <2> HIDE DEF e, m, a, w
    <2>5. Shaped(a, now) /\ Drawn(a, m, k, e) /\ Len(a.order) = Len(m.order) + 1
      BY <2>2, <2>3, <2>4, AddedShaped DEF Kept
    <2>6. Len(a.order) <= MaxEntries + 1
      <3>1. Len(m.order) \in Nat /\ Len(m.order) <= MaxEntries /\ MaxEntries \in Nat
        BY <2>3, LenProperties, MemoAssumption DEF Kept, Shaped
      <3> QED
        BY <2>5, <3>1
    <2>7. Kept(w, now) /\ From(w, a)
      BY <2>4, <2>5, <2>6, EvictedKept
    <2>8. Drawn(w, memo, k, e)
      BY <2>3, <2>5, <2>7 DEF Drawn, From
    <2> QED
      BY <2>1, <2>7, <2>8 DEF e
  <1> QED
    BY <1>1, <1>2

\* get() answers with the one entry of the key, and that is not too old.
LEMMA HitYoung ==
    ASSUME Kept(memo, now), now \in Int, NEW k, Hit(k)
    PROVE  /\ Cached(k) \in Entries
           /\ now - Cached(k).storedAt < RequestedTtl /\ now - Cached(k).storedAt < MaxTtl
  <1>1. k \in DOMAIN memo.entries /\ Cached(k) = memo.entries[k]
    BY DEF Hit, Cached
  <1>2. Cached(k) \in Entries
    BY <1>1 DEF Kept, Shaped
  <1>3. Cached(k).storedAt \in Int
    BY <1>2 DEF Entries
  <1>4. ~(now - Cached(k).storedAt >= Ttl) /\ Ttl > 0
    BY <1>1 DEF Expired, Hit, Enabled
  <1>5. RequestedTtl \in Int /\ MaxTtl \in Nat
    BY MemoAssumption
  <1> QED
    BY <1>2, <1>3, <1>4, <1>5 DEF Ttl

-----------------------------------------------------------------------------
(* The locals of a check. *)

WithTenant(o, a) == [o EXCEPT !.seen.tenant = a]
WithWho(o, a) == [o EXCEPT !.seen.who = a]
Marked(s, a, b) == [s EXCEPT !.whoRaced = a, !.tenantRaced = b]

LEMMA SeenTenant ==
    ASSUME NEW o \in Ops, NEW a \in Acts, NEW w, w = WithTenant(o, a)
    PROVE  /\ w \in Ops /\ w.key = o.key /\ w.seen.tenant = a /\ w.seen.who = o.seen.who
           /\ w.whoRaced = o.whoRaced /\ w.tenantRaced = o.tenantRaced
  BY DEF WithTenant, WithWho, Ops, Decisions

LEMMA SeenWho ==
    ASSUME NEW o \in Ops, NEW a \in Whos, NEW w, w = WithWho(o, a)
    PROVE  /\ w \in Ops /\ w.key = o.key /\ w.seen.tenant = o.seen.tenant /\ w.seen.who = a
           /\ w.whoRaced = o.whoRaced /\ w.tenantRaced = o.tenantRaced
  BY DEF WithTenant, WithWho, Ops, Decisions

LEMMA OneMoreAttempt ==
    ASSUME NEW o \in Ops, NEW w,
           w = [o EXCEPT !.attempt = @ + 1] \/ w = [o EXCEPT !.refreshed = TRUE]
    PROVE  /\ w \in Ops /\ w.key = o.key /\ w.seen = o.seen
           /\ w.whoRaced = o.whoRaced /\ w.tenantRaced = o.tenantRaced
  <1>1. CASE w = [o EXCEPT !.refreshed = TRUE]
    BY <1>1 DEF Ops
  <1>2. CASE w = [o EXCEPT !.attempt = @ + 1]
    <2>1. PICK n : n = o.attempt + 1
      OBVIOUS
    <2>2. n \in Int
      BY <2>1 DEF Ops
    <2>3. w = [o EXCEPT !.attempt = n]
      BY <1>2, <2>1
    <2> QED
      BY <2>2, <2>3 DEF Ops
  <1> QED
    BY <1>1, <1>2

LEMMA WhoMarked ==
    ASSUME NEW o \in Ops, NEW w, w = [o EXCEPT !.whoRaced = TRUE]
    PROVE  /\ w \in Ops /\ w.key = o.key /\ w.seen = o.seen
           /\ w.whoRaced = TRUE /\ w.tenantRaced = o.tenantRaced
  BY DEF Ops

LEMMA TenantMarked ==
    ASSUME NEW o \in Ops, NEW w, w = [o EXCEPT !.tenantRaced = TRUE]
    PROVE  /\ w \in Ops /\ w.key = o.key /\ w.seen = o.seen
           /\ w.whoRaced = o.whoRaced /\ w.tenantRaced = TRUE
  BY DEF Ops

LEMMA TheDecision ==
    ASSUME NEW s \in Decisions, NEW a \in BOOLEAN, NEW b \in BOOLEAN,
           NEW d, d = Marked(s, a, b)
    PROVE  /\ d \in Decisions /\ d.who = s.who /\ d.tenant = s.tenant
           /\ d.whoRaced = a /\ d.tenantRaced = b
  BY DEF Decisions, Marked

LEMMA NothingSeen == Nothing \in Decisions
  BY DEF Nothing, Decisions, Whos, Acts

LEMMA NoOpType == NoOp \in Ops
  BY NothingSeen DEF NoOp, Ops, Keys

LEMMA FreshType ==
    ASSUME NEW q \in Questions, acting \in Acts
    PROVE  /\ Fresh(q) \in Ops /\ Fresh(q).key[2] = acting
           /\ change # "none" => Fresh(q).whoRaced = TRUE
  <1>1. <<q, acting>> \in Keys /\ <<q, acting>>[2] = acting
    BY DEF Keys
  <1>2. (change # "none") \in BOOLEAN
    OBVIOUS
  <1>3. Fresh(q) \in Ops
    BY <1>1, <1>2, NothingSeen DEF Fresh, Ops
  <1> QED
    BY <1>1, <1>3 DEF Fresh

-----------------------------------------------------------------------------
(* The steps. *)

LEMMA EmptyMemo ==
    ASSUME NEW t
    PROVE  Kept(Cleared, t) /\ DOMAIN Cleared.entries = {}
  <1>1. Cleared.entries = << >> /\ Cleared.order = << >>
    BY DEF Cleared
  <1>2. DOMAIN Cleared.entries = {} /\ Len(Cleared.order) = 0 /\ Cleared.order \in Seq(Keys)
    BY <1>1
  <1> QED
    BY <1>2, MemoAssumption DEF Kept, Shaped, InStep, InOrder

LEMMA InitIInv == Init => IInv
  <1> SUFFICES ASSUME Init PROVE IInv
    OBVIOUS
  <1>1. Kept(memo, now) /\ DOMAIN memo.entries = {}
    BY EmptyMemo DEF Init
  <1>3. Typed
    BY NoOpType DEF Init, Typed, Places, NoAnswer, Answers, Whos, Acts
  <1>4. Young
    BY DEF Init, Young, NoAnswer
  <1>5. \A c \in Checkers : Fits(pc[c], op[c])
    BY DEF Init, Fits
  <1> QED
    BY <1>1, <1>3, <1>4, <1>5 DEF IInv

LEMMA Facts ==
    ASSUME IInv, NEW c \in Checkers
    PROVE  /\ pc \in [Checkers -> Places] /\ op \in [Checkers -> Ops]
           /\ answer \in [Checkers -> Answers]
           /\ now \in Int /\ jar \in Whos /\ acting \in Acts /\ Kept(memo, now)
           /\ op[c] \in Ops /\ op[c].key \in Keys /\ op[c].seen \in Decisions
           /\ op[c].whoRaced \in BOOLEAN /\ op[c].tenantRaced \in BOOLEAN
           /\ Fits(pc[c], op[c])
  <1>1. op[c] \in Ops
    BY DEF IInv, Typed
  <1> QED
    BY <1>1 DEF IInv, Typed, Ops

\* One checker moves, and what it leaves in the memo fits.
LEMMA Checked ==
    ASSUME IInv, NEW c \in Checkers, NEW to \in Places, NEW o \in Ops,
           pc' = [pc EXCEPT ![c] = to], op' = [op EXCEPT ![c] = o],
           UNCHANGED <<now, jar, acting, change>>,
           Fits(to, o), Kept(memo', now),
           \A k \in DOMAIN memo'.entries :
               \/ Fitting(k, memo'.entries[k])
               \/ k \in DOMAIN memo.entries /\ memo'.entries[k] = memo.entries[k],
           answer' \in [Checkers -> Answers], Young'
    PROVE  IInv'
  <1>1. Typed'
    BY Facts DEF Typed
  <1>2. \A d \in Checkers : pc'[d] = (IF d = c THEN to ELSE pc[d])
                            /\ op'[d] = (IF d = c THEN o ELSE op[d])
    BY Facts
  <1>3. \A d \in Checkers : Fits(pc'[d], op'[d])
    BY <1>2 DEF IInv
  <1>4. \A d \in Checkers : Fits(pc[d], op[d])'
    BY <1>3 DEF Fits
  <1>5. \A k \in DOMAIN memo'.entries : Fitting(k, memo'.entries[k])
    BY DEF IInv
  <1>6. \A k \in DOMAIN memo'.entries : Fitting(k, memo.entries[k])'
    BY <1>5 DEF Fitting
  <1>7. Kept(memo, now)'
    OBVIOUS
  <1> QED
    BY <1>1, <1>4, <1>6, <1>7 DEF IInv

\* The memo as it is, and no answer from it.
LEMMA SameMemo ==
    ASSUME IInv, UNCHANGED <<memo, now, answer>>, NEW c \in Checkers
    PROVE  /\ Kept(memo', now) /\ From(memo', memo)
           /\ answer' \in [Checkers -> Answers] /\ Young'
  BY Facts DEF IInv, Young, From

LEMMA Emptied ==
    ASSUME memo' = Cleared
    PROVE  Kept(memo', now) /\ DOMAIN memo'.entries = {}
  BY EmptyMemo

\* A check ends with an answer that is young, or not from the memo.
LEMMA Answered ==
    ASSUME IInv, NEW c \in Checkers, NEW a \in Answers, answer' = [answer EXCEPT ![c] = a],
           a.from = "memo" => a.age < RequestedTtl /\ a.age < MaxTtl
    PROVE  answer' \in [Checkers -> Answers] /\ Young'
  BY Facts DEF IInv, Young

LEMMA NoAnswerType == NoAnswer \in Answers /\ NoAnswer.from # "memo"
  BY DEF NoAnswer, Answers

LEMMA AskKeeps ==
    ASSUME IInv, NEW c \in Checkers, NEW q \in Questions, Ask(c, q) PROVE IInv'
  <1>1. PICK to \in {"lookup", "build"} : pc' = [pc EXCEPT ![c] = to]
    BY DEF Ask, Goto
  <1>2. op' = [op EXCEPT ![c] = Fresh(q)] /\ UNCHANGED <<memo, now, jar, acting, change, answer>>
    BY DEF Ask, clientVars
  <1>3. Fresh(q) \in Ops /\ Fits(to, Fresh(q))
    BY Facts, FreshType DEF Fits
  <1>4. to \in Places
    BY DEF Places
  <1> QED
    BY <1>1, <1>2, <1>3, <1>4, SameMemo, Checked

\* LookupHit, Fail, RefreshFails: the check ends, and the memo stays.
LEMMA EndKeeps ==
    ASSUME IInv, NEW c \in Checkers, LookupHit(c) \/ Fail(c) \/ RefreshFails(c) PROVE IInv'
  <1>1. UNCHANGED <<memo, now, jar, acting, change>>
    BY DEF LookupHit, Fail, RefreshFails, clientVars
  <1>2. pc' = [pc EXCEPT ![c] = "idle"] /\ op' = [op EXCEPT ![c] = NoOp]
    BY DEF LookupHit, Fail, RefreshFails, Finish
  <1>3. answer' \in [Checkers -> Answers] /\ Young'
    <2>1. CASE LookupHit(c)
      <3> DEFINE k == op[c].key
                 a == [from |-> "memo", age |-> now - Cached(k).storedAt]
      <3>1. Hit(k) /\ answer' = [answer EXCEPT ![c] = a]
        BY <2>1 DEF LookupHit, Finish
      <3>2. /\ Cached(k) \in Entries
            /\ now - Cached(k).storedAt < RequestedTtl /\ now - Cached(k).storedAt < MaxTtl
        BY <3>1, Facts, HitYoung
      <3>3. Cached(k).storedAt \in Int
        BY <3>2 DEF Entries
      <3>4. a \in Answers /\ a.age = now - Cached(k).storedAt
        BY <3>3, Facts DEF Answers
      <3> QED
        BY <3>1, <3>2, <3>4, Answered
    <2>2. CASE Fail(c) \/ RefreshFails(c)
      BY <2>2, NoAnswerType, Answered DEF Fail, RefreshFails, Finish
    <2> QED
      BY <2>1, <2>2
  <1>4. "idle" \in Places /\ Fits("idle", NoOp)
    BY DEF Places, Fits
  <1>5. Kept(memo', now) /\ From(memo', memo)
    BY <1>1, Facts DEF From
  <1> QED
    BY <1>1, <1>2, <1>3, <1>4, <1>5, NoOpType, Checked

LEMMA MissKeeps == ASSUME IInv, NEW c \in Checkers, LookupMiss(c) PROVE IInv'
  <1>1. /\ pc' = [pc EXCEPT ![c] = "build"] /\ pc[c] = "lookup" /\ op' = op
        /\ UNCHANGED <<now, jar, acting, change, answer>> /\ memo' = AfterMiss(op[c].key)
    BY DEF LookupMiss, Goto, clientVars
  <1>2. op' = [op EXCEPT ![c] = op[c]] /\ op[c] \in Ops
    BY <1>1, Facts
  <1>3. Fits("build", op[c]) /\ "build" \in Places
    BY <1>1, Facts DEF Fits, Places
  <1>4. Kept(memo', now) /\ From(memo', memo)
    BY <1>1, Facts, AfterMissKept
  <1>5. answer' \in [Checkers -> Answers] /\ Young'
    BY <1>1, Facts DEF IInv, Young
  <1> QED
    BY <1>1, <1>2, <1>3, <1>4, <1>5, Checked DEF From

LEMMA SendKeeps ==
    ASSUME IInv, NEW c \in Checkers, BuildRequest(c) \/ Send(c) PROVE IInv'
  <1>0. op[c] \in Ops /\ acting \in Acts /\ jar \in Whos /\ Fits(pc[c], op[c])
    BY Facts
  <1>1. CASE BuildRequest(c)
    <2> DEFINE o == [op[c] EXCEPT !.seen.tenant = acting]
    <2>1. /\ pc[c] = "build" /\ pc' = [pc EXCEPT ![c] = "send"]
          /\ UNCHANGED <<memo, now, jar, acting, change, answer>>
      BY <1>1 DEF BuildRequest, Goto, clientVars
    <2>2. op' = [op EXCEPT ![c] = o]
      BY <1>1 DEF BuildRequest
    <2>3. /\ o \in Ops /\ o.key = op[c].key /\ o.seen.tenant = acting
          /\ o.whoRaced = op[c].whoRaced /\ o.tenantRaced = op[c].tenantRaced
      <3>1. o = WithTenant(op[c], acting)
        BY DEF WithTenant
      <3> HIDE DEF o
      <3> QED
        BY <1>0, <3>1, SeenTenant
    <2> HIDE DEF o
    <2>4. Fits("send", o) /\ "send" \in Places
      BY <1>0, <2>1, <2>3 DEF Fits, Places
    <2> QED
      BY <2>1, <2>2, <2>3, <2>4, SameMemo, Checked
  <1>2. CASE Send(c)
    <2> DEFINE o == [op[c] EXCEPT !.seen.who = jar]
    <2>1. /\ pc[c] = "send" /\ pc' = [pc EXCEPT ![c] = "wire"]
          /\ UNCHANGED <<memo, now, jar, acting, change, answer>>
      BY <1>2 DEF Send, Goto, clientVars
    <2>2. op' = [op EXCEPT ![c] = o]
      BY <1>2 DEF Send
    <2>3. /\ o \in Ops /\ o.key = op[c].key /\ o.seen.who = jar
          /\ o.seen.tenant = op[c].seen.tenant
          /\ o.whoRaced = op[c].whoRaced /\ o.tenantRaced = op[c].tenantRaced
      <3>1. o = WithWho(op[c], jar)
        BY DEF WithWho
      <3> HIDE DEF o
      <3> QED
        BY <1>0, <3>1, SeenWho
    <2> HIDE DEF o
    <2>4. Fits("wire", o) /\ "wire" \in Places
      BY <1>0, <2>1, <2>3 DEF Fits, Places
    <2> QED
      BY <2>1, <2>2, <2>3, <2>4, SameMemo, Checked
  <1> QED
    BY <1>1, <1>2

LEMMA DecidedKeeps == ASSUME IInv, NEW c \in Checkers, Decided(c) PROVE IInv'
  <1> DEFINE k == op[c].key
             d == [op[c].seen EXCEPT !.whoRaced = op[c].whoRaced, !.tenantRaced = op[c].tenantRaced]
             e == [decision |-> d, storedAt |-> now]
  <1>1. /\ pc[c] = "wire" /\ pc' = [pc EXCEPT ![c] = "idle"] /\ op' = [op EXCEPT ![c] = NoOp]
        /\ answer' = [answer EXCEPT ![c] = NoAnswer] /\ UNCHANGED <<now, jar, acting, change>>
        /\ memo' = AfterPut(k, d)
    BY DEF Decided, Finish, clientVars
  <1>2. /\ d \in Decisions /\ d.who = op[c].seen.who /\ d.tenant = op[c].seen.tenant
        /\ d.whoRaced = op[c].whoRaced /\ d.tenantRaced = op[c].tenantRaced
    <2>1. /\ op[c].seen \in Decisions /\ op[c].whoRaced \in BOOLEAN
          /\ op[c].tenantRaced \in BOOLEAN
      BY Facts
    <2>2. d = Marked(op[c].seen, op[c].whoRaced, op[c].tenantRaced)
      BY DEF Marked
    <2> HIDE DEF d
    <2> QED
      BY <2>1, <2>2, TheDecision
  <1> HIDE DEF d
  <1>3. e.decision = d /\ k = op[c].key
    OBVIOUS
  <1>4. Fitting(k, e)
    BY <1>1, <1>2, <1>3, Facts DEF Fitting, Fits
  <1>5. /\ Kept(memo', now)
        /\ Drawn(memo', memo, k, e)
    <2>1. k \in Keys /\ now \in Int /\ Kept(memo, now)
      BY Facts
    <2> QED
      BY <1>1, <1>2, <2>1, AfterPutKept
  <1> HIDE DEF e, k
  <1>6. \A j \in DOMAIN memo'.entries :
            \/ Fitting(j, memo'.entries[j])
            \/ j \in DOMAIN memo.entries /\ memo'.entries[j] = memo.entries[j]
    BY <1>4, <1>5 DEF Drawn
  <1>7. "idle" \in Places /\ Fits("idle", NoOp)
    BY DEF Places, Fits
  <1>8. answer' \in [Checkers -> Answers] /\ Young'
    BY <1>1, NoAnswerType, Answered
  <1> QED
    BY <1>1, <1>5, <1>6, <1>7, <1>8, NoOpType, Checked

LEMMA AgainKeeps ==
    ASSUME IInv, NEW c \in Checkers, Retry(c) \/ Unauthorized(c) \/ Refreshed(c) PROVE IInv'
  <1>0. op[c] \in Ops /\ Fits(pc[c], op[c])
    BY Facts
  <1> DEFINE o == op'[c]
             to == pc'[c]
  <1>1. /\ pc[c] \in {"wire", "refresh"} /\ pc' = [pc EXCEPT ![c] = to]
        /\ to \in {"build", "refresh"}
    BY Facts DEF Retry, Unauthorized, Refreshed, Goto
  <1>2. op' = [op EXCEPT ![c] = o] /\ o \in {op[c], [op[c] EXCEPT !.attempt = @ + 1],
                                            [op[c] EXCEPT !.refreshed = TRUE]}
    <2>1. CASE Unauthorized(c)
      BY <2>1, Facts DEF Unauthorized
    <2>2. CASE Retry(c)
      BY <2>2, Facts DEF Retry
    <2>3. CASE Refreshed(c)
      BY <2>3, Facts DEF Refreshed
    <2> QED
      BY <2>1, <2>2, <2>3
  <1>3. /\ o \in Ops /\ o.key = op[c].key /\ o.seen = op[c].seen
        /\ o.whoRaced = op[c].whoRaced /\ o.tenantRaced = op[c].tenantRaced
    BY <1>0, <1>2, OneMoreAttempt
  <1>4. UNCHANGED <<now, jar, acting, change, answer>> /\ memo' \in {memo, Cleared}
    BY DEF Retry, Unauthorized, Refreshed, clientVars
  <1> HIDE DEF o, to
  <1>5. Fits(to, o) /\ to \in Places
    BY <1>0, <1>1, <1>3 DEF Fits, Places
  <1>6. Kept(memo', now) /\ From(memo', memo)
    BY <1>4, Facts, Emptied DEF From
  <1>7. answer' \in [Checkers -> Answers] /\ Young'
    BY <1>4, Facts DEF IInv, Young
  <1> QED
    BY <1>1, <1>2, <1>3, <1>4, <1>5, <1>6, <1>7, Checked DEF From

-----------------------------------------------------------------------------
(* The thread that changes credentials. *)

\* What every one of its steps leaves alone, and what it must see to.
LEMMA ChangedBy ==
    ASSUME IInv, UNCHANGED <<pc, now, answer>>, op' \in [Checkers -> Ops],
           jar' \in Whos, acting' \in Acts,
           memo' = memo \/ memo' = Cleared,
           \A c \in Checkers : Fits(pc[c], op[c])',
           \A k \in DOMAIN memo.entries : memo' = memo => Fitting(k, memo.entries[k])'
    PROVE  IInv'
  <1>1. Typed' /\ Young'
    BY DEF IInv, Typed, Young
  <1>2. Kept(memo, now)'
    BY Emptied DEF IInv
  <1>3. \A k \in DOMAIN memo'.entries : Fitting(k, memo.entries[k])'
    BY Emptied
  <1> QED
    BY <1>1, <1>2, <1>3 DEF IInv

LEMMA BeginKeeps == ASSUME IInv, LoginBegin \/ LogoutBegin PROVE IInv'
  <1>1. /\ op' = MarkWho /\ memo' = Cleared
        /\ UNCHANGED <<pc, now, jar, acting, answer>>
    BY DEF LoginBegin, LogoutBegin, Begin
  <1>2. ASSUME NEW c \in Checkers PROVE op'[c] \in Ops /\ Fits(pc[c], op[c])'
    <2>1. op[c] \in Ops /\ Fits(pc[c], op[c])
      BY Facts
    <2>2. op'[c] = IF Active(c) THEN [op[c] EXCEPT !.whoRaced = TRUE] ELSE op[c]
      BY <1>1 DEF MarkWho
    <2>3. CASE Active(c)
      <3>1. /\ op'[c] \in Ops /\ op'[c].key = op[c].key /\ op'[c].seen = op[c].seen
            /\ op'[c].whoRaced = TRUE /\ op'[c].tenantRaced = op[c].tenantRaced
        BY <2>1, <2>2, <2>3, WhoMarked
      <3> QED
        BY <1>1, <2>1, <3>1 DEF Fits
    <2>4. CASE ~Active(c)
      BY <1>1, <2>1, <2>2, <2>4 DEF Fits, Active
    <2> QED
      BY <2>3, <2>4
  <1>3. op' \in [Checkers -> Ops]
    BY <1>1, <1>2 DEF MarkWho
  <1>4. memo' = memo => DOMAIN memo.entries = {}
    BY <1>1, Emptied
  <1>5. jar' \in Whos /\ acting' \in Acts
    BY <1>1 DEF IInv, Typed
  <1>6. \A k \in DOMAIN memo.entries : memo' = memo => Fitting(k, memo.entries[k])'
    BY <1>4
  <1> QED
    BY <1>1, <1>2, <1>3, <1>5, <1>6, ChangedBy

LEMMA AnswerKeeps == ASSUME IInv, LoginAnswered \/ LogoutAnswered PROVE IInv'
  <1>1. change # "none" /\ UNCHANGED <<pc, op, memo, now, acting, answer>>
    BY DEF LoginAnswered, LogoutAnswered
  <1>2. jar' \in Whos /\ acting' \in Acts /\ op' \in [Checkers -> Ops]
    BY <1>1 DEF LoginAnswered, LogoutAnswered, IInv, Typed, Whos
  <1>3. \A c \in Checkers : Fits(pc[c], op[c])'
    BY <1>1 DEF IInv, Fits
  <1>4. \A k \in DOMAIN memo.entries : Fitting(k, memo.entries[k])'
    BY <1>1 DEF IInv, Fitting
  <1> QED
    BY <1>1, <1>2, <1>3, <1>4, ChangedBy

LEMMA EndOfChangeKeeps == ASSUME IInv, LoginFails \/ LoginInstall \/ LogoutClear PROVE IInv'
  <1>1. change' = "none" /\ UNCHANGED <<pc, op, memo, now, jar, acting, answer>>
    BY DEF LoginFails, LoginInstall, LogoutClear
  <1>2. jar' \in Whos /\ acting' \in Acts /\ op' \in [Checkers -> Ops]
    BY <1>1 DEF IInv, Typed
  <1>3. \A c \in Checkers : Fits(pc[c], op[c])'
    BY <1>1 DEF IInv, Fits
  <1>4. \A k \in DOMAIN memo.entries : Fitting(k, memo.entries[k])'
    BY <1>1 DEF IInv, Fitting
  <1> QED
    BY <1>1, <1>2, <1>3, <1>4, ChangedBy

LEMMA SetActingKeeps == ASSUME IInv, SetActing PROVE IInv'
  <1>1. op' = MarkTenant /\ UNCHANGED <<pc, memo, now, jar, change, answer>> /\ acting' \in Acts
    BY DEF SetActing, Acts
  <1>2. ASSUME NEW c \in Checkers PROVE op'[c] \in Ops /\ Fits(pc[c], op[c])'
    <2>1. op[c] \in Ops /\ Fits(pc[c], op[c])
      BY Facts
    <2>2. op'[c] = IF Active(c) THEN [op[c] EXCEPT !.tenantRaced = TRUE] ELSE op[c]
      BY <1>1 DEF MarkTenant
    <2>3. CASE Active(c)
      <3>1. /\ op'[c] \in Ops /\ op'[c].key = op[c].key /\ op'[c].seen = op[c].seen
            /\ op'[c].whoRaced = op[c].whoRaced /\ op'[c].tenantRaced = TRUE
        BY <2>1, <2>2, <2>3, TenantMarked
      <3> QED
        BY <1>1, <2>1, <3>1 DEF Fits
    <2>4. CASE ~Active(c)
      BY <1>1, <2>1, <2>2, <2>4 DEF Fits, Active
    <2> QED
      BY <2>3, <2>4
  <1>3. op' \in [Checkers -> Ops]
    BY <1>1, <1>2 DEF MarkTenant
  <1>4. \A k \in DOMAIN memo.entries : Fitting(k, memo.entries[k])'
    BY <1>1 DEF IInv, Fitting
  <1>5. jar' \in Whos
    BY <1>1 DEF IInv, Typed
  <1> QED
    BY <1>1, <1>2, <1>3, <1>4, <1>5, ChangedBy

LEMMA TickKeeps == ASSUME IInv, Tick PROVE IInv'
  <1>1. now' = now + 1 /\ UNCHANGED <<pc, op, memo, jar, acting, change, answer>>
    BY DEF Tick, clientVars
  <1>2. now \in Int
    BY DEF IInv, Typed
  <1>3. Kept(memo, now)'
    <2>1. \A k \in DOMAIN memo.entries : memo.entries[k].storedAt \in Int
      BY DEF IInv, Kept, Shaped, Entries
    <2> QED
      BY <1>1, <1>2, <2>1 DEF IInv, Kept, Shaped, InStep, InOrder
  <1>4. Typed' /\ Young'
    BY <1>1, <1>2 DEF IInv, Typed, Young
  <1>5. /\ \A c \in Checkers : Fits(pc[c], op[c])'
        /\ \A k \in DOMAIN memo'.entries : Fitting(k, memo.entries[k])'
    BY <1>1 DEF IInv, Fits, Fitting
  <1> QED
    BY <1>3, <1>4, <1>5 DEF IInv

LEMMA StutterKeeps == ASSUME IInv, UNCHANGED vars PROVE IInv'
  <1>1. UNCHANGED <<pc, op, memo, now, jar, acting, change, answer>>
    BY DEF vars, clientVars
  <1>2. Typed' /\ Young' /\ Kept(memo, now)'
    BY <1>1 DEF IInv, Typed, Young
  <1>3. /\ \A c \in Checkers : Fits(pc[c], op[c])'
        /\ \A k \in DOMAIN memo'.entries : Fitting(k, memo.entries[k])'
    BY <1>1 DEF IInv, Fits, Fitting
  <1> QED
    BY <1>2, <1>3 DEF IInv

LEMMA NextKeeps == IInv /\ [Next]_vars => IInv'
  <1> SUFFICES ASSUME IInv, [Next]_vars PROVE IInv'
    OBVIOUS
  <1>1. CASE Done \/ UNCHANGED vars
    BY <1>1, StutterKeeps DEF Done
  <1>2. CASE Tick
    BY <1>2, TickKeeps
  <1>3. CASE Changer
    BY <1>3, BeginKeeps, AnswerKeeps, EndOfChangeKeeps, SetActingKeeps DEF Changer
  <1>4. ASSUME NEW c \in Checkers, Step(c) PROVE IInv'
    BY <1>4, EndKeeps, MissKeeps, SendKeeps, DecidedKeeps, AgainKeeps DEF Step
  <1>5. ASSUME NEW c \in Checkers, NEW q \in Questions, Ask(c, q) PROVE IInv'
    BY <1>5, AskKeeps
  <1> QED
    BY <1>1, <1>2, <1>3, <1>4, <1>5 DEF Next

LEMMA Invariance == Spec => []IInv
  BY InitIInv, NextKeeps, PTL DEF Spec

\* The memo's map and its eviction queue stay in step, within the cap and in the
\* order of the ages; get()
\* answers nothing as old as what was configured, or as the ceiling, however an
\* expired entry, a login and a put() of the same key are ordered.
THEOREM MemoStaysSound == Spec => []MemoIsSound
  <1>1. IInv => MemoIsSound
    <2> SUFFICES ASSUME IInv PROVE MemoIsSound
      OBVIOUS
    <2>1. DOMAIN memo.order = 1 .. Len(memo.order) /\ Kept(memo, now)
      BY LenProperties DEF IInv, Kept, Shaped
    <2>2. {memo.order[i] : i \in DOMAIN memo.order} = DOMAIN memo.entries
      BY <2>1 DEF Kept, Shaped, InStep
    <2>3. MemoWellFormed
      BY <2>1, <2>2 DEF Kept, Shaped, InOrder, MemoWellFormed
    <2> QED
      BY <2>3 DEF IInv, Young, MemoIsSound
  <1> QED
    BY <1>1, Invariance, PTL

\* A decision of another principal, or filed under another tenant than it was
\* taken for, was under way while the credentials or the acting tenant changed.
THEOREM OnlyRacesMisfile == Spec => []WrongDecisionsRaced
  <1>1. IInv => WrongDecisionsRaced
    <2> SUFFICES ASSUME IInv PROVE WrongDecisionsRaced
      OBVIOUS
    <2> QED
      BY DEF IInv, Fitting, WrongDecisionsRaced
  <1> QED
    BY <1>1, Invariance, PTL
=============================================================================
