-------------------------- MODULE HandlePoolProofs --------------------------
(***************************************************************************)
(* Proofs about the transport's handle pools, for any set of threads, any  *)
(* mix of requests and any cap: handles are neither lost nor shared,       *)
(* sessionless requests stay apart from the jar, a write goes out once,    *)
(* and the cookie lock covers the walk of a list that points into the jar. *)
(*                                                                         *)
(* IInv adds what the four rest on: on which pool a request is at each     *)
(* place (Routed), how often it was on the wire by then (Counted), and     *)
(* that the lock is held from PREREQ to the header (WindowLocked).         *)
(***************************************************************************)
EXTENDS HandlePool, FiniteSetTheorems, TLAPS

Calls == [req : RequestType, pool : Pools, handle : Nat, merging : BOOLEAN,
          reused : BOOLEAN, sent : Nat, carried : BOOLEAN, got : BOOLEAN]

Sending == {"prereq", "getlist", "walk", "wire"}
Places == Holding \cup {"out", "acquire", "parked", "notify"}

PoolTypeOK ==
    /\ idle \in [Pools -> SUBSET Nat] /\ all \in [Pools -> Nat]
    /\ kept \in [Pools -> SUBSET Nat] /\ waiting \in [Pools -> SUBSET Workers]
    /\ pc \in [Workers -> Places] /\ call \in [Workers -> Calls]

\* A thread the condition variable of a pool may wake is parked there.
WaitersParked ==
    \A p \in Pools : \A u \in waiting[p] : pc[u] = "parked" /\ PoolOf(u) = p

\* A request goes out on the pool its route names, and its merge on the jar's;
\* only on the jar's pool does one carry cookies, and no sessionless one merges.
Routed(t) ==
    /\ call[t].pool = IF call[t].merging THEN "jar" ELSE Route(call[t].req)
    /\ call[t].merging => ~Sessionless(call[t].req)
    /\ pc[t] \in Sending => ~call[t].merging
    /\ call[t].carried => Route(call[t].req) = "jar"

\* How often the request has been on the wire, at each place: a second time only
\* after a connection that was reused had died, and not on the handle's old one.
Counted(t) ==
    /\ call[t].reused => ~NeverResent(call[t].req)
    /\ pc[t] \in {"out", "acquire", "parked"} /\ ~call[t].merging => call[t].sent = 0
    /\ pc[t] = "prereq" =>
          \/ call[t].sent = 0
          \/ call[t].sent = 1 /\ ~NeverResent(call[t].req) /\ Handle(t) \notin kept[PoolOf(t)]
    /\ pc[t] \in {"getlist", "walk"} =>
          \/ call[t].sent = 0
          \/ call[t].sent = 1 /\ ~NeverResent(call[t].req) /\ ~call[t].reused
    /\ pc[t] = "wire" =>
          \/ call[t].sent = 1
          \/ call[t].sent = 2 /\ ~NeverResent(call[t].req) /\ ~call[t].reused
    /\ call[t].sent <= (IF NeverResent(call[t].req) THEN 1 ELSE 2)

\* On a libcurl with the race, the cookie lock is held across the window.
WindowLocked ==
    CookieListRace => \A t \in Workers : pc[t] \in {"getlist", "walk"} => owner = t

IInv ==
    /\ PoolTypeOK /\ WaitersParked /\ HandlesConserved /\ WindowLocked
    /\ \A t \in Workers : Routed(t) /\ Counted(t)

-----------------------------------------------------------------------------
(* One field of a call's locals changes, the others stay. *)

LEMMA WithHandle ==
    ASSUME NEW c \in Calls, NEW n \in Nat,
           NEW w, w = [c EXCEPT !.handle = n]
    PROVE  /\ w \in Calls
           /\ w.req = c.req /\ w.pool = c.pool /\ w.handle = n /\ w.merging = c.merging
           /\ w.reused = c.reused /\ w.sent = c.sent /\ w.carried = c.carried /\ w.got = c.got
  BY DEF Calls, Pools

LEMMA WithReused ==
    ASSUME NEW c \in Calls, NEW b \in BOOLEAN,
           NEW w, w = [c EXCEPT !.reused = b]
    PROVE  /\ w \in Calls
           /\ w.req = c.req /\ w.pool = c.pool /\ w.handle = c.handle /\ w.merging = c.merging
           /\ w.reused = b /\ w.sent = c.sent /\ w.carried = c.carried /\ w.got = c.got
  BY DEF Calls, Pools

LEMMA WithSent ==
    ASSUME NEW c \in Calls, NEW n \in Nat,
           NEW w, w = [c EXCEPT !.sent = n]
    PROVE  /\ w \in Calls
           /\ w.req = c.req /\ w.pool = c.pool /\ w.handle = c.handle /\ w.merging = c.merging
           /\ w.reused = c.reused /\ w.sent = n /\ w.carried = c.carried /\ w.got = c.got
  BY DEF Calls, Pools

LEMMA WithCarried ==
    ASSUME NEW c \in Calls, NEW b \in BOOLEAN,
           NEW w, w = [c EXCEPT !.carried = b]
    PROVE  /\ w \in Calls
           /\ w.req = c.req /\ w.pool = c.pool /\ w.handle = c.handle /\ w.merging = c.merging
           /\ w.reused = c.reused /\ w.sent = c.sent /\ w.carried = b /\ w.got = c.got
  BY DEF Calls, Pools

LEMMA WithGot ==
    ASSUME NEW c \in Calls, NEW b \in BOOLEAN,
           NEW w, w = [c EXCEPT !.got = b]
    PROVE  /\ w \in Calls
           /\ w.req = c.req /\ w.pool = c.pool /\ w.handle = c.handle /\ w.merging = c.merging
           /\ w.reused = c.reused /\ w.sent = c.sent /\ w.carried = c.carried /\ w.got = b
  BY DEF Calls, Pools

LEMMA WithMerging ==
    ASSUME NEW c \in Calls,
           NEW w, w = [c EXCEPT !.merging = TRUE, !.pool = "jar"]
    PROVE  /\ w \in Calls
           /\ w.req = c.req /\ w.pool = "jar" /\ w.handle = c.handle /\ w.merging = TRUE
           /\ w.reused = c.reused /\ w.sent = c.sent /\ w.carried = c.carried /\ w.got = c.got
  BY DEF Calls, Pools

LEMMA NoCallType ==
    /\ NoCall \in Calls /\ NoCall.req = NoRequest /\ NoCall.pool = "jar" /\ NoCall.handle = 0
    /\ NoCall.merging = FALSE /\ NoCall.reused = FALSE /\ NoCall.sent = 0
    /\ NoCall.carried = FALSE /\ NoCall.got = FALSE
    /\ NoRequest \in RequestType /\ Route(NoRequest) = "jar"
  BY DEF NoCall, NoRequest, NoHandle, Calls, RequestType, Pools, Route

\* The request a thread begins with.
LEMMA FirstCall ==
    ASSUME NEW r \in RequestType, NEW w, w = [NoCall EXCEPT !.req = r, !.pool = Route(r)]
    PROVE  /\ w \in Calls /\ w.req = r /\ w.pool = Route(r) /\ w.merging = FALSE
           /\ w.reused = FALSE /\ w.sent = 0 /\ w.carried = FALSE
  BY DEF NoCall, NoHandle, Calls, Pools, Route

-----------------------------------------------------------------------------
\* The invariant holds of a transport nobody has used.
LEMMA InitIInv == Init => IInv
  <1> SUFFICES ASSUME Init PROVE IInv
    OBVIOUS
  <1>1. call \in [Workers -> Calls] /\ \A t \in Workers : call[t] = NoCall
    BY NoCallType DEF Init
  <1>2. pc \in [Workers -> Places] /\ \A t \in Workers : pc[t] = "out"
    BY DEF Init, Places
  <1>3. PoolTypeOK
    BY <1>1, <1>2 DEF Init, PoolTypeOK
  <1>4. WaitersParked
    BY DEF Init, WaitersParked
  <1>5. HandlesConserved
    <2>1. \A p \in Pools : Borrowers(p) = {} /\ idle[p] = {} /\ all[p] = 0
      BY <1>2 DEF Init, Borrowers, Holding
    <2>2. QED
      BY <2>1 DEF HandlesConserved
  <1>6. WindowLocked
    BY <1>2 DEF WindowLocked
  <1>7. \A t \in Workers : Routed(t) /\ Counted(t)
    BY <1>1, <1>2, NoCallType DEF Routed, Counted, Sending
  <1>8. QED
    BY <1>3, <1>4, <1>5, <1>6, <1>7 DEF IInv

-----------------------------------------------------------------------------
(* What a step of one thread leaves to the others. *)

StepOf(t) ==
    /\ pc' \in [Workers -> Places] /\ call' \in [Workers -> Calls]
    /\ \A u \in Workers \ {t} :
          /\ call'[u] = call[u]
          /\ pc'[u] = pc[u] \/ (pc[u] = "parked" /\ pc'[u] = "acquire")

Holds(t) == pc[t] \in Holding

LEMMA Facts ==
    ASSUME IInv
    PROVE  /\ idle \in [Pools -> SUBSET Nat] /\ all \in [Pools -> Nat]
           /\ kept \in [Pools -> SUBSET Nat] /\ waiting \in [Pools -> SUBSET Workers]
           /\ pc \in [Workers -> Places] /\ call \in [Workers -> Calls]
           /\ \A t \in Workers :
                 /\ call[t] \in Calls /\ PoolOf(t) \in Pools /\ Handle(t) \in Nat
                 /\ call[t].sent \in Nat /\ call[t].req \in RequestType
  <1>1. call \in [Workers -> Calls]
    BY DEF IInv, PoolTypeOK
  <1>2. \A t \in Workers : call[t] \in Calls
    BY <1>1
  <1>3. QED
    BY <1>1, <1>2 DEF IInv, PoolTypeOK, Calls, PoolOf, Handle

\* Two threads borrow from one pool: not the same handle, and neither is idle.
LEMMA Apart ==
    ASSUME IInv, NEW t \in Workers, Holds(t)
    PROVE  /\ Handle(t) \notin idle[PoolOf(t)] /\ Handle(t) \in 1 .. all[PoolOf(t)]
           /\ \A u \in Workers \ {t} :
                 Holds(u) /\ PoolOf(u) = PoolOf(t) => Handle(u) # Handle(t)
  BY Facts DEF IInv, HandlesConserved, Borrowers, Holds

LEMMA OthersKept ==
    ASSUME IInv, NEW t \in Workers, StepOf(t),
           \A p \in Pools : \A h \in kept'[p] :
               h \in kept[p] \/ (Holds(t) /\ p = PoolOf(t) /\ h = Handle(t))
    PROVE  \A u \in Workers \ {t} : Routed(u)' /\ Counted(u)'
  <1> SUFFICES ASSUME NEW u \in Workers \ {t} PROVE Routed(u)' /\ Counted(u)'
    OBVIOUS
  <1>1. /\ call'[u] = call[u] /\ Routed(u) /\ Counted(u)
        /\ pc'[u] = pc[u] \/ (pc[u] = "parked" /\ pc'[u] = "acquire")
    BY DEF StepOf, IInv
  <1>2. Routed(u)'
    BY <1>1 DEF Routed, Sending
  <1>3. PoolOf(u)' = PoolOf(u) /\ Handle(u)' = Handle(u) /\ PoolOf(u) \in Pools
    BY <1>1, Facts DEF PoolOf, Handle
  <1>4. pc[u] = "prereq" /\ Handle(u) \notin kept[PoolOf(u)] => Handle(u) \notin kept'[PoolOf(u)]
    <2>1. pc[u] = "prereq" => Holds(u)
      BY DEF Holds, Holding
    <2>2. QED
      BY <1>3, <2>1, Apart
  <1>5. Counted(u)'
    BY <1>1, <1>3, <1>4 DEF Counted
  <1>6. QED
    BY <1>2, <1>5

LEMMA OthersParked ==
    ASSUME IInv, NEW t \in Workers, StepOf(t),
           \A p \in Pools : \A u \in waiting'[p] :
               \/ u = t /\ pc'[t] = "parked" /\ PoolOf(t)' = p
               \/ u # t /\ u \in waiting[p] /\ pc'[u] = pc[u]
    PROVE  WaitersParked'
  BY Facts DEF IInv, WaitersParked, StepOf, PoolOf

\* The handles, when t neither takes one nor gives one back.
LEMMA HandlesStay ==
    ASSUME IInv, NEW t \in Workers, StepOf(t), idle' = idle, all' = all,
           Holds(t)' <=> Holds(t),
           Holds(t) => Handle(t)' = Handle(t) /\ PoolOf(t)' = PoolOf(t)
    PROVE  HandlesConserved'
  <1>1. \A u \in Workers : /\ Holds(u)' <=> Holds(u)
                           /\ Holds(u) => Handle(u)' = Handle(u) /\ PoolOf(u)' = PoolOf(u)
    BY DEF StepOf, Holds, Holding, Handle, PoolOf
  <1>2. \A p \in Pools : Borrowers(p)' = Borrowers(p)
    BY <1>1 DEF Borrowers, Holds
  <1>3. \A p \in Pools : \A u \in Borrowers(p) : Handle(u)' = Handle(u)
    BY <1>1 DEF Borrowers, Holds
  <1>4. \A p \in Pools : {Handle(u) : u \in Borrowers(p)}' = {Handle(u) : u \in Borrowers(p)}
    BY <1>2, <1>3
  <1>5. QED
    BY <1>2, <1>3, <1>4 DEF HandlesConserved, IInv

\* t takes a handle of its pool, an idle one or a new one.
LEMMA HandleTaken ==
    ASSUME IInv, NEW t \in Workers, StepOf(t), ~Holds(t), Holds(t)',
           NEW p \in Pools, NEW h \in Nat, PoolOf(t)' = p, Handle(t)' = h,
           \A q \in Pools \ {p} : idle'[q] = idle[q] /\ all'[q] = all[q],
           idle'[p] = idle[p] \ {h},
           \/ h \in idle[p] /\ all'[p] = all[p]
           \/ h = all[p] + 1 /\ all'[p] = all[p] + 1
    PROVE  HandlesConserved'
  <1>1. \A u \in Workers \ {t} : /\ Holds(u)' <=> Holds(u)
                                 /\ Handle(u)' = Handle(u) /\ PoolOf(u)' = PoolOf(u)
    BY DEF StepOf, Holds, Holding, Handle, PoolOf
  <1>2. \A q \in Pools \ {p} : Borrowers(q)' = Borrowers(q)
    BY <1>1 DEF Borrowers, Holds
  <1>3. Borrowers(p)' = Borrowers(p) \cup {t} /\ t \notin Borrowers(p)
    BY <1>1 DEF Borrowers, Holds
  <1>4. \A q \in Pools : \A u \in Borrowers(q) : u # t /\ Handle(u)' = Handle(u)
    BY <1>1 DEF Borrowers, Holds
  <1>5. \A q \in Pools \ {p} :
          /\ \A u, v \in Borrowers(q)' : u # v => Handle(u)' # Handle(v)'
          /\ \A u \in Borrowers(q)' : Handle(u)' \notin idle'[q]
          /\ 1..all'[q] = idle'[q] \cup {Handle(u)' : u \in Borrowers(q)'}
    <2> SUFFICES ASSUME NEW q \in Pools \ {p}
                 PROVE  /\ \A u, v \in Borrowers(q)' : u # v => Handle(u)' # Handle(v)'
                        /\ \A u \in Borrowers(q)' : Handle(u)' \notin idle'[q]
                        /\ 1..all'[q] = idle'[q] \cup {Handle(u)' : u \in Borrowers(q)'}
      OBVIOUS
    <2>1. {Handle(u)' : u \in Borrowers(q)'} = {Handle(u) : u \in Borrowers(q)}
      BY <1>2, <1>4
    <2>2. QED
      BY <1>2, <1>4, <2>1 DEF IInv, HandlesConserved
  <1>6. {Handle(u)' : u \in Borrowers(p)'} = {Handle(u) : u \in Borrowers(p)} \cup {h}
    BY <1>3, <1>4
  <1>7. 1..all[p] = idle[p] \cup {Handle(u) : u \in Borrowers(p)} /\ all[p] \in Nat
    BY Facts DEF IInv, HandlesConserved
  <1>8. \A u \in Borrowers(p) : Handle(u) # h
    BY <1>7 DEF IInv, HandlesConserved
  <1>9. 1..all'[p] = idle'[p] \cup {Handle(u)' : u \in Borrowers(p)'}
    <2>1. CASE h \in idle[p] /\ all'[p] = all[p]
      BY <1>6, <1>7, <2>1
    <2>2. CASE h = all[p] + 1 /\ all'[p] = all[p] + 1
      <3>1. 1..all'[p] = 1..all[p] \cup {h} /\ h \notin 1..all[p]
        BY <1>7, <2>2
      <3>2. QED
        BY <1>6, <1>7, <3>1
    <2>3. QED
      BY <2>1, <2>2
  <1>10. /\ \A u, v \in Borrowers(p)' : u # v => Handle(u)' # Handle(v)'
         /\ \A u \in Borrowers(p)' : Handle(u)' \notin idle'[p]
    BY <1>3, <1>4, <1>8 DEF IInv, HandlesConserved
  <1>11. QED
    BY <1>5, <1>9, <1>10 DEF HandlesConserved

\* t gives its handle back.
LEMMA HandleReturned ==
    ASSUME IInv, NEW t \in Workers, StepOf(t), Holds(t), ~Holds(t)', all' = all,
           idle' = [idle EXCEPT ![PoolOf(t)] = @ \cup {Handle(t)}]
    PROVE  HandlesConserved'
  <1> DEFINE p == PoolOf(t)
  <1>0. p \in Pools /\ Handle(t) \in Nat /\ idle \in [Pools -> SUBSET Nat]
    BY Facts
  <1>1. \A u \in Workers \ {t} : /\ Holds(u)' <=> Holds(u)
                                 /\ Handle(u)' = Handle(u) /\ PoolOf(u)' = PoolOf(u)
    BY DEF StepOf, Holds, Holding, Handle, PoolOf
  <1>2. \A q \in Pools : /\ Borrowers(q)' = Borrowers(q) \ {t}
                         /\ q # p => t \notin Borrowers(q)
    BY <1>1 DEF Borrowers, Holds
  <1>3. t \in Borrowers(p)
    BY DEF Borrowers, Holds
  <1>4. \A q \in Pools : \A u \in Borrowers(q)' : u # t /\ Handle(u)' = Handle(u)
    BY <1>1, <1>2 DEF Borrowers, Holds
  <1>5. ASSUME NEW q \in Pools
        PROVE  /\ \A u, v \in Borrowers(q)' : u # v => Handle(u)' # Handle(v)'
               /\ \A u \in Borrowers(q)' : Handle(u)' \notin idle'[q]
               /\ 1..all'[q] = idle'[q] \cup {Handle(u)' : u \in Borrowers(q)'}
    <2>1. {Handle(u)' : u \in Borrowers(q)'} = {Handle(u) : u \in Borrowers(q) \ {t}}
      BY <1>2, <1>4
    <2>2. CASE q = p
      <3>1. {Handle(u) : u \in Borrowers(p)} = {Handle(u) : u \in Borrowers(p) \ {t}} \cup {Handle(t)}
        BY <1>3
      <3>2. idle'[p] = idle[p] \cup {Handle(t)}
        BY <1>0
      <3>3. QED
        BY <1>0, <1>2, <1>3, <1>4, <2>1, <2>2, <3>1, <3>2 DEF IInv, HandlesConserved
    <2>3. CASE q # p
      <3>1. idle'[q] = idle[q]
        BY <1>0, <2>3
      <3>2. QED
        BY <1>2, <1>4, <2>1, <2>3, <3>1 DEF IInv, HandlesConserved
    <2>4. QED
      BY <2>2, <2>3
  <1>6. QED
    BY <1>5 DEF HandlesConserved

LEMMA WindowKept ==
    ASSUME IInv, NEW t \in Workers, StepOf(t),
           CookieListRace => /\ pc'[t] \in {"getlist", "walk"} => owner' = t
                             /\ owner' = owner \/ owner = t \/ owner = Nobody
    PROVE  WindowLocked'
  BY PoolAssumption DEF IInv, WindowLocked, StepOf, Nobody

\* Everything together.
LEMMA Together ==
    ASSUME IInv, NEW t \in Workers, StepOf(t),
           idle' \in [Pools -> SUBSET Nat], all' \in [Pools -> Nat],
           kept' \in [Pools -> SUBSET Nat], waiting' \in [Pools -> SUBSET Workers],
           \A p \in Pools : \A h \in kept'[p] :
               h \in kept[p] \/ (Holds(t) /\ p = PoolOf(t) /\ h = Handle(t)),
           WaitersParked', HandlesConserved', WindowLocked', Routed(t)', Counted(t)'
    PROVE  IInv'
  <1>1. \A u \in Workers : Routed(u)' /\ Counted(u)'
    BY OthersKept
  <1>2. PoolTypeOK'
    BY DEF StepOf, PoolTypeOK
  <1>3. QED
    BY <1>1, <1>2 DEF IInv

\* A step by which t neither borrows, nor returns, nor waits.
LEMMA OwnStep ==
    ASSUME IInv, NEW t \in Workers, NEW to \in Places, NEW d \in Calls, pc[t] # "parked",
           pc' = [pc EXCEPT ![t] = to], call' = [call EXCEPT ![t] = d], UNCHANGED poolVars,
           to \in Holding <=> Holds(t),
           Holds(t) => d.handle = Handle(t) /\ d.pool = PoolOf(t),
           CookieListRace => /\ to \in {"getlist", "walk"} => owner' = t
                             /\ owner' = owner \/ owner = t \/ owner = Nobody,
           kept' \in [Pools -> SUBSET Nat],
           \A p \in Pools : \A h \in kept'[p] :
               h \in kept[p] \/ (Holds(t) /\ p = PoolOf(t) /\ h = Handle(t)),
           Routed(t)', Counted(t)'
    PROVE  IInv'
  <1>1. pc'[t] = to /\ call'[t] = d
    BY Facts
  <1>2. StepOf(t)
    BY Facts DEF StepOf
  <1>3. /\ idle' = idle /\ all' = all /\ waiting' = waiting
    BY DEF poolVars
  <1>4. HandlesConserved'
    BY <1>1, <1>2, <1>3, HandlesStay DEF Holds, Handle, PoolOf
  <1>5. WaitersParked'
    <2>1. \A p \in Pools : \A u \in waiting[p] : u # t /\ u \in Workers /\ pc[u] = "parked"
      BY Facts DEF IInv, WaitersParked
    <2>2. \A p \in Pools : \A u \in waiting[p] : pc'[u] = pc[u]
      BY <2>1, Facts
    <2>3. QED
      BY <1>2, <1>3, <2>1, <2>2, OthersParked
  <1>6. WindowLocked'
    BY <1>1, <1>2, WindowKept
  <1>7. QED
    BY <1>2, <1>3, <1>4, <1>5, <1>6, Facts, Together

LEMMA BeginKeeps == ASSUME IInv, NEW t \in Workers, NEW r \in Requests, Begin(t, r) PROVE IInv'
  <1> DEFINE d == [NoCall EXCEPT !.req = r, !.pool = Route(r)]
  <1>1. /\ pc[t] = "out" /\ pc' = [pc EXCEPT ![t] = "acquire"]
        /\ call' = [call EXCEPT ![t] = d] /\ UNCHANGED poolVars
        /\ owner' = owner /\ kept' = kept
    BY DEF Begin, Goes, jarVars
  <1>2. /\ d \in Calls /\ d.req = r /\ d.pool = Route(r) /\ d.merging = FALSE
        /\ d.reused = FALSE /\ d.sent = 0 /\ d.carried = FALSE
    BY FirstCall, RequestAssumption
  <1>3. pc'[t] = "acquire" /\ call'[t] = d
    BY <1>1, Facts
  <1> HIDE DEF d
  <1>4. Routed(t)'
    BY <1>2, <1>3 DEF Routed, Sending
  <1>5. Counted(t)'
    BY <1>2, <1>3 DEF Counted
  <1>6. "acquire" \in Places /\ "acquire" \notin Holding /\ ~Holds(t)
    BY <1>1 DEF Places, Holds, Holding
  <1>7. QED
    BY <1>1, <1>2, <1>4, <1>5, <1>6, Facts, OwnStep

LEMMA CreateFailsKeeps == ASSUME IInv, NEW t \in Workers, CreateFails(t) PROVE IInv'
  <1>1. /\ pc[t] = "acquire" /\ pc' = [pc EXCEPT ![t] = "out"]
        /\ call' = [call EXCEPT ![t] = NoCall] /\ UNCHANGED poolVars
        /\ owner' = owner /\ kept' = kept
    BY DEF CreateFails, Return, jarVars
  <1>2. pc'[t] = "out" /\ call'[t] = NoCall
    BY <1>1, Facts
  <1>3. Routed(t)'
    BY <1>2, NoCallType DEF Routed, Sending
  <1>4. Counted(t)'
    BY <1>2, NoCallType DEF Counted
  <1>5. "out" \in Places /\ "out" \notin Holding /\ ~Holds(t)
    BY <1>1 DEF Places, Holds, Holding
  <1>6. QED
    BY <1>1, <1>3, <1>4, <1>5, NoCallType, Facts, OwnStep

LEMMA EnterKeeps == ASSUME IInv, NEW t \in Workers, EnterWindow(t) PROVE IInv'
  <1> DEFINE b == Reuses(t)
             d == [call[t] EXCEPT !.reused = b]
  <1>1. /\ pc[t] = "prereq" /\ pc' = [pc EXCEPT ![t] = "getlist"]
        /\ call' = [call EXCEPT ![t] = d] /\ UNCHANGED poolVars /\ kept' = kept
        /\ CookieListRace => owner = Nobody /\ owner' = t
    BY Facts DEF EnterWindow, Goes
  <1>2. b \in BOOLEAN /\ (b <=> Handle(t) \in kept[PoolOf(t)] /\ ~NeverResent(call[t].req))
    BY DEF Reuses
  <1> HIDE DEF b
  <1>3. /\ d \in Calls
        /\ d.req = call[t].req /\ d.pool = call[t].pool /\ d.handle = call[t].handle
        /\ d.merging = call[t].merging
        /\ d.reused = b /\ d.sent = call[t].sent /\ d.carried = call[t].carried
    BY <1>2, Facts, WithReused
  <1>4. pc'[t] = "getlist" /\ call'[t] = d
    BY <1>1, Facts
  <1> HIDE DEF d
  <1>5. Routed(t) /\ Counted(t)
    BY DEF IInv
  <1>6. Routed(t)'
    BY <1>1, <1>3, <1>4, <1>5 DEF Routed, Sending
  <1>7. Counted(t)'
    BY <1>1, <1>2, <1>3, <1>4, <1>5 DEF Counted
  <1>8. "getlist" \in Places /\ "getlist" \in Holding /\ Holds(t)
    BY <1>1 DEF Places, Holds, Holding
  <1>9. QED
    BY <1>1, <1>3, <1>6, <1>7, <1>8, Facts, OwnStep DEF Handle, PoolOf

LEMMA GetListKeeps == ASSUME IInv, NEW t \in Workers, GetList(t) PROVE IInv'
  <1> DEFINE b == PoolOf(t) = "jar" /\ jar # 0
             d == [call[t] EXCEPT !.carried = b]
  <1>1. /\ pc[t] = "getlist" /\ pc' = [pc EXCEPT ![t] = "walk"]
        /\ call' = [call EXCEPT ![t] = d] /\ UNCHANGED poolVars /\ kept' = kept
        /\ owner' = owner
    BY Facts DEF GetList, Goes, jarVars
  <1>2. b \in BOOLEAN /\ (b => call[t].pool = "jar")
    BY DEF PoolOf
  <1> HIDE DEF b
  <1>3. /\ d \in Calls
        /\ d.req = call[t].req /\ d.pool = call[t].pool /\ d.handle = call[t].handle
        /\ d.merging = call[t].merging
        /\ d.reused = call[t].reused /\ d.sent = call[t].sent /\ d.carried = b
    BY <1>2, Facts, WithCarried
  <1>4. pc'[t] = "walk" /\ call'[t] = d
    BY <1>1, Facts
  <1> HIDE DEF d
  <1>5. Routed(t) /\ Counted(t) /\ (CookieListRace => owner = t)
    BY <1>1 DEF IInv, WindowLocked
  <1>6. Routed(t)'
    BY <1>1, <1>2, <1>3, <1>4, <1>5 DEF Routed, Sending
  <1>7. Counted(t)'
    BY <1>1, <1>3, <1>4, <1>5 DEF Counted
  <1>8. "walk" \in Places /\ "walk" \in Holding /\ Holds(t)
    BY <1>1 DEF Places, Holds, Holding
  <1>9. QED
    BY <1>1, <1>3, <1>5, <1>6, <1>7, <1>8, Facts, OwnStep DEF Handle, PoolOf

LEMMA HeaderKeeps == ASSUME IInv, NEW t \in Workers, HeaderOut(t) PROVE IInv'
  <1> DEFINE d == [call[t] EXCEPT !.sent = call[t].sent + 1]
  <1>1. /\ pc[t] = "walk" /\ pc' = [pc EXCEPT ![t] = "wire"]
        /\ call' = [call EXCEPT ![t] = d] /\ UNCHANGED poolVars /\ kept' = kept
        /\ owner' = owner \/ owner = t
    BY Facts DEF HeaderOut, Goes, LeaveWindow
  <1>2. /\ d \in Calls
        /\ d.req = call[t].req /\ d.pool = call[t].pool /\ d.handle = call[t].handle
        /\ d.merging = call[t].merging
        /\ d.reused = call[t].reused /\ d.sent = call[t].sent + 1 /\ d.carried = call[t].carried
    <2>1. call[t] \in Calls /\ call[t].sent + 1 \in Nat
      BY Facts
    <2>2. QED
      BY <2>1, WithSent
  <1>3. pc'[t] = "wire" /\ call'[t] = d
    BY <1>1, Facts
  <1> HIDE DEF d
  <1>4. Routed(t) /\ Counted(t)
    BY DEF IInv
  <1>5. Routed(t)'
    BY <1>1, <1>2, <1>3, <1>4 DEF Routed, Sending
  <1>6. Counted(t)'
    BY <1>1, <1>2, <1>3, <1>4, Facts DEF Counted
  <1>7. "wire" \in Places /\ "wire" \in Holding /\ Holds(t)
    BY <1>1 DEF Places, Holds, Holding
  <1>8. QED
    BY <1>1, <1>2, <1>5, <1>6, <1>7, Facts, OwnStep DEF Handle, PoolOf

\* The connection t's handle kept is gone, and t's locals are as they were.
LEMMA KeptWithout ==
    ASSUME IInv, NEW t \in Workers, kept' = [kept EXCEPT ![PoolOf(t)] = @ \ {Handle(t)}]
    PROVE  /\ kept' \in [Pools -> SUBSET Nat] /\ Handle(t) \notin kept'[PoolOf(t)]
           /\ \A p \in Pools : kept'[p] \subseteq kept[p]
  BY Facts

LEMMA DeadKeeps == ASSUME IInv, NEW t \in Workers, DeadConnection(t) PROVE IInv'
  <1>1. /\ pc[t] = "wire" /\ pc' = [pc EXCEPT ![t] = "prereq"] /\ call[t].reused
        /\ call' = call /\ call' = [call EXCEPT ![t] = call[t]] /\ UNCHANGED poolVars
        /\ owner' = owner /\ kept' = [kept EXCEPT ![PoolOf(t)] = @ \ {Handle(t)}]
    BY Facts DEF DeadConnection, Goes, jarVars
  <1>2. pc'[t] = "prereq"
    BY <1>1, Facts
  <1>3. Routed(t) /\ Counted(t)
    BY DEF IInv
  <1>4. Routed(t)'
    BY <1>1, <1>2, <1>3 DEF Routed, Sending
  <1>5. Counted(t)'
    BY <1>1, <1>2, <1>3, KeptWithout DEF Counted, Handle, PoolOf
  <1>6. "prereq" \in Places /\ "prereq" \in Holding /\ Holds(t)
    BY <1>1 DEF Places, Holds, Holding
  <1>7. QED
    BY <1>1, <1>4, <1>5, <1>6, Facts, KeptWithout, OwnStep DEF Handle, PoolOf

LEMMA TransferFailsKeeps == ASSUME IInv, NEW t \in Workers, TransferFails(t) PROVE IInv'
  <1>1. /\ pc[t] \in {"prereq", "getlist", "wire"} /\ pc' = [pc EXCEPT ![t] = "release"]
        /\ call' = call /\ call' = [call EXCEPT ![t] = call[t]] /\ UNCHANGED poolVars
        /\ owner' = owner \/ owner = t
        /\ kept' = [kept EXCEPT ![PoolOf(t)] = @ \ {Handle(t)}]
    BY Facts DEF TransferFails, LeaveWindow
  <1>2. pc'[t] = "release"
    BY <1>1, Facts
  <1>3. Routed(t) /\ Counted(t)
    BY DEF IInv
  <1>4. Routed(t)'
    BY <1>1, <1>2, <1>3 DEF Routed, Sending
  <1>5. Counted(t)'
    BY <1>1, <1>2, <1>3 DEF Counted
  <1>6. "release" \in Places /\ "release" \in Holding /\ Holds(t)
    BY <1>1 DEF Places, Holds, Holding
  <1>7. QED
    BY <1>1, <1>4, <1>5, <1>6, Facts, KeptWithout, OwnStep DEF Handle, PoolOf

LEMMA AnsweredKeeps == ASSUME IInv, NEW t \in Workers, Answered(t) PROVE IInv'
  <1>1. PICK b \in BOOLEAN : call' = [call EXCEPT ![t].got = b]
    BY DEF Answered
  <1> DEFINE d == [call[t] EXCEPT !.got = b]
  <1>2. /\ pc[t] = "wire" /\ pc' = [pc EXCEPT ![t] = "release"]
        /\ call' = [call EXCEPT ![t] = d] /\ UNCHANGED poolVars /\ owner' = owner
        /\ kept' = kept \/ kept' = [kept EXCEPT ![PoolOf(t)] = @ \cup {Handle(t)}]
    BY <1>1, Facts DEF Answered, Goes
  <1>3. /\ d \in Calls
        /\ d.req = call[t].req /\ d.pool = call[t].pool /\ d.handle = call[t].handle
        /\ d.merging = call[t].merging
        /\ d.reused = call[t].reused /\ d.sent = call[t].sent /\ d.carried = call[t].carried
    BY Facts, WithGot
  <1>4. pc'[t] = "release" /\ call'[t] = d
    BY <1>2, Facts
  <1> HIDE DEF d
  <1>5. Routed(t) /\ Counted(t)
    BY DEF IInv
  <1>6. Routed(t)'
    BY <1>2, <1>3, <1>4, <1>5 DEF Routed, Sending
  <1>7. Counted(t)'
    BY <1>2, <1>3, <1>4, <1>5, Facts DEF Counted
  <1>8. "release" \in Places /\ "release" \in Holding /\ Holds(t)
    BY <1>2 DEF Places, Holds, Holding
  <1>9. /\ kept' \in [Pools -> SUBSET Nat]
        /\ \A p \in Pools : \A h \in kept'[p] : h \in kept[p] \/ (p = PoolOf(t) /\ h = Handle(t))
    BY <1>2, Facts
  <1>10. QED
    BY <1>2, <1>3, <1>6, <1>7, <1>8, <1>9, Facts, OwnStep DEF Handle, PoolOf

LEMMA MergeKeeps == ASSUME IInv, NEW t \in Workers, Merge(t) PROVE IInv'
  <1>1. /\ pc[t] = "merge" /\ pc' = [pc EXCEPT ![t] = "release"]
        /\ call' = call /\ call' = [call EXCEPT ![t] = call[t]] /\ UNCHANGED poolVars
        /\ owner' = owner /\ kept' = kept
    BY Facts DEF Merge, Goes
  <1>2. pc'[t] = "release"
    BY <1>1, Facts
  <1>3. Routed(t) /\ Counted(t)
    BY DEF IInv
  <1>4. Routed(t)'
    BY <1>1, <1>2, <1>3 DEF Routed, Sending
  <1>5. Counted(t)'
    BY <1>1, <1>2, <1>3 DEF Counted
  <1>6. "release" \in Places /\ "release" \in Holding /\ Holds(t)
    BY <1>1 DEF Places, Holds, Holding
  <1>7. QED
    BY <1>1, <1>4, <1>5, <1>6, Facts, OwnStep DEF Handle, PoolOf

-----------------------------------------------------------------------------
(* A handle is borrowed, waited for, or given back. *)

\* t is in no waiting list unless it is parked.
LEMMA NotWaiting ==
    ASSUME IInv, NEW t \in Workers, pc[t] # "parked"
    PROVE  \A p \in Pools : \A u \in waiting[p] : u # t /\ u \in Workers /\ pc[u] = "parked"
  BY Facts DEF IInv, WaitersParked

LEMMA BorrowKeeps ==
    ASSUME IInv, NEW t \in Workers, NEW p \in Pools, p = PoolOf(t), NEW h \in Nat, Borrow(t, h),
           waiting' = waiting, kept' = kept, owner' = owner,
           idle' = [idle EXCEPT ![p] = @ \ {h}],
           \/ h \in idle[p] /\ all' = all
           \/ h = all[p] + 1 /\ all' = [all EXCEPT ![p] = all[p] + 1]
    PROVE  IInv'
  <1> DEFINE to == IF call[t].merging THEN "merge" ELSE "prereq"
             d == [call[t] EXCEPT !.handle = h]
  <1>1. /\ pc[t] = "acquire" /\ pc' = [pc EXCEPT ![t] = to] /\ call' = [call EXCEPT ![t] = d]
    BY Facts DEF Borrow, Goes
  <1>2. /\ d \in Calls
        /\ d.req = call[t].req /\ d.pool = call[t].pool /\ d.handle = h
        /\ d.merging = call[t].merging
        /\ d.reused = call[t].reused /\ d.sent = call[t].sent /\ d.carried = call[t].carried
    BY Facts, WithHandle
  <1>3. to \in Places /\ to \in Holding /\ ~Holds(t)
    BY <1>1 DEF Places, Holds, Holding
  <1>4. pc'[t] = to /\ call'[t] = d
    BY <1>1, Facts
  <1>5. StepOf(t)
    BY <1>1, <1>2, <1>3, Facts DEF StepOf
  <1> HIDE DEF d
  <1>6. Routed(t) /\ Counted(t)
    BY DEF IInv
  <1>7. Routed(t)'
    BY <1>1, <1>2, <1>4, <1>6 DEF Routed, Sending
  <1>8. Counted(t)'
    BY <1>1, <1>2, <1>4, <1>6 DEF Counted
  <1>9. /\ idle' \in [Pools -> SUBSET Nat] /\ all' \in [Pools -> Nat]
        /\ \A q \in Pools \ {p} : idle'[q] = idle[q] /\ all'[q] = all[q]
        /\ idle'[p] = idle[p] \ {h}
        /\ \/ h \in idle[p] /\ all'[p] = all[p]
           \/ h = all[p] + 1 /\ all'[p] = all[p] + 1
    BY Facts
  <1>10. PoolOf(t)' = p /\ Handle(t)' = h /\ Holds(t)'
    BY <1>2, <1>3, <1>4 DEF PoolOf, Handle, Holds
  <1>11. HandlesConserved'
    BY <1>3, <1>5, <1>9, <1>10, HandleTaken
  <1>12. WaitersParked'
    <2>1. \A q \in Pools : \A u \in waiting[q] : u # t /\ u \in Workers /\ pc'[u] = pc[u]
      BY <1>1, NotWaiting, Facts
    <2>2. QED
      BY <1>5, <2>1, OthersParked
  <1>13. WindowLocked'
    <2>1. to \notin {"getlist", "walk"}
      OBVIOUS
    <2>2. QED
      BY <1>4, <1>5, <2>1, WindowKept
  <1>14. QED
    BY <1>5, <1>7, <1>8, <1>9, <1>11, <1>12, <1>13, Facts, Together

LEMMA TakeKeeps == ASSUME IInv, NEW t \in Workers, TakeIdle(t) PROVE IInv'
  <1>1. PICK h \in idle[PoolOf(t)] :
          Borrow(t, h) /\ idle' = [idle EXCEPT ![PoolOf(t)] = @ \ {h}]
    BY DEF TakeIdle
  <1>2. h \in Nat /\ PoolOf(t) \in Pools
    BY Facts
  <1>3. waiting' = waiting /\ kept' = kept /\ owner' = owner /\ all' = all
    BY DEF TakeIdle, jarVars
  <1>4. QED
    BY <1>1, <1>2, <1>3, BorrowKeeps

LEMMA CreateKeeps == ASSUME IInv, NEW t \in Workers, CreateHandle(t) PROVE IInv'
  <1> DEFINE p == PoolOf(t)
             h == all[p] + 1
  <1>1. /\ idle[p] = {} /\ Borrow(t, h) /\ all' = [all EXCEPT ![p] = all[p] + 1]
        /\ idle' = idle /\ waiting' = waiting /\ kept' = kept /\ owner' = owner
    BY DEF CreateHandle, jarVars
  <1>2. h \in Nat /\ p \in Pools
    BY Facts
  <1>3. idle' = [idle EXCEPT ![p] = @ \ {h}]
    BY <1>1, <1>2, Facts
  <1>4. QED
    BY <1>1, <1>2, <1>3, BorrowKeeps

\* t starts or stops waiting for a handle.
LEMMA WaitKeeps ==
    ASSUME IInv, NEW t \in Workers, Park(t) \/ SpuriousWakeup(t) PROVE IInv'
  <1> DEFINE p == PoolOf(t)
             to == pc'[t]
  <1>1. /\ pc[t] \in {"acquire", "parked"} /\ to \in {"acquire", "parked"}
        /\ pc' = [pc EXCEPT ![t] = to] /\ call' = call /\ p \in Pools
        /\ idle' = idle /\ all' = all /\ kept' = kept /\ owner' = owner
    BY Facts DEF Park, SpuriousWakeup, Goes, jarVars
  <1>2. StepOf(t)
    BY <1>1, Facts DEF StepOf, Places
  <1>3. ~Holds(t) /\ ~Holds(t)'
    BY <1>1 DEF Holds, Holding
  <1>4. Routed(t)' /\ Counted(t)'
    <2>1. Routed(t) /\ Counted(t)
      BY DEF IInv
    <2>2. Routed(t)'
      BY <1>1, <2>1 DEF Routed, Sending
    <2>3. Counted(t)'
      BY <1>1, <2>1 DEF Counted
    <2>4. QED
      BY <2>2, <2>3
  <1>5. HandlesConserved'
    BY <1>1, <1>2, <1>3, HandlesStay
  <1>6. WindowLocked'
    BY <1>1, <1>2, WindowKept
  <1>7. /\ waiting' \in [Pools -> SUBSET Workers] /\ WaitersParked'
    <2>1. CASE Park(t)
      <3>1. pc[t] = "acquire" /\ to = "parked" /\ waiting' = [waiting EXCEPT ![p] = @ \cup {t}]
        BY <2>1, Facts DEF Park, Goes
      <3>2. \A q \in Pools : \A u \in waiting'[q] :
              (u = t /\ q = p) \/ (u # t /\ u \in waiting[q] /\ u \in Workers)
        BY <1>1, <3>1, Facts, NotWaiting
      <3>3. \A u \in Workers \ {t} : pc'[u] = pc[u]
        BY <1>1, Facts
      <3>4. waiting' \in [Pools -> SUBSET Workers]
        BY <1>1, <3>1, Facts
      <3>5. PoolOf(t)' = p
        BY <1>1 DEF PoolOf
      <3>6. QED
        BY <1>2, <3>1, <3>2, <3>3, <3>4, <3>5, OthersParked
    <2>2. CASE SpuriousWakeup(t)
      <3>1. waiting' = [waiting EXCEPT ![p] = @ \ {t}]
        BY <2>2 DEF SpuriousWakeup
      <3>2. \A q \in Pools : \A u \in waiting'[q] : u # t /\ u \in waiting[q] /\ u \in Workers
        BY <1>1, <3>1, Facts DEF IInv, WaitersParked
      <3>3. \A u \in Workers \ {t} : pc'[u] = pc[u]
        BY <1>1, Facts
      <3>4. waiting' \in [Pools -> SUBSET Workers]
        BY <1>1, <3>1, Facts
      <3>5. QED
        BY <1>2, <3>2, <3>3, <3>4, OthersParked
    <2>3. QED
      BY <2>1, <2>2
  <1>8. QED
    BY <1>1, <1>2, <1>4, <1>5, <1>6, <1>7, Facts, Together

LEMMA ReleaseKeeps == ASSUME IInv, NEW t \in Workers, Release(t) PROVE IInv'
  <1> DEFINE p == PoolOf(t)
             d == [call[t] EXCEPT !.handle = 0]
  <1>1. /\ pc[t] = "release" /\ pc' = [pc EXCEPT ![t] = "notify"] /\ call' = [call EXCEPT ![t] = d]
        /\ idle' = [idle EXCEPT ![p] = @ \cup {Handle(t)}]
        /\ all' = all /\ waiting' = waiting /\ kept' = kept /\ owner' = owner
    BY Facts DEF Release, Goes, NoHandle, jarVars
  <1>2. /\ d \in Calls
        /\ d.req = call[t].req /\ d.pool = call[t].pool
        /\ d.merging = call[t].merging
        /\ d.reused = call[t].reused /\ d.sent = call[t].sent /\ d.carried = call[t].carried
    <2>1. call[t] \in Calls
      BY Facts
    <2>2. d = [call[t] EXCEPT !.handle = 0]
      OBVIOUS
    <2> HIDE DEF d
    <2>3. QED
      BY <2>1, <2>2, WithHandle
  <1>3. pc'[t] = "notify" /\ call'[t] = d
    BY <1>1, Facts
  <1>4. StepOf(t)
    BY <1>1, <1>2, Facts DEF StepOf, Places
  <1> HIDE DEF d
  <1>5. Routed(t) /\ Counted(t)
    BY DEF IInv
  <1>6. Routed(t)'
    BY <1>1, <1>2, <1>3, <1>5 DEF Routed, Sending
  <1>7. Counted(t)'
    BY <1>1, <1>2, <1>3, <1>5 DEF Counted
  <1>8. Holds(t) /\ ~Holds(t)'
    BY <1>1, <1>3 DEF Holds, Holding
  <1>9. HandlesConserved'
    BY <1>1, <1>4, <1>8, HandleReturned
  <1>10. WaitersParked'
    <2>1. \A q \in Pools : \A u \in waiting[q] : u # t /\ u \in Workers /\ pc'[u] = pc[u]
      BY <1>1, NotWaiting, Facts
    <2>2. QED
      BY <1>1, <1>4, <2>1, OthersParked
  <1>11. WindowLocked'
    BY <1>1, <1>3, <1>4, WindowKept
  <1>12. idle' \in [Pools -> SUBSET Nat]
    BY <1>1, Facts
  <1>13. QED
    BY <1>1, <1>4, <1>6, <1>7, <1>9, <1>10, <1>11, <1>12, Facts, Together

LEMMA NotifyKeeps == ASSUME IInv, NEW t \in Workers, NotifyOne(t) PROVE IInv'
  <1> DEFINE p == PoolOf(t)
             d == IF Adopts(t) THEN [call[t] EXCEPT !.merging = TRUE, !.pool = "jar"] ELSE NoCall
             to == IF Adopts(t) THEN "acquire" ELSE "out"
  <1>0. p \in Pools
    BY Facts
  <1>1. PICK told \in Told(p) : AfterRelease(t, told)
    BY DEF NotifyOne
  <1>2. told \subseteq waiting[p] /\ pc[t] = "notify"
    BY DEF NotifyOne, Told
  <1>3. \A u \in told : u # t /\ u \in Workers /\ pc[u] = "parked"
    BY <1>0, <1>2, NotWaiting
  <1>4. /\ idle' = idle /\ all' = all /\ kept' = kept /\ owner' = owner
        /\ waiting' = [waiting EXCEPT ![p] = @ \ told]
        /\ call' = [call EXCEPT ![t] = d]
    BY <1>1, Facts DEF AfterRelease, jarVars
  <1>5. \A u \in Workers : pc'[u] = IF u = t THEN to ELSE IF u \in told THEN "acquire" ELSE pc[u]
    BY <1>1, <1>3 DEF AfterRelease
  <1>6. pc' \in [Workers -> Places]
    <2>1. DOMAIN pc' = Workers /\ pc' = [u \in Workers |-> pc'[u]]
      BY <1>1 DEF AfterRelease
    <2>2. \A u \in Workers : pc'[u] \in Places
      BY <1>5, Facts DEF Places
    <2>3. QED
      BY <2>1, <2>2
  <1>7. /\ d \in Calls
        /\ Adopts(t) => /\ d.req = call[t].req /\ d.pool = "jar" /\ d.merging = TRUE
                        /\ d.reused = call[t].reused /\ d.sent = call[t].sent
                        /\ d.carried = call[t].carried
        /\ ~Adopts(t) => d = NoCall
    <2>1. call[t] \in Calls
      BY Facts
    <2>2. CASE Adopts(t)
      <3>1. d = [call[t] EXCEPT !.merging = TRUE, !.pool = "jar"]
        BY <2>2
      <3> HIDE DEF d
      <3>2. QED
        BY <2>1, <2>2, <3>1, WithMerging
    <2>3. CASE ~Adopts(t)
      BY <2>3, NoCallType
    <2>4. QED
      BY <2>2, <2>3
  <1>8. StepOf(t)
    BY <1>3, <1>4, <1>5, <1>6, <1>7, Facts DEF StepOf
  <1>9. pc'[t] = to /\ call'[t] = d
    BY <1>4, <1>5, Facts
  <1>10. Adopts(t) => ~Sessionless(call[t].req) /\ PoolOf(t) = "plain"
    BY DEF Adopts
  <1> HIDE DEF d
  <1>11. Routed(t) /\ Counted(t)
    BY DEF IInv
  <1>12. Routed(t)'
    <2>1. CASE Adopts(t)
      BY <1>7, <1>9, <1>10, <1>11, <2>1 DEF Routed, Sending
    <2>2. CASE ~Adopts(t)
      BY <1>7, <1>9, <2>2, NoCallType DEF Routed, Sending
    <2>3. QED
      BY <2>1, <2>2
  <1>13. Counted(t)'
    <2>1. CASE Adopts(t)
      BY <1>7, <1>9, <1>11, <2>1 DEF Counted
    <2>2. CASE ~Adopts(t)
      BY <1>7, <1>9, <2>2, NoCallType DEF Counted
    <2>3. QED
      BY <2>1, <2>2
  <1>14. ~Holds(t) /\ ~Holds(t)'
    BY <1>2, <1>9 DEF Holds, Holding
  <1>15. HandlesConserved'
    BY <1>4, <1>8, <1>14, HandlesStay
  <1>16. waiting' \in [Pools -> SUBSET Workers] /\ WaitersParked'
    <2>1. waiting' \in [Pools -> SUBSET Workers]
      BY <1>0, <1>4, Facts
    <2>2. \A q \in Pools : \A u \in waiting'[q] : u \in waiting[q] /\ u # t /\ u \in Workers /\ u \notin told
      <3>1. \A q \in Pools : \A u \in waiting'[q] : u \in waiting[q] /\ (q = p => u \notin told)
        BY <1>0, <1>4, Facts
      <3>2. \A q \in Pools : \A u \in waiting[q] : PoolOf(u) = q
        BY DEF IInv, WaitersParked
      <3>3. \A u \in told : PoolOf(u) = p
        BY <1>0, <1>2, <3>2
      <3>4. QED
        BY <1>2, <3>1, <3>2, <3>3, NotWaiting
    <2>3. \A q \in Pools : \A u \in waiting'[q] : pc'[u] = pc[u]
      BY <1>5, <2>2
    <2>4. QED
      BY <1>8, <2>1, <2>2, <2>3, OthersParked
  <1>17. WindowLocked'
    BY <1>4, <1>8, <1>9, WindowKept
  <1>18. QED
    BY <1>4, <1>8, <1>12, <1>13, <1>15, <1>16, <1>17, Facts, Together

-----------------------------------------------------------------------------
LEMMA NextKeeps == IInv /\ [Next]_vars => IInv'
  <1>1. IInv /\ UNCHANGED vars => IInv'
    BY DEF vars, poolVars, jarVars, IInv, PoolTypeOK, WaitersParked, HandlesConserved,
           WindowLocked, Routed, Counted, Borrowers, PoolOf, Handle
  <1>2. ASSUME IInv, NEW t \in Workers, Step(t) PROVE IInv'
    BY <1>2, TakeKeeps, CreateKeeps, CreateFailsKeeps, WaitKeeps, EnterKeeps, GetListKeeps,
       HeaderKeeps, DeadKeeps, TransferFailsKeeps, AnsweredKeeps, ReleaseKeeps, NotifyKeeps,
       MergeKeeps DEF Step
  <1>3. QED
    BY <1>1, <1>2, BeginKeeps, WaitKeeps DEF Next, Done

LEMMA Invariance == Spec => []IInv
  BY InitIInv, NextKeeps, PTL DEF Spec

\* No path through a failure loses a handle, and two threads never drive one: for
\* any cap, any number of threads and any mix of requests.
THEOREM HandlesAreConserved == Spec => []HandlesConserved
  BY Invariance, PTL DEF IInv

\* A sessionless exchange neither carries a cookie of the session nor leaves one of
\* its own in the jar, whether its caller flagged it or its path gave it away.
THEOREM SessionlessStaysApart == Spec => []SessionlessApart
  <1>1. IInv => SessionlessApart
    BY DEF IInv, Routed, SessionlessApart, Sessionless, Route
  <1>2. QED
    BY <1>1, Invariance, PTL

\* A write nobody marked replayable reaches the wire once; any other request twice
\* at most, because no other thread can revive the connection of a borrowed handle.
THEOREM WritesAreSentOnce == Spec => []WritesSentOnce
  <1>1. IInv => WritesSentOnce
    BY DEF IInv, Counted, NeverResent, WritesSentOnce
  <1>2. QED
    BY <1>1, Invariance, PTL

\* Holding the lock makes a walker the only one.
OneWalks == CookieListRace => Cardinality(Walkers) <= 1

LEMMA OneWalker == IInv => OneWalks
  <1> SUFFICES ASSUME IInv, CookieListRace PROVE Cardinality(Walkers) <= 1
    BY DEF OneWalks
  <1>1. \A t, u \in Walkers : t = u
    BY DEF IInv, WindowLocked, Walkers
  <1>2. CASE Walkers = {}
    BY <1>2, FS_EmptySet
  <1>3. CASE Walkers # {}
    <2>1. PICK t \in Walkers : TRUE
      BY <1>3
    <2>2. Walkers = {t}
      BY <1>1, <2>1
    <2>3. QED
      BY <2>2, FS_Singleton
  <1>4. QED
    BY <1>2, <1>3

LEMMA JarWrittenAlone ==
    ASSUME IInv, [Next]_vars, CookieListRace, jar' # jar PROVE Walkers = {}
  <1>1. PICK t \in Workers : (Answered(t) \/ Merge(t)) /\ LockFree(t)
    BY DEF Next, Step, Done, TakeIdle, CreateHandle, CreateFails, Park, EnterWindow, GetList,
           HeaderOut, DeadConnection, TransferFails, Answered, Release, NotifyOne, AfterRelease,
           Merge, SpuriousWakeup, Begin, jarVars, vars
  <1>2. pc[t] \in {"wire", "merge"}
    BY <1>1 DEF Answered, Merge, Goes
  <1>3. \A u \in Walkers : u \in Workers /\ owner = u /\ pc[u] = "walk"
    BY DEF IInv, WindowLocked, Walkers
  <1>4. QED
    BY <1>1, <1>2, <1>3, PoolAssumption DEF LockFree, Nobody

\* On a libcurl with the race of issue 83, at most one thread at a time walks a
\* list whose nodes lie in the jar's cookies, and nobody replaces the cookies then.
THEOREM CookieListsStaySafe == Spec => CookieListsAreSafe
  <1>1. IInv /\ OneWalks' /\ [Next]_vars =>
          [CookieListRace => /\ Cardinality(Walkers') <= 1
                             /\ jar' # jar => Walkers = {}]_vars
    <2> SUFFICES ASSUME IInv, OneWalks', [Next]_vars, CookieListRace
                 PROVE  Cardinality(Walkers') <= 1 /\ (jar' # jar => Walkers = {})
      OBVIOUS
    <2>1. Cardinality(Walkers') <= 1
      BY DEF OneWalks
    <2>2. QED
      BY <2>1, JarWrittenAlone
  <1>2. QED
    BY <1>1, OneWalker, Invariance, PTL DEF Spec, CookieListsAreSafe
=============================================================================
