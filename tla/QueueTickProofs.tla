-------------------------- MODULE QueueTickProofs --------------------------
(* Proofs about QueueTick, for any grids, entries, pools and faults.           *)
EXTENDS QueueTick, SequenceTheorems, FiniteSetTheorems, TLAPS

(* No two places of an order hold the same.                                    *)
OneEach(s) == \A i, k \in 1..Len(s) : s[i] = s[k] => i = k

(* An entry is in the order once at most, a task exactly while it shows one.   *)
OrderOK == /\ OneEach(recent)
           /\ \A t \in Tasks : Contains(recent, t) <=> req[t].step = "show"
           /\ \A t \in Tasks : req[t].step = "show" => req[t].entry \in Entries

(* Where the tick is between a display's commit and the lease's.               *)
Between(g) == req[Tick].step = "lease" /\ At(Tick) = g

(* Every second display of an occurrence has cost a failure, and the lease is  *)
(* advanced for a display that was started, or its schedule has been edited.   *)
StartsOK == \A g \in Grids :
              /\ starts[g] <= faults + IF Between(g) THEN 1 ELSE 0
              /\ Between(g) /\ lease[g] = "due" => starts[g] > 0

QueueInv == TypeOK /\ OrderOK /\ StartsOK

-----------------------------------------------------------------------------
(* Operators.                                                                  *)

(* The first grid of a list is one of the list.                                *)
LEMMA MinIsIn ==
  ASSUME NEW S \in SUBSET Nat, S # {}
  PROVE  Min(S) \in S
<1>1. \E x \in S : \A y \in S : ~ (<<y, x>> \in OpToRel(<, Nat))
  BY WFMin, NatLessThanWellFounded
<1>2. PICK x \in S : \A y \in S : ~ (<<y, x>> \in OpToRel(<, Nat))
  BY <1>1
<1>3. \A y \in S : ~ (y < x)
  BY <1>2, Zenon DEF OpToRel
<1>4. \A y \in S : x <= y
  BY <1>3
<1>. QED
  BY <1>4 DEF Min

(* What leaves the order, and where the others are then.                       *)
LEMMA WithoutProperties ==
  ASSUME NEW S, NEW s \in Seq(S), NEW x
  PROVE  /\ Without(s, x) \in Seq(S)
         /\ ~Contains(s, x) => Without(s, x) = s
         /\ Contains(s, x) =>
              /\ Len(Without(s, x)) = Len(s) - 1
              /\ Place(s, x) \in 1..Len(s) /\ s[Place(s, x)] = x
              /\ \A i \in 1..Len(s) - 1 :
                   Without(s, x)[i] = IF i < Place(s, x) THEN s[i] ELSE s[i + 1]
<1>1. Len(s) \in Nat /\ DOMAIN s = 1..Len(s) /\ \A i \in 1..Len(s) : s[i] \in S
  BY LenProperties, ElementOfSeq
<1>2. CASE ~Contains(s, x)
  BY <1>2 DEF Without
<1>3. CASE Contains(s, x)
  <2>. DEFINE p == Place(s, x)
              a == SubSeq(s, 1, p - 1)
              b == SubSeq(s, p + 1, Len(s))
  <2>1. p \in 1..Len(s) /\ s[p] = x
    BY <1>1, <1>3 DEF Contains, Place
  <2>2. Without(s, x) = a \o b
    BY <1>3 DEF Without, RemoveAt
  <2>. HIDE DEF p
  <2>3. a \in Seq(S) /\ Len(a) = p - 1 /\ \A i \in 1..p - 1 : a[i] = s[i]
    <3>1. /\ SubSeq(s, 1, p - 1) \in Seq(S)
          /\ Len(SubSeq(s, 1, p - 1)) = IF 1 <= p - 1 THEN (p - 1) - 1 + 1 ELSE 0
          /\ \A i \in 1..(p - 1) - 1 + 1 : SubSeq(s, 1, p - 1)[i] = s[1 + i - 1]
      BY <1>1, <2>1, SubSeqProperties
    <3>. QED
      BY <1>1, <2>1, <3>1
  <2>4. b \in Seq(S) /\ Len(b) = Len(s) - p /\ \A i \in 1..Len(s) - p : b[i] = s[p + i]
    <3>1. p + 1 \in Int /\ Len(s) \in Int /\ \A i \in p + 1..Len(s) : s[i] \in S
      BY <1>1, <2>1
    <3>2. /\ b \in Seq(S)
          /\ Len(b) = IF p + 1 <= Len(s) THEN Len(s) - (p + 1) + 1 ELSE 0
          /\ \A i \in 1..Len(s) - (p + 1) + 1 : b[i] = s[(p + 1) + i - 1]
      BY <3>1, SubSeqProperties
    <3>. HIDE DEF b
    <3>3. Len(b) = Len(s) - p
      <4>1. \A l \in Nat : \A k \in 1..l : (IF k + 1 <= l THEN l - (k + 1) + 1 ELSE 0) = l - k
        OBVIOUS
      <4>. QED
        BY <1>1, <2>1, <3>2, <4>1, Zenon
    <3>4. ASSUME NEW i \in 1..Len(s) - p PROVE b[i] = s[p + i]
      <4>1. i \in 1..Len(s) - (p + 1) + 1 /\ (p + 1) + i - 1 = p + i
        BY <1>1, <2>1, <3>4
      <4>. QED
        BY <3>2, <4>1
    <3>. QED
      BY <3>2, <3>3, <3>4
  <2>. HIDE DEF a, b
  <2>5. /\ a \o b \in Seq(S) /\ Len(a \o b) = Len(s) - 1
        /\ \A i \in 1..Len(s) - 1 : (a \o b)[i] = IF i <= p - 1 THEN a[i] ELSE b[i - (p - 1)]
    <3>1. /\ a \o b \in Seq(S) /\ Len(a \o b) = Len(a) + Len(b)
          /\ \A i \in 1..Len(a) + Len(b) : (a \o b)[i] = IF i <= Len(a) THEN a[i] ELSE b[i - Len(a)]
      BY <2>3, <2>4, ConcatProperties, Zenon
    <3>2. Len(a) = p - 1 /\ Len(a) + Len(b) = Len(s) - 1
      BY <1>1, <2>1, <2>3, <2>4
    <3>. QED
      BY <3>1, <3>2
  <2>6. \A i \in 1..Len(s) - 1 : (a \o b)[i] = IF i < p THEN s[i] ELSE s[i + 1]
    <3>1. ASSUME NEW i \in 1..Len(s) - 1, i < p PROVE (a \o b)[i] = s[i]
      BY <1>1, <2>1, <2>3, <2>5, <3>1
    <3>2. ASSUME NEW i \in 1..Len(s) - 1, ~(i < p) PROVE (a \o b)[i] = s[i + 1]
      <4>1. i - (p - 1) \in 1..Len(s) - p /\ p + (i - (p - 1)) = i + 1
        BY <1>1, <2>1, <3>2
      <4>. QED
        BY <1>1, <2>1, <2>4, <2>5, <3>2, <4>1
    <3>. QED
      BY <3>1, <3>2
  <2>. QED
    BY <1>3, <2>1, <2>2, <2>5, <2>6 DEF p
<1>. QED
  BY <1>2, <1>3

LEMMA WithoutContains ==
  ASSUME NEW S, NEW s \in Seq(S), OneEach(s), NEW x
  PROVE  /\ OneEach(Without(s, x))
         /\ \A y : Contains(Without(s, x), y) <=> Contains(s, y) /\ y # x
<1>1. Len(s) \in Nat
  BY LenProperties
<1>2. CASE ~Contains(s, x)
  BY <1>2, WithoutProperties
<1>3. CASE Contains(s, x)
  <2>. DEFINE p == Place(s, x)
              w == Without(s, x)
  <2>1. /\ Len(w) = Len(s) - 1 /\ p \in 1..Len(s) /\ s[p] = x
        /\ \A i \in 1..Len(s) - 1 : w[i] = IF i < p THEN s[i] ELSE s[i + 1]
    BY <1>3, WithoutProperties
  <2>. HIDE DEF p, w
  <2>2. \A i \in 1..Len(w) : \/ i < p /\ i \in 1..Len(s) /\ w[i] = s[i]
                             \/ ~(i < p) /\ i + 1 \in 1..Len(s) /\ w[i] = s[i + 1]
    BY <1>1, <2>1
  <2>3. OneEach(w)
    <3>. SUFFICES ASSUME NEW i \in 1..Len(w), NEW k \in 1..Len(w), w[i] = w[k]
                  PROVE  i = k
      BY DEF OneEach
    <3>1. CASE i < p /\ k < p
      BY <2>2, <3>1 DEF OneEach
    <3>2. CASE ~(i < p) /\ ~(k < p)
      <4>1. i + 1 = k + 1
        BY <2>2, <3>2 DEF OneEach
      <4>. QED
        BY <4>1
    <3>3. CASE i < p /\ ~(k < p)
      <4>1. i = k + 1
        BY <2>2, <3>3 DEF OneEach
      <4>. QED
        BY <1>1, <2>1, <3>3, <4>1
    <3>4. CASE ~(i < p) /\ k < p
      <4>1. i + 1 = k
        BY <2>2, <3>4 DEF OneEach
      <4>. QED
        BY <1>1, <2>1, <3>4, <4>1
    <3>. QED
      BY <3>1, <3>2, <3>3, <3>4
  <2>4. ASSUME NEW y, Contains(w, y) PROVE Contains(s, y) /\ y # x
    <3>1. PICK i \in 1..Len(w) : w[i] = y
      BY <2>4 DEF Contains
    <3>2. PICK k \in 1..Len(s) : s[k] = y /\ k # p
      <4>1. CASE i < p
        BY <2>1, <2>2, <3>1, <4>1
      <4>2. CASE ~(i < p)
        <5>1. i + 1 \in 1..Len(s) /\ s[i + 1] = y
          BY <2>2, <3>1, <4>2
        <5>2. i + 1 # p
          BY <1>1, <2>1, <4>2
        <5>. QED
          BY <5>1, <5>2
      <4>. QED
        BY <4>1, <4>2
    <3>. QED
      BY <2>1, <3>2 DEF Contains, OneEach
  <2>5. ASSUME NEW y, Contains(s, y), y # x PROVE Contains(w, y)
    <3>1. PICK k \in 1..Len(s) : s[k] = y
      BY <2>5 DEF Contains
    <3>2. k # p
      BY <2>1, <2>5, <3>1
    <3>3. CASE k < p
      <4>1. k \in 1..Len(w) /\ w[k] = s[k]
        BY <1>1, <2>1, <3>3
      <4>. QED
        BY <3>1, <4>1 DEF Contains
    <3>4. CASE k > p
      <4>1. k - 1 \in 1..Len(w) /\ ~(k - 1 < p) /\ (k - 1) + 1 = k
        BY <1>1, <2>1, <3>4
      <4>2. w[k - 1] = s[k]
        BY <2>2, <4>1
      <4>. QED
        BY <3>1, <4>1, <4>2 DEF Contains
    <3>. QED
      BY <2>1, <3>2, <3>3, <3>4
  <2>. QED
    BY <2>3, <2>4, <2>5 DEF w
<1>. QED
  BY <1>2, <1>3

LEMMA ReplaceContains ==
  ASSUME NEW S, NEW s \in Seq(S), OneEach(s), NEW t, NEW e \in S, ~Contains(s, e), e # t
  PROVE  /\ ReplaceAll(s, t, e) \in Seq(S)
         /\ OneEach(ReplaceAll(s, t, e))
         /\ \A y \in S \ {e} : Contains(ReplaceAll(s, t, e), y) <=> Contains(s, y) /\ y # t
<1>. DEFINE r == ReplaceAll(s, t, e)
<1>1. Len(s) \in Nat /\ \A i \in 1..Len(s) : s[i] \in S
  BY LenProperties, ElementOfSeq
<1>2. r = [i \in 1..Len(s) |-> IF s[i] = t THEN e ELSE s[i]]
  BY DEF ReplaceAll
<1>. HIDE DEF r
<1>3. r \in [1..Len(s) -> S]
  BY <1>1, <1>2
<1>4. r \in Seq(S)
  BY <1>1, <1>3
<1>5. Len(r) = Len(s) /\ \A i \in 1..Len(s) : r[i] = IF s[i] = t THEN e ELSE s[i]
  BY <1>1, <1>2
<1>6. OneEach(r)
  BY <1>5 DEF OneEach, Contains
<1>7. \A y \in S \ {e} : Contains(r, y) <=> Contains(s, y) /\ y # t
  BY <1>5 DEF Contains
<1>. QED
  BY <1>4, <1>6, <1>7 DEF r

LEMMA AppendContains ==
  ASSUME NEW S, NEW s \in Seq(S), OneEach(s), NEW t \in S, ~Contains(s, t)
  PROVE  /\ Append(s, t) \in Seq(S)
         /\ OneEach(Append(s, t))
         /\ \A y : Contains(Append(s, t), y) <=> Contains(s, y) \/ y = t
<1>1. /\ Append(s, t) \in Seq(S) /\ Len(Append(s, t)) = Len(s) + 1
      /\ \A i \in 1..Len(s) : Append(s, t)[i] = s[i]
      /\ Append(s, t)[Len(s) + 1] = t
      /\ Len(s) \in Nat
  BY AppendProperties, LenProperties
<1>. DEFINE r == Append(s, t)
<1>. HIDE DEF r
<1>2. \A i \in 1..Len(r) : (i \in 1..Len(s) /\ r[i] = s[i]) \/ (i = Len(s) + 1 /\ r[i] = t)
  BY <1>1 DEF r
<1>3. Len(s) + 1 \in 1..Len(r) /\ r[Len(s) + 1] = t
      /\ \A i \in 1..Len(s) : i \in 1..Len(r) /\ r[i] = s[i]
  BY <1>1 DEF r
<1>4. OneEach(r)
  BY <1>2 DEF OneEach, Contains
<1>5. \A y : Contains(r, y) <=> Contains(s, y) \/ y = t
  BY <1>2, <1>3 DEF Contains
<1>. QED
  BY <1>1, <1>4, <1>5 DEF r

(* An order of a finite set has a place for every element.                     *)
LEMMA PlaceInOrder ==
  ASSUME NEW S, IsFiniteSet(S), NEW f \in SetToSeqs(S), NEW e \in S
  PROVE  Place(f, e) \in Nat \ {0}
<1>. DEFINE n == Cardinality(S)
<1>1. n \in Nat /\ IsFiniteSet(1..n) /\ Cardinality(1..n) = n
  BY FS_CardinalityType, FS_Interval
<1>. HIDE DEF n
<1>2. f \in [1..n -> S] /\ \A i, k \in 1..n : i # k => f[i] # f[k]
  BY DEF SetToSeqs, n
<1>3. f \in Injection(1..n, S)
  BY <1>2 DEF Injection, IsInjective
<1>4. f \in Surjection(1..n, S)
  BY <1>1, <1>3, FS_Injection DEF n
<1>5. \E i \in DOMAIN f : f[i] = e
  BY <1>2, <1>4 DEF Surjection
<1>6. Place(f, e) \in 1..n
  BY <1>2, <1>5 DEF Place
<1>. QED
  BY <1>1, <1>6

-----------------------------------------------------------------------------
(* What a session does to the order and to its own request.                    *)

Spots == Entries \cup Tasks

LEMMA TasksApart == Tick # Op /\ Tasks \cap Entries = {} /\ 0 \notin Entries
  BY QueueTickAssumption DEF Tasks

(* The order and the requests, after any step.                                 *)
NextOrder == /\ recent' \in Seq(Spots) /\ req' \in [Tasks -> Request] /\ OrderOK'

LEMMA LoadShowKeeps ==
  ASSUME TypeOK, OrderOK, NEW t \in Tasks, NEW g \in Grids, NEW e \in Entries, NEW q \in BOOLEAN,
         LoadShow(t, g, e, q), req[t].step # "show"
  PROVE  NextOrder
<1>. DEFINE r == [step |-> "show", todo |-> req[t].todo \cup {g}, entry |-> e, queued |-> q]
<1>1. req \in [Tasks -> Request] /\ req[t] \in Request
  BY DEF TypeOK
<1>2. r \in Request /\ r.step = "show" /\ r.entry = e
  BY <1>1 DEF Request
<1>3. req' = [req EXCEPT ![t] = r]
  BY DEF LoadShow
<1>. HIDE DEF r
<1>4. req' \in [Tasks -> Request] /\ req'[t] = r /\ \A u \in Tasks : u # t => req'[u] = req[u]
  BY <1>1, <1>2, <1>3
<1>5. recent \in Seq(Spots) /\ t \in Spots /\ ~Contains(recent, t) /\ OneEach(recent)
  BY DEF TypeOK, OrderOK, Spots
<1>6. /\ recent' \in Seq(Spots) /\ OneEach(recent')
      /\ \A y : Contains(recent', y) <=> Contains(recent, y) \/ y = t
  BY <1>5, AppendContains DEF LoadShow
<1>. QED
  BY <1>2, <1>4, <1>6 DEF OrderOK, NextOrder

LEMMA CommitShowKeeps ==
  ASSUME TypeOK, OrderOK, NEW t \in Tasks, CommitShow(t)
  PROVE  NextOrder
<1>. DEFINE e == req[t].entry
            w == Without(recent, e)
<1>1. e \in Entries /\ t \notin Entries /\ e # t /\ e \in Spots /\ recent \in Seq(Spots) /\ OneEach(recent)
  BY TasksApart DEF CommitShow, OrderOK, Spots, TypeOK
<1>2. w \in Seq(Spots) /\ OneEach(w) /\ \A y : Contains(w, y) <=> Contains(recent, y) /\ y # e
  BY <1>1, WithoutProperties, WithoutContains
<1>3. recent' = ReplaceAll(w, t, e)
  BY DEF CommitShow
<1>. HIDE DEF e, w
<1>4. /\ recent' \in Seq(Spots) /\ OneEach(recent')
      /\ \A y \in Spots \ {e} : Contains(recent', y) <=> Contains(w, y) /\ y # t
  BY <1>1, <1>2, <1>3, ReplaceContains
<1>5. \A u \in Tasks : u \in Spots \ {e}
  BY <1>1, TasksApart DEF Spots
<1>6. req' = [req EXCEPT ![t] = Idle] \/ req' = [req EXCEPT ![t].step = "lease"]
  BY DEF CommitShow
<1>7. /\ req' \in [Tasks -> Request] /\ req'[t].step \in {"idle", "lease"}
      /\ \A u \in Tasks : u # t => req'[u] = req[u]
  <2>1. req \in [Tasks -> Request] /\ Idle \in Request /\ Idle.step = "idle"
    BY DEF TypeOK, Idle, Request
  <2>2. [req[t] EXCEPT !.step = "lease"] \in Request /\ [req[t] EXCEPT !.step = "lease"].step = "lease"
    BY <2>1 DEF Request
  <2>. QED
    BY <1>6, <2>1, <2>2
<1>. QED
  BY <1>2, <1>4, <1>5, <1>7 DEF OrderOK, NextOrder

LEMMA AbortKeeps ==
  ASSUME TypeOK, OrderOK, NEW t \in Tasks, Abort(t)
  PROVE  NextOrder
<1>1. recent \in Seq(Spots) /\ OneEach(recent)
  BY DEF TypeOK, OrderOK, Spots
<1>2. /\ recent' \in Seq(Spots) /\ OneEach(recent')
      /\ \A y : Contains(recent', y) <=> Contains(recent, y) /\ y # t
  BY <1>1, WithoutProperties, WithoutContains DEF Abort
<1>3. /\ req' \in [Tasks -> Request] /\ req'[t].step = "idle"
      /\ \A u \in Tasks : u # t => req'[u] = req[u]
  BY DEF TypeOK, Abort, Idle, Request
<1>. QED
  BY <1>2, <1>3 DEF OrderOK, NextOrder

LEMMA RestartKeeps ==
  ASSUME TypeOK, OrderOK, Restart
  PROVE  NextOrder
<1>. DEFINE w == Without(recent, Tick)
<1>1. recent \in Seq(Spots) /\ OneEach(recent)
  BY DEF TypeOK, OrderOK, Spots
<1>2. w \in Seq(Spots) /\ OneEach(w) /\ \A y : Contains(w, y) <=> Contains(recent, y) /\ y # Tick
  BY <1>1, WithoutProperties, WithoutContains
<1>3. recent' = Without(w, Op)
  BY DEF Restart
<1>. HIDE DEF w
<1>4. /\ recent' \in Seq(Spots) /\ OneEach(recent')
      /\ \A y : Contains(recent', y) <=> Contains(w, y) /\ y # Op
  BY <1>2, <1>3, WithoutProperties, WithoutContains
<1>5. req' \in [Tasks -> Request] /\ \A u \in Tasks : req'[u].step = "idle"
  BY DEF Restart, Idle, Request
<1>6. \A u \in Tasks : ~Contains(recent', u)
  BY <1>2, <1>4 DEF Tasks
<1>. QED
  BY <1>4, <1>5, <1>6 DEF OrderOK, NextOrder

(* A step that leaves the order alone starts no show and ends none.            *)
LEMMA OthersKeep ==
  ASSUME TypeOK, OrderOK, UNCHANGED recent, NEW t \in Tasks, NEW r \in Request,
         req' = [req EXCEPT ![t] = r], req[t].step # "show", r.step # "show"
  PROVE  NextOrder
<1>1. /\ req' \in [Tasks -> Request] /\ req'[t] = r
      /\ \A u \in Tasks : u # t => req'[u] = req[u]
  BY DEF TypeOK
<1>. QED
  BY <1>1 DEF OrderOK, NextOrder, TypeOK, Spots
-----------------------------------------------------------------------------
(* The order and the requests through every step.                              *)

(* The first grid of a list that is not empty is a row.                        *)
LEMMA AtIsARow ==
  ASSUME TypeOK, NEW t \in Tasks, req[t].todo # {}
  PROVE  At(t) \in Grids
<1>1. req[t].todo \subseteq Grids /\ req[t].todo \in SUBSET Nat
  BY QueueTickAssumption DEF TypeOK, Request
<1>. QED
  BY <1>1, MinIsIn DEF At

LEMMA OrderStep ==
  ASSUME TypeOK, OrderOK, [Next]_vars
  PROVE  NextOrder
<1>1. Tick \in Tasks /\ Op \in Tasks /\ Tick # Op /\ Idle.step = "idle" /\ Idle \in Request
  BY QueueTickAssumption DEF Tasks, Idle, Request
<1>2. req \in [Tasks -> Request] /\ \A t \in Tasks : req[t] \in Request
  BY DEF TypeOK
<1>3. CASE UNCHANGED <<recent, req>>
  BY <1>3 DEF NextOrder, OrderOK, TypeOK, Spots
<1>4. CASE BeginTick
  <2>. DEFINE r == [req[Tick] EXCEPT !.step = "release", !.todo = {g \in Grids : hold[g] = "over"}]
  <2>1. r \in Request /\ r.step = "release" /\ req[Tick].step # "show"
    BY <1>1, <1>2, <1>4 DEF BeginTick, Request
  <2>2. req' = [req EXCEPT ![Tick] = r] /\ UNCHANGED recent
    BY <1>1, <1>2, <1>4 DEF BeginTick
  <2>. QED
    BY <1>1, <2>1, <2>2, OthersKeep
<1>5. ASSUME NEW t \in Tasks, Release(t) PROVE NextOrder
  <2>. DEFINE r == [req[t] EXCEPT !.todo = @ \ {At(t)}]
  <2>1. r \in Request /\ r.step # "show" /\ req[t].step # "show" /\ UNCHANGED recent
    BY <1>1, <1>2, <1>5 DEF Release, Request
  <2>2. req' = [req EXCEPT ![t] = Idle] \/ req' = [req EXCEPT ![t] = r]
    BY <1>2, <1>5 DEF Release
  <2>. QED
    BY <1>1, <2>1, <2>2, OthersKeep
<1>6. CASE FindDue
  <2>. DEFINE r == [req[Tick] EXCEPT !.step = "start", !.todo = {g \in Grids : Due(g)}]
  <2>1. r \in Request /\ r.step # "show" /\ req[Tick].step # "show"
    BY <1>1, <1>2, <1>6 DEF FindDue, Request
  <2>2. req' = [req EXCEPT ![Tick] = r] /\ UNCHANGED recent
    BY <1>1, <1>2, <1>6 DEF FindDue
  <2>. QED
    BY <1>1, <2>1, <2>2, OthersKeep
<1>7. CASE StartDisplay
  <2>1. At(Tick) \in Grids /\ req[Tick].step # "show"
    BY <1>1, <1>7, AtIsARow DEF StartDisplay
  <2>2. PICK e \in Entries : LoadShow(Tick, At(Tick), e, TRUE)
    BY <1>7 DEF StartDisplay
  <2>. QED
    BY <1>1, <2>1, <2>2, LoadShowKeeps
<1>8. CASE SkipDisplay
  <2>. DEFINE r == [req[Tick] EXCEPT !.todo = @ \ {At(Tick)}]
  <2>1. r \in Request /\ r.step # "show" /\ req[Tick].step # "show"
    BY <1>1, <1>2, <1>8 DEF SkipDisplay, Request
  <2>2. req' = [req EXCEPT ![Tick] = r] /\ UNCHANGED recent
    BY <1>1, <1>2, <1>8 DEF SkipDisplay
  <2>. QED
    BY <1>1, <2>1, <2>2, OthersKeep
<1>9. ASSUME NEW t \in Tasks, CommitShow(t) PROVE NextOrder
  BY <1>9, CommitShowKeeps
<1>10. ASSUME NEW t \in Tasks, Abort(t) PROVE NextOrder
  BY <1>10, AbortKeeps
<1>11. CASE AdvanceLease
  <2>. DEFINE r == [Idle EXCEPT !.step = "start", !.todo = req[Tick].todo \ {At(Tick)}]
  <2>1. r \in Request /\ r.step # "show" /\ req[Tick].step # "show"
    BY <1>1, <1>2, <1>11 DEF AdvanceLease, Request
  <2>2. req' = [req EXCEPT ![Tick] = r] /\ UNCHANGED recent
    BY <1>1, <1>2, <1>11 DEF AdvanceLease
  <2>. QED
    BY <1>1, <2>1, <2>2, OthersKeep
<1>12. CASE EndTick
  <2>1. req' = [req EXCEPT ![Tick] = Idle] /\ UNCHANGED recent /\ req[Tick].step # "show"
    BY <1>12 DEF EndTick
  <2>. QED
    BY <1>1, <2>1, OthersKeep
<1>13. ASSUME NEW g \in Grids, ShowNext(g) PROVE NextOrder
  <2>1. PICK e \in Entries : LoadShow(Op, g, e, TRUE)
    BY <1>13 DEF ShowNext
  <2>2. req[Op].step # "show"
    BY <1>1, <1>13 DEF ShowNext
  <2>. QED
    BY <1>1, <2>1, <2>2, LoadShowKeeps
<1>14. ASSUME NEW g \in Grids, NEW e \in Entries, ShowNow(g, e) PROVE NextOrder
  <2>1. LoadShow(Op, g, e, FALSE) /\ req[Op].step # "show"
    BY <1>1, <1>14 DEF ShowNow
  <2>. QED
    BY <1>1, <2>1, LoadShowKeeps
<1>15. ASSUME NEW g \in Grids, BeginRelease(g) PROVE NextOrder
  <2>. DEFINE r == [req[Op] EXCEPT !.step = "release", !.todo = {g}]
  <2>1. r \in Request /\ r.step # "show" /\ req[Op].step # "show"
    BY <1>1, <1>2, <1>15 DEF BeginRelease, Request
  <2>2. req' = [req EXCEPT ![Op] = r] /\ UNCHANGED recent
    BY <1>1, <1>2, <1>15 DEF BeginRelease
  <2>. QED
    BY <1>1, <2>1, <2>2, OthersKeep
<1>16. CASE Restart
  BY <1>16, RestartKeeps
<1>17. CASE TickStep
  BY <1>1, <1>4, <1>5, <1>6, <1>7, <1>8, <1>9, <1>10, <1>11, <1>12, <1>17
  DEF TickStep, RenderFails
<1>18. CASE OpStep
  <2>1. ASSUME NEW g \in Grids, EditSchedule(g) \/ Reorder(g) PROVE NextOrder
    BY <1>3, <2>1 DEF EditSchedule, Reorder
  <2>2. ASSUME NEW e \in Entries, Retarget(e) PROVE NextOrder
    BY <1>3, <2>2 DEF Retarget
  <2>. QED
    BY <1>13, <1>14, <1>15, <1>18, <2>1, <2>2 DEF OpStep
<1>19. CASE OpEnds
  BY <1>1, <1>5, <1>9, <1>10, <1>19 DEF OpEnds, RenderFails
<1>20. ASSUME NEW g \in Grids, HoldElapses(g) \/ LeaseElapses(g) PROVE NextOrder
  BY <1>3, <1>20 DEF HoldElapses, LeaseElapses
<1>21. ASSUME NEW t \in Tasks, Fail(t) PROVE NextOrder
  BY <1>10, <1>21 DEF Fail
<1>. QED
  BY <1>3, <1>16, <1>17, <1>18, <1>19, <1>20, <1>21 DEF Next, vars

-----------------------------------------------------------------------------
(* The rows through every step.                                                *)

Rows == /\ lease \in [Grids -> {"off", "waiting", "due"}]
        /\ hold \in [Grids -> {"none", "live", "over"}]
        /\ home \in [Entries -> Grids \cup {0}]
        /\ pos \in [Entries -> Nat]
        /\ starts \in [Grids -> Nat]
        /\ faults \in 0..MaxFaults

LEMMA RowsStep ==
  ASSUME TypeOK, [Next]_vars
  PROVE  Rows'
<1>1. Rows /\ MaxFaults \in Nat
  BY QueueTickAssumption DEF TypeOK, Rows
<1>2. CASE UNCHANGED <<lease, hold, pool, starts, faults>>
  BY <1>1, <1>2 DEF Rows, pool
<1>3. ASSUME NEW t \in Tasks, CommitShow(t) PROVE Rows'
  <2>1. UNCHANGED <<lease, home, faults>> /\ hold' = [hold EXCEPT ![At(t)] = "live"]
        /\ pos' = [pos EXCEPT ![req[t].entry] = 0]
    BY <1>3 DEF CommitShow
  <2>2. starts' = starts \/ starts' = [starts EXCEPT ![At(t)] = @ + 1]
    BY <1>3 DEF CommitShow
  <2>3. starts' \in [Grids -> Nat]
    BY <1>1, <2>2 DEF Rows
  <2>. QED
    BY <1>1, <2>1, <2>3 DEF Rows
<1>4. ASSUME NEW t \in Tasks, Release(t) PROVE Rows'
  BY <1>1, <1>4 DEF Release, Rows, pool
<1>5. CASE AdvanceLease
  BY <1>1, <1>5 DEF AdvanceLease, Rows, pool
<1>6. CASE TickStep
  <2>1. CASE BeginTick \/ FindDue \/ StartDisplay \/ SkipDisplay \/ EndTick
    BY <1>2, <2>1 DEF BeginTick, FindDue, StartDisplay, SkipDisplay, EndTick
  <2>2. CASE RenderFails(Tick)
    BY <1>2, <2>2 DEF RenderFails, Abort
  <2>. QED
    BY <1>3, <1>4, <1>5, <1>6, <2>1, <2>2 DEF TickStep, Tasks
<1>7. CASE OpStep
  <2>1. ASSUME NEW g \in Grids, ShowNext(g) \/ BeginRelease(g) PROVE Rows'
    BY <1>2, <2>1 DEF ShowNext, BeginRelease
  <2>2. ASSUME NEW g \in Grids, EditSchedule(g) PROVE Rows'
    BY <1>1, <2>2 DEF EditSchedule, Rows, pool
  <2>3. ASSUME NEW g \in Grids, Reorder(g) PROVE Rows'
    <3>1. PICK s \in SetToSeqs(Fresh(g)) :
             pos' = [e \in Entries |-> IF e \in Fresh(g) THEN Place(s, e) - 1 ELSE pos[e]]
      BY <2>3 DEF Reorder
    <3>2. IsFiniteSet(Fresh(g))
      BY QueueTickAssumption, FS_Subset DEF Fresh, Pool
    <3>3. ASSUME NEW e \in Fresh(g) PROVE Place(s, e) - 1 \in Nat
      <4>1. Place(s, e) \in Nat \ {0}
        BY <3>1, <3>2, PlaceInOrder
      <4>. QED
        BY <4>1
    <3>4. pos' \in [Entries -> Nat]
      BY <1>1, <3>1, <3>3 DEF Rows
    <3>. QED
      BY <1>1, <2>3, <3>4 DEF Reorder, Rows
  <2>4. ASSUME NEW g \in Grids, NEW e \in Entries, ShowNow(g, e) PROVE Rows'
    BY <1>2, <2>4 DEF ShowNow
  <2>5. ASSUME NEW e \in Entries, Retarget(e) PROVE Rows'
    BY <1>1, <2>5 DEF Retarget, Rows
  <2>. QED
    BY <1>7, <2>1, <2>2, <2>3, <2>4, <2>5 DEF OpStep
<1>8. CASE OpEnds
  <2>1. CASE RenderFails(Op)
    BY <1>2, <2>1 DEF RenderFails, Abort
  <2>. QED
    BY <1>3, <1>4, <1>8, <2>1 DEF OpEnds, Tasks
<1>9. ASSUME NEW g \in Grids, HoldElapses(g) \/ LeaseElapses(g) PROVE Rows'
  BY <1>1, <1>9 DEF HoldElapses, LeaseElapses, Rows, pool
<1>10. ASSUME NEW t \in Tasks, Fail(t) PROVE Rows'
  BY <1>1, <1>10 DEF Fail, Abort, Rows, pool
<1>11. CASE Restart
  BY <1>1, <1>11 DEF Restart, Rows, pool
<1>. QED
  BY <1>2, <1>6, <1>7, <1>8, <1>9, <1>10, <1>11 DEF Next, vars, pool

-----------------------------------------------------------------------------
(* The starts of an occurrence through every step.                             *)

(* Nothing is between the two commits, before a step or after it.              *)
LEMMA StartsElsewhere ==
  ASSUME QueueInv, req[Tick].step # "lease", req'[Tick].step # "lease", faults' \in Nat,
         UNCHANGED starts, faults <= faults'
  PROVE  StartsOK'
<1>1. \A g \in Grids : starts[g] \in Nat /\ starts[g] <= faults + 0 /\ faults \in Nat
  BY DEF QueueInv, StartsOK, Between, TypeOK
<1>2. \A g \in Grids : starts'[g] <= faults' + 0
  BY <1>1
<1>. QED
  BY <1>2 DEF StartsOK, Between

(* The tick stays where it is.                                                 *)
LEMMA StartsWhileAnotherActs ==
  ASSUME QueueInv, req'[Tick] = req[Tick], faults' \in Nat, faults <= faults',
         \A g \in Grids : \/ starts'[g] = starts[g] /\ lease'[g] = lease[g]
                          \/ starts'[g] = 0 /\ lease'[g] # "due"
  PROVE  StartsOK'
<1>1. \A g \in Grids : Between(g)' <=> Between(g)
  BY DEF Between, At
<1>2. ASSUME NEW g \in Grids
      PROVE  /\ starts'[g] <= faults' + IF Between(g) THEN 1 ELSE 0
             /\ Between(g) /\ lease'[g] = "due" => starts'[g] > 0
  <2>1. /\ starts[g] \in Nat /\ faults \in Nat
        /\ starts[g] <= faults + IF Between(g) THEN 1 ELSE 0
        /\ Between(g) /\ lease[g] = "due" => starts[g] > 0
    BY DEF QueueInv, StartsOK, TypeOK
  <2>. QED
    BY <2>1
<1>. QED
  BY <1>1, <1>2 DEF StartsOK

LEMMA CommitShowStarts ==
  ASSUME QueueInv, CommitShow(Tick)
  PROVE  StartsOK'
<1>1. /\ req' = [req EXCEPT ![Tick].step = "lease"] /\ starts' = [starts EXCEPT ![At(Tick)] = @ + 1]
      /\ UNCHANGED faults /\ req[Tick].step = "show"
  BY QueueTickAssumption DEF CommitShow
<1>2. req'[Tick].step = "lease" /\ req'[Tick].todo = req[Tick].todo
  BY <1>1 DEF QueueInv, TypeOK, Request, Tasks
<1>3. \A g \in Grids : Between(g)' <=> At(Tick) = g
  BY <1>2 DEF Between, At
<1>4. ASSUME NEW g \in Grids
      PROVE  /\ starts'[g] <= faults' + IF At(Tick) = g THEN 1 ELSE 0
             /\ At(Tick) = g => starts'[g] > 0
  <2>1. starts[g] \in Nat /\ faults \in Nat /\ starts[g] <= faults + 0 /\ starts \in [Grids -> Nat]
    BY <1>1 DEF QueueInv, StartsOK, Between, TypeOK
  <2>. QED
    BY <1>1, <2>1
<1>. QED
  BY <1>3, <1>4 DEF StartsOK

LEMMA AdvanceLeaseStarts ==
  ASSUME QueueInv, AdvanceLease
  PROVE  StartsOK'
<1>1. /\ req[Tick].step = "lease" /\ UNCHANGED faults /\ starts' = [starts EXCEPT ![At(Tick)] = 0]
      /\ req' = [req EXCEPT ![Tick] = [Idle EXCEPT !.step = "start",
                                                   !.todo = req[Tick].todo \ {At(Tick)}]]
  BY DEF AdvanceLease
<1>2. req'[Tick].step # "lease"
  BY <1>1 DEF QueueInv, TypeOK, Tasks, Idle
<1>3. ASSUME NEW g \in Grids PROVE starts'[g] <= faults' + 0
  <2>1. /\ starts[g] \in Nat /\ faults \in Nat /\ starts \in [Grids -> Nat]
        /\ g # At(Tick) => starts[g] <= faults + 0
    BY DEF QueueInv, StartsOK, Between, TypeOK
  <2>. QED
    BY <1>1, <2>1
<1>. QED
  BY <1>2, <1>3 DEF StartsOK, Between

LEMMA StartsStep ==
  ASSUME QueueInv, [Next]_vars
  PROVE  StartsOK'
<1>1. /\ Tick \in Tasks /\ Op \in Tasks /\ Tick # Op /\ req \in [Tasks -> Request]
      /\ faults \in Nat /\ lease \in [Grids -> {"off", "waiting", "due"}] /\ starts \in [Grids -> Nat]
      /\ Idle.step = "idle"
  BY QueueTickAssumption DEF QueueInv, TypeOK, Tasks, Idle
<1>2. CASE TickStep
  <2>1. CASE BeginTick \/ Release(Tick) \/ FindDue \/ StartDisplay \/ SkipDisplay
             \/ RenderFails(Tick) \/ EndTick
    <3>1. UNCHANGED <<starts, faults>> /\ req[Tick].step # "lease"
      BY <1>1, <2>1 DEF BeginTick, Release, FindDue, StartDisplay, SkipDisplay, RenderFails, Abort, EndTick
    <3>2. CASE BeginTick \/ Release(Tick) \/ FindDue \/ SkipDisplay
      <4>1. req'[Tick].step # "lease"
        BY <1>1, <3>2 DEF BeginTick, Release, FindDue, SkipDisplay, Request
      <4>. QED
        BY <1>1, <3>1, <4>1, StartsElsewhere
    <3>3. CASE StartDisplay
      <4>1. req'[Tick].step # "lease"
        BY <1>1, <3>3 DEF StartDisplay, LoadShow
      <4>. QED
        BY <1>1, <3>1, <4>1, StartsElsewhere
    <3>4. CASE RenderFails(Tick) \/ EndTick
      <4>1. req'[Tick].step # "lease"
        BY <1>1, <3>4 DEF RenderFails, Abort, EndTick
      <4>. QED
        BY <1>1, <3>1, <4>1, StartsElsewhere
    <3>. QED
      BY <2>1, <3>2, <3>3, <3>4
  <2>. QED
    BY <1>2, <2>1, CommitShowStarts, AdvanceLeaseStarts DEF TickStep
<1>3. CASE OpStep
  <2>1. UNCHANGED faults
    BY <1>3 DEF OpStep, ShowNext, BeginRelease, EditSchedule, Reorder, ShowNow, Retarget
  <2>2. ASSUME NEW g \in Grids, EditSchedule(g) PROVE StartsOK'
    <3>1. PICK s \in {"off", "waiting"} : lease' = [lease EXCEPT ![g] = s]
      BY <2>2 DEF EditSchedule
    <3>2. UNCHANGED req /\ starts' = [starts EXCEPT ![g] = 0]
      BY <2>2 DEF EditSchedule
    <3>3. \A h \in Grids : \/ starts'[h] = starts[h] /\ lease'[h] = lease[h]
                           \/ starts'[h] = 0 /\ lease'[h] # "due"
      BY <1>1, <3>1, <3>2
    <3>. QED
      BY <1>1, <2>1, <3>2, <3>3, StartsWhileAnotherActs
  <2>3. CASE UNCHANGED <<starts, lease>> /\ req'[Tick] = req[Tick]
    BY <1>1, <2>1, <2>3, StartsWhileAnotherActs
  <2>4. ASSUME NEW g \in Grids, NEW e \in Entries, NEW q \in BOOLEAN, LoadShow(Op, g, e, q)
        PROVE  req'[Tick] = req[Tick]
    BY <1>1, <2>4 DEF LoadShow
  <2>5. ASSUME NEW g \in Grids, ShowNext(g) PROVE StartsOK'
    BY <2>3, <2>4, <2>5 DEF ShowNext
  <2>6. ASSUME NEW g \in Grids, BeginRelease(g) PROVE StartsOK'
    BY <1>1, <2>3, <2>6 DEF BeginRelease
  <2>7. ASSUME NEW g \in Grids, Reorder(g) PROVE StartsOK'
    BY <2>3, <2>7 DEF Reorder
  <2>8. ASSUME NEW g \in Grids, NEW e \in Entries, ShowNow(g, e) PROVE StartsOK'
    BY <2>3, <2>4, <2>8 DEF ShowNow
  <2>9. ASSUME NEW e \in Entries, Retarget(e) PROVE StartsOK'
    BY <2>3, <2>9 DEF Retarget
  <2>. QED
    BY <1>3, <2>2, <2>5, <2>6, <2>7, <2>8, <2>9 DEF OpStep
<1>4. CASE OpEnds
  <2>1. UNCHANGED <<starts, lease, faults>> /\ req'[Tick] = req[Tick]
    <3>1. CASE Release(Op)
      BY <1>1, <3>1 DEF Release
    <3>2. CASE CommitShow(Op)
      BY <1>1, <3>2 DEF CommitShow
    <3>3. CASE RenderFails(Op)
      BY <1>1, <3>3 DEF RenderFails, Abort
    <3>. QED
      BY <1>4, <3>1, <3>2, <3>3 DEF OpEnds
  <2>. QED
    BY <1>1, <2>1, StartsWhileAnotherActs
<1>5. ASSUME NEW g \in Grids, HoldElapses(g) \/ LeaseElapses(g) PROVE StartsOK'
  <2>1. UNCHANGED <<starts, faults, req>> /\ req[Tick].step # "lease"
    BY <1>1, <1>5 DEF HoldElapses, LeaseElapses
  <2>. QED
    BY <1>1, <2>1, StartsElsewhere
<1>6. ASSUME NEW t \in Tasks, Fail(t) PROVE StartsOK'
  <2>1. /\ UNCHANGED <<starts, lease>> /\ faults' = faults + 1
        /\ req' = [req EXCEPT ![t] = Idle]
    BY <1>6 DEF Fail, Abort
  <2>2. faults' \in Nat /\ faults <= faults' /\ \A g \in Grids : starts[g] <= faults'
    <3>1. \A g \in Grids : starts[g] \in Nat /\ (starts[g] <= faults + 1 \/ starts[g] <= faults + 0)
      BY <1>1 DEF QueueInv, StartsOK
    <3>. QED
      BY <1>1, <2>1, <3>1
  <2>3. CASE t = Tick
    <3>1. req'[Tick].step # "lease"
      BY <1>1, <2>1, <2>3
    <3>2. \A g \in Grids : starts'[g] <= faults' + 0
      BY <1>1, <2>1, <2>2
    <3>. QED
      BY <3>1, <3>2 DEF StartsOK, Between
  <2>4. CASE t # Tick
    BY <1>1, <2>1, <2>2, <2>4, StartsWhileAnotherActs
  <2>. QED
    BY <2>3, <2>4
<1>7. CASE Restart
  <2>1. UNCHANGED starts /\ faults' = faults + 1 /\ req' = [t \in Tasks |-> Idle]
    BY <1>7 DEF Restart
  <2>2. req'[Tick].step # "lease"
    BY <1>1, <2>1
  <2>3. \A g \in Grids : starts[g] \in Nat /\ (starts[g] <= faults + 1 \/ starts[g] <= faults + 0)
    BY <1>1 DEF QueueInv, StartsOK
  <2>4. \A g \in Grids : starts'[g] <= faults' + 0
    BY <1>1, <2>1, <2>3
  <2>. QED
    BY <2>2, <2>4 DEF StartsOK, Between
<1>8. CASE UNCHANGED vars
  <2>1. UNCHANGED <<starts, lease, faults, req>>
    BY <1>8 DEF vars
  <2>. QED
    BY <1>1, <2>1, StartsWhileAnotherActs
<1>. QED
  BY <1>2, <1>3, <1>4, <1>5, <1>6, <1>7, <1>8 DEF Next

-----------------------------------------------------------------------------
(* The invariant and what follows from it.                                     *)

LEMMA QueueInvInit == Init => QueueInv
<1>. SUFFICES ASSUME Init PROVE QueueInv
  OBVIOUS
<1>1. Idle \in Request /\ Idle.step = "idle" /\ MaxFaults \in Nat
  BY QueueTickAssumption DEF Idle, Request
<1>2. TypeOK
  BY <1>1 DEF Init, TypeOK
<1>3. OrderOK
  BY <1>1 DEF Init, OrderOK, OneEach, Contains
<1>4. StartsOK
  <2>1. Tick \in Tasks /\ \A g \in Grids : starts[g] = 0 /\ ~Between(g)
    BY <1>1 DEF Init, Between, Tasks
  <2>2. faults = 0
    BY DEF Init
  <2>. QED
    BY <2>1, <2>2 DEF StartsOK
<1>. QED
  BY <1>2, <1>3, <1>4 DEF QueueInv

LEMMA QueueInvStep == QueueInv /\ [Next]_vars => QueueInv'
<1>. SUFFICES ASSUME QueueInv, [Next]_vars PROVE QueueInv'
  OBVIOUS
<1>1. NextOrder /\ Rows' /\ StartsOK'
  BY OrderStep, RowsStep, StartsStep DEF QueueInv
<1>2. TypeOK'
  BY <1>1 DEF NextOrder, Rows, TypeOK, Spots
<1>. QED
  BY <1>1, <1>2 DEF QueueInv, NextOrder

LEMMA QueueInvHolds == Spec => []QueueInv
<1>. QED
  BY QueueInvInit, QueueInvStep, PTL DEF Spec

(* The variables keep their types: the tick and the requests work on grid rows *)
(* and entries only, and a reordering leaves no negative position.             *)
THEOREM TypeCorrect == Spec => []TypeOK
<1>1. QueueInv => TypeOK
  BY DEF QueueInv
<1>. QED
  BY <1>1, QueueInvHolds, PTL

(* One occurrence of a schedule starts one display, and one more for each      *)
(* failure or restart that came between a display's commit and the lease's.    *)
THEOREM OneStartEach == Spec => []OneDisplayPerOccurrence
<1>1. ASSUME QueueInv PROVE OneDisplayPerOccurrence
  <2>1. ASSUME NEW g \in Grids PROVE starts[g] <= 1 + faults
    <3>1. starts[g] \in Nat /\ faults \in Nat
      BY <1>1 DEF QueueInv, TypeOK
    <3>2. starts[g] <= faults + 1 \/ starts[g] <= faults + 0
      BY <1>1 DEF QueueInv, StartsOK
    <3>. QED
      BY <3>1, <3>2
  <2>. QED
    BY <2>1 DEF OneDisplayPerOccurrence
<1>. QED
  BY <1>1, QueueInvHolds, PTL

(* A due occurrence passes only by a display that was started for it or an     *)
(* edit of its schedule: no failure, restart or empty queue loses it.          *)
THEOREM OccurrencesStay == Spec => NoOccurrenceLost
<1>. DEFINE Passes == \A g \in Grids : lease[g] = "due" /\ lease'[g] # "due"
                                         => starts[g] > 0 \/ EditSchedule(g)
<1>1. ASSUME QueueInv, Next PROVE Passes
  <2>. SUFFICES ASSUME NEW g \in Grids, lease[g] = "due", lease'[g] # "due"
                PROVE  starts[g] > 0 \/ EditSchedule(g)
    OBVIOUS
  <2>1. lease \in [Grids -> {"off", "waiting", "due"}]
    BY <1>1 DEF QueueInv, TypeOK
  <2>2. CASE AdvanceLease
    <3>1. g = At(Tick) /\ req[Tick].step = "lease"
      BY <2>1, <2>2 DEF AdvanceLease
    <3>. QED
      BY <1>1, <3>1 DEF QueueInv, StartsOK, Between
  <2>3. ASSUME NEW h \in Grids, EditSchedule(h) PROVE EditSchedule(g)
    <3>1. PICK s \in {"off", "waiting"} : lease' = [lease EXCEPT ![h] = s]
      BY <2>3 DEF EditSchedule
    <3>2. h = g
      BY <2>1, <3>1
    <3>. QED
      BY <2>3, <3>2
  <2>4. ASSUME NEW h \in Grids, LeaseElapses(h) PROVE FALSE
    BY <2>1, <2>4 DEF LeaseElapses
  <2>5. CASE TickStep
    BY <2>2, <2>5 DEF TickStep, BeginTick, Release, FindDue, StartDisplay, SkipDisplay,
                      CommitShow, RenderFails, Abort, EndTick
  <2>6. CASE OpStep
    BY <2>3, <2>6 DEF OpStep, ShowNext, BeginRelease, Reorder, ShowNow, Retarget
  <2>7. CASE OpEnds
    BY <2>7 DEF OpEnds, Release, CommitShow, RenderFails, Abort
  <2>8. CASE \E h \in Grids : HoldElapses(h)
    BY <2>8 DEF HoldElapses
  <2>9. CASE (\E t \in Tasks : Fail(t)) \/ Restart
    BY <2>9 DEF Fail, Abort, Restart
  <2>. QED
    BY <1>1, <2>4, <2>5, <2>6, <2>7, <2>8, <2>9 DEF Next
<1>2. Spec => [][QueueInv /\ Next]_vars
  BY QueueInvHolds, PTL DEF Spec
<1>3. QueueInv /\ Next => Passes
  BY <1>1
<1>4. [QueueInv /\ Next]_vars => [Passes]_vars
  BY <1>3
<1>. QED
  BY <1>2, <1>4, PTL DEF NoOccurrenceLost

(* At any time the queue of a grid has one next entry at most: positions that  *)
(* collide are told apart by the creation order, and no two entries share a    *)
(* place among the shown ones, whichever shows were committed or rolled back.  *)
THEOREM NextIsOne == Spec => [](\A g \in Grids, e, f \in Entries : IsNext(g, e) /\ IsNext(g, f) => e = f)
<1>1. ASSUME QueueInv, NEW g \in Grids, NEW e \in Entries, NEW f \in Entries, IsNext(g, e), IsNext(g, f)
      PROVE  e = f
  <2>1. CASE Fresh(g) # {}
    <3>1. e # f => Ahead(e, f) /\ Ahead(f, e)
      BY <1>1, <2>1 DEF IsNext
    <3>2. pos[e] \in Nat /\ pos[f] \in Nat /\ e \in Nat /\ f \in Nat
      BY <1>1, QueueTickAssumption DEF QueueInv, TypeOK
    <3>. QED
      BY <3>1, <3>2 DEF Ahead
  <2>2. CASE Fresh(g) = {}
    <3>1. e \in Pool(g) /\ f \in Pool(g)
      BY <1>1, <2>2 DEF IsNext
    <3>2. Contains(recent, e) /\ Contains(recent, f)
      BY <2>2, <3>1 DEF Fresh
    <3>3. recent \in Seq(Spots)
      BY <1>1 DEF QueueInv, TypeOK, Spots
    <3>4. /\ Place(recent, e) \in 1..Len(recent) /\ recent[Place(recent, e)] = e
          /\ Place(recent, f) \in 1..Len(recent) /\ recent[Place(recent, f)] = f
      BY <3>2, <3>3, WithoutProperties
    <3>5. Place(recent, e) <= Place(recent, f) /\ Place(recent, f) <= Place(recent, e)
      BY <1>1, <2>2, <3>1 DEF IsNext
    <3>6. Len(recent) \in Nat
      BY <3>3, LenProperties
    <3>7. \A a, b \in 1..Len(recent) : a <= b /\ b <= a => a = b
      BY <3>6
    <3>8. Place(recent, e) = Place(recent, f)
      BY <3>4, <3>5, <3>7, Zenon
    <3>. QED
      BY <3>4, <3>8, Zenon
  <2>. QED
    BY <2>1, <2>2
<1>2. QueueInv => \A g \in Grids, e, f \in Entries : IsNext(g, e) /\ IsNext(g, f) => e = f
  BY <1>1
<1>. QED
  BY <1>2, QueueInvHolds, PTL
=============================================================================
