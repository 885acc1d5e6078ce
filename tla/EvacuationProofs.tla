-------------------------- MODULE EvacuationProofs --------------------------
(***************************************************************************)
(* Proofs about Evacuation, for every size of the spaces, number of edens  *)
(* and number of steps of the program.                                     *)
(*                                                                         *)
(* The argument has three layers, each an invariant that uses the ones     *)
(* before it.  Shape holds whichever eden is collected: types, and the     *)
(* remembered set together with what is still to be scanned.  Covered is   *)
(* about references: every reference into the eden that is being collected *)
(* comes from a field that is still to be scanned or leads to an object    *)
(* that stays.  SameGraph is about what the program will see: read through *)
(* the forwarding pointers, the heap is all the time the graph that it was *)
(* when the collection began.                                              *)
(***************************************************************************)
EXTENDS Evacuation, TLAPS, WellFoundedInduction

\* The objects that failed to be promoted: forwarded to themselves.
Failed == {b \in DOMAIN forwardee : forwardee[b] = b}

\* Layer 1.
Shape ==
  /\ TypeOK
  /\ stack \in Seq(Heap)
  /\ preserved \subseteq used \cap Failed
  /\ ~Mutating => scan \cap Eden(id) = {}
  /\ \A b \in DOMAIN forwardee : forwardee[b] \in (used \cap Old) \cup {b}
  /\ Failed # {} => promotion_failed
  /\ \A a \in Old \cap used : ref[a] \in Young \cup TransNew => a \in card \cup scan

\* Layer 2.
Covered ==
  /\ \A a \in Roots \cup used : ref[a] \in used \cup {NULL}
  /\ ~Mutating =>
       /\ DOMAIN forwardee \subseteq used
       /\ \A a \in (Roots \cup used) \ Eden(id) :
            ref[a] \in Eden(id) => a \in scan \/ ref[a] \in Failed
       /\ \A i \in 1 .. Len(stack) : stack[i] \in Failed
       /\ \A a \in Failed :
            ref[a] \in Eden(id) => ref[a] \in Failed \/ \E i \in 1 .. Len(stack) : stack[i] = a

\* The object that stands for b: its copy, once it has been promoted.
Canon(b) == IF b \in DOMAIN forwardee THEN forwardee[b] ELSE b

----------------------------------------------------------------------------
(* Lemmas about the layout of the heap, Min and Walk *)

\* A nonempty set of natural numbers has a least element: the form of induction used here.
LEMMA LeastExists ==
  ASSUME NEW S, S \subseteq Nat, S # {}
  PROVE  \E x \in S : \A y \in S : x <= y
<1>1. PICK x \in S : \A y \in S : ~(<<y, x>> \in OpToRel(<, Nat))
  BY NatLessThanWellFounded, WFMin, Zenon
<1>2. \A y \in S : ~(y < x)
  BY <1>1, Zenon DEF OpToRel
<1> QED
  BY <1>2

\* The place of an allocation, and the next field to scan, are members of the set that Min
\* takes them from.
LEMMA MinIn ==
  ASSUME NEW S, S \subseteq Nat, S # {}
  PROVE  Min(S) \in S
BY Zenon, LeastExists DEF Min

\* The first walks, by the definition of Walk as a recursive function: it exists, and each
\* object on it is found from the one before.
LEMMA WalkDef ==
  ASSUME NEW f, NEW r
  PROVE  Walk(f, r) = [k \in 0 .. Depth |->
                         IF k = 0 THEN f[r]
                         ELSE IF Walk(f, r)[k - 1] = NULL THEN NULL ELSE f[Walk(f, r)[k - 1]]]
<1> DEFINE IsWalk(w, n) == w = [k \in 0 .. n |-> IF k = 0 THEN f[r]
                                  ELSE IF w[k - 1] = NULL THEN NULL ELSE f[w[k - 1]]]
           Bad == {n \in Nat : ~ \E w : IsWalk(w, n)}
<1>1. Bad = {}
  <2> SUFFICES ASSUME Bad # {} PROVE FALSE
    OBVIOUS
  <2>1. Bad \subseteq Nat
    OBVIOUS
  <2>2. PICK n \in Bad : \A m \in Bad : n <= m
    <3> HIDE DEF Bad
    <3> QED
      BY Zenon, <2>1, LeastExists
  <2>3. \A m \in Nat : m < n => \E w : IsWalk(w, m)
    <3> SUFFICES ASSUME NEW m \in Nat, m < n, m \in Bad PROVE FALSE
      BY Zenon
    <3> HIDE DEF Bad
    <3> QED
      BY <2>1, <2>2
  <2>4. CASE n = 0
    <3> DEFINE w == [k \in 0 .. 0 |-> f[r]]
    <3>1. IsWalk(w, 0)
      OBVIOUS
    <3> QED
      BY Zenon, <3>1, <2>4, <2>2
  <2>5. CASE n # 0
    <3>1. n \in Nat /\ n - 1 \in Nat /\ n - 1 < n
      BY <2>5, <2>1
    <3>2. PICK v : IsWalk(v, n - 1)
      BY Zenon, <2>3, <3>1
    <3> DEFINE w == [k \in 0 .. n |-> IF k = n
                       THEN IF v[n - 1] = NULL THEN NULL ELSE f[v[n - 1]]
                       ELSE v[k]]
    <3>3. \A k \in 0 .. n - 1 : w[k] = v[k]
      BY <3>1
    <3>4. \A k \in 0 .. n - 1 : v[k] = IF k = 0 THEN f[r]
                                       ELSE IF v[k - 1] = NULL THEN NULL ELSE f[v[k - 1]]
      BY Zenon, <3>2
    <3>5. \A k \in 0 .. n : w[k] = IF k = 0 THEN f[r]
                                   ELSE IF w[k - 1] = NULL THEN NULL ELSE f[w[k - 1]]
      <4> SUFFICES ASSUME NEW k \in 0 .. n
                   PROVE  w[k] = IF k = 0 THEN f[r]
                                 ELSE IF w[k - 1] = NULL THEN NULL ELSE f[w[k - 1]]
        OBVIOUS
      <4>1. CASE k = n
        BY <4>1, <3>1, <3>3, <2>5
      <4>2. CASE k # n
        <5>1. k \in 0 .. n - 1 /\ (k # 0 => k - 1 \in 0 .. n - 1)
          BY <4>2, <3>1
        <5> HIDE DEF w
        <5> QED
          BY Zenon, <5>1, <3>3, <3>4
      <4> QED
        BY Zenon, <4>1, <4>2
    <3>6. IsWalk(w, n)
      BY Zenon, <3>5
    <3> QED
      BY Zenon, <3>6, <2>2
  <2> QED
    BY Zenon, <2>4, <2>5
<1>2. \E w : IsWalk(w, Depth)
  BY Zenon, <1>1, SizesAssumption DEF Depth
<1>3. Walk(f, r) = CHOOSE w : IsWalk(w, Depth)
  BY Zenon DEF Walk
<1>4. IsWalk(Walk(f, r), Depth)
  BY Zenon, <1>2, <1>3
<1> QED
  BY Zenon, <1>4

\* The two cases of WalkDef.
LEMMA WalkSteps ==
  ASSUME NEW f, NEW r
  PROVE  /\ Walk(f, r)[0] = f[r]
         /\ \A k \in 0 .. Depth : k # 0 =>
              /\ k - 1 \in 0 .. Depth
              /\ Walk(f, r)[k] =
                   IF Walk(f, r)[k - 1] = NULL THEN NULL ELSE f[Walk(f, r)[k - 1]]
<1>1. Depth \in Nat
  BY Zenon, SizesAssumption DEF Depth
<1>2. 0 \in 0 .. Depth /\ \A k \in 0 .. Depth : k # 0 => k - 1 \in 0 .. Depth
  BY <1>1
<1> DEFINE w == Walk(f, r)
<1>3. w = [k \in 0 .. Depth |-> IF k = 0 THEN f[r]
                                ELSE IF w[k - 1] = NULL THEN NULL ELSE f[w[k - 1]]]
  BY WalkDef
<1> HIDE DEF w
<1>4. \A k \in 0 .. Depth : w[k] = IF k = 0 THEN f[r]
                                   ELSE IF w[k - 1] = NULL THEN NULL ELSE f[w[k - 1]]
  BY Zenon, <1>3
<1> USE DEF w
<1> QED
  BY <1>2, <1>4, Zenon

\* A walk stays in a set of objects that the fields do not lead out of.
LEMMA WalkIn ==
  ASSUME NEW f, NEW r, NEW S,
         f[r] \in S, NULL \in S, \A x \in S \ {NULL} : f[x] \in S
  PROVE  \A k \in 0 .. Depth : Walk(f, r)[k] \in S
<1> DEFINE Bad == {k \in 0 .. Depth : Walk(f, r)[k] \notin S}
<1> SUFFICES ASSUME Bad # {} PROVE FALSE
  OBVIOUS
<1>1. Bad \subseteq Nat
  BY SizesAssumption DEF Depth
<1>2. PICK k \in Bad : \A j \in Bad : k <= j
  <2> HIDE DEF Bad
  <2> QED
    BY Zenon, <1>1, LeastExists
<1>3. CASE k = 0
  BY <1>3, <1>2, WalkSteps
<1>4. CASE k # 0
  <2>1. k - 1 \in 0 .. Depth /\ k \in 0 .. Depth
    BY Zenon, <1>4, <1>2, WalkSteps
  <2>2. k - 1 \notin Bad
    BY <1>1, <1>2, <2>1
  <2>3. Walk(f, r)[k - 1] \in S
    BY Zenon, <2>1, <2>2
  <2>4. Walk(f, r)[k] = IF Walk(f, r)[k - 1] = NULL THEN NULL ELSE f[Walk(f, r)[k - 1]]
    BY <2>1, <1>4, WalkSteps
  <2> QED
    BY Zenon, <2>3, <2>4, <1>2
<1> QED
  BY Zenon, <1>3, <1>4

\* If a map takes the fields f to the fields g, it takes the walks over f to those over g.
LEMMA WalkMap ==
  ASSUME NEW f, NEW g, NEW r, NEW S, NEW m,
         f[r] \in S, NULL \in S, \A x \in S \ {NULL} : f[x] \in S,
         g[r] = m[f[r]], m[NULL] = NULL,
         \A x \in S \ {NULL} : m[x] # NULL /\ g[m[x]] = m[f[x]]
  PROVE  \A k \in 0 .. Depth : Walk(f, r)[k] \in S /\ Walk(g, r)[k] = m[Walk(f, r)[k]]
<1> DEFINE F == Walk(f, r)
           G == Walk(g, r)
           Bad == {k \in 0 .. Depth : G[k] # m[F[k]]}
<1>0. \A k \in 0 .. Depth : F[k] \in S
  BY Zenon, WalkIn
<1> SUFFICES ASSUME Bad # {} PROVE FALSE
  BY Zenon, <1>0
<1>1. Bad \subseteq Nat
  BY SizesAssumption DEF Depth
<1>2. PICK k \in Bad : \A j \in Bad : k <= j
  <2> HIDE DEF Bad
  <2> QED
    BY Zenon, <1>1, LeastExists
<1>3. CASE k = 0
  <2>1. F[0] = f[r] /\ G[0] = g[r]
    BY WalkSteps
  <2> QED
    BY Zenon, <2>1, <1>3, <1>2
<1>4. CASE k # 0
  <2>1. k - 1 \in 0 .. Depth /\ k \in 0 .. Depth
    BY Zenon, <1>4, <1>2, WalkSteps
  <2>2. k - 1 \notin Bad
    BY <1>1, <1>2, <2>1
  <2>3. F[k - 1] \in S /\ G[k - 1] = m[F[k - 1]]
    BY Zenon, <2>1, <2>2, <1>0
  <2>4. F[k] = IF F[k - 1] = NULL THEN NULL ELSE f[F[k - 1]]
    BY <2>1, <1>4, WalkSteps
  <2>5. G[k] = IF G[k - 1] = NULL THEN NULL ELSE g[G[k - 1]]
    BY <2>1, <1>4, WalkSteps
  <2>6. G[k] # m[F[k]]
    BY Zenon, <1>2
  <2> HIDE DEF F, G, Bad
  <2>7. CASE F[k - 1] = NULL
    BY Zenon, <2>3, <2>4, <2>5, <2>6, <2>7
  <2>8. CASE F[k - 1] # NULL
    BY Zenon, <2>3, <2>4, <2>5, <2>6, <2>8
  <2> QED
    BY Zenon, <2>7, <2>8
<1> QED
  BY Zenon, <1>3, <1>4

\* Two heaps that agree on such a set S, which they enter at root r.
Agree(f, g, r, S) ==
  /\ NULL \in S /\ f[r] \in S /\ g[r] = f[r]
  /\ \A x \in S \ {NULL} : f[x] \in S /\ g[x] = f[x]

\* They have the same walk.
LEMMA WalkSame ==
  ASSUME NEW f, NEW g, NEW r, NEW S, Agree(f, g, r, S)
  PROVE  \A k \in 0 .. Depth : Walk(f, r)[k] \in S /\ Walk(g, r)[k] = Walk(f, r)[k]
<1> USE DEF Agree
<1> DEFINE F == Walk(f, r)
           G == Walk(g, r)
           Bad == {k \in 0 .. Depth : G[k] # F[k]}
<1>0. \A k \in 0 .. Depth : F[k] \in S
  BY Zenon, WalkIn
<1> SUFFICES ASSUME Bad # {} PROVE FALSE
  BY Zenon, <1>0
<1>1. Bad \subseteq Nat
  BY SizesAssumption DEF Depth
<1>2. PICK k \in Bad : \A j \in Bad : k <= j
  <2> HIDE DEF Bad
  <2> QED
    BY Zenon, <1>1, LeastExists
<1>3. CASE k = 0
  BY <1>2, <1>3, WalkSteps
<1>4. CASE k # 0
  <2>1. k - 1 \in 0 .. Depth /\ k \in 0 .. Depth
    BY Zenon, <1>4, <1>2, WalkSteps
  <2>2. k - 1 \notin Bad
    BY <1>1, <1>2, <2>1
  <2>3. F[k - 1] \in S /\ G[k - 1] = F[k - 1] /\ G[k] # F[k]
    BY Zenon, <1>0, <1>2, <2>1, <2>2
  <2>4. F[k] = IF F[k - 1] = NULL THEN NULL ELSE f[F[k - 1]]
    BY <2>1, <1>4, WalkSteps
  <2>5. G[k] = IF G[k - 1] = NULL THEN NULL ELSE g[G[k - 1]]
    BY <2>1, <1>4, WalkSteps
  <2> HIDE DEF F, G, Bad
  <2> QED
    BY Zenon, <2>3, <2>4, <2>5
<1> QED
  BY Zenon, <1>3, <1>4

\* The spaces are disjoint and lie in the order in which the code compares addresses.
LEMMA Layout ==
  /\ Roots \cup Heap \subseteq Nat /\ NULL \notin Roots \cup Heap /\ Roots \cap Heap = {}
  /\ NoEden \notin Edens
  /\ \A e \in Edens : Eden(e) \subseteq TransNew
  /\ \A e, d \in Edens : e # d => Eden(e) \cap Eden(d) = {}
  /\ Young \cap TransNew = {} /\ (Young \cup TransNew) \cap Old = {}
  /\ \A x \in Young \cup TransNew : x <= OldBottom
<1> USE SizesAssumption
<1>1. \A e \in Edens : e \in Nat /\ e + 1 <= MAX_TRANSEDEN
  BY DEF Edens
<1>2. \A i, j \in Nat : i + 1 <= j => i * NEden + NEden <= j * NEden
  <2> TAKE i, j \in Nat
  <2> HAVE i + 1 <= j
  <2>1. PICK k \in Nat : j = i + 1 + k
    <3>1. j - (i + 1) \in Nat /\ j = i + 1 + (j - (i + 1))
      OBVIOUS
    <3> QED
      BY Zenon, <3>1
  <2>2. j * NEden = i * NEden + NEden + k * NEden /\ k * NEden \in Nat /\ i * NEden \in Nat
    BY <2>1
  <2> QED
    BY <2>2
<1>3. \A i \in Nat : i * NEden \in Nat
  OBVIOUS
<1>4. \A e \in Edens : e * NEden \in Nat /\ e * NEden + NEden <= MAX_TRANSEDEN * NEden
  BY <1>1, <1>2
<1>5. \A e \in Edens : \A x \in Eden(e) :
        x \in Nat /\ x > NRoots + NYoung /\ x <= OldBottom
  <2> SUFFICES ASSUME NEW e \in Edens, NEW x \in Eden(e)
               PROVE  x \in Nat /\ x > NRoots + NYoung /\ x <= OldBottom
    OBVIOUS
  <2>1. e * NEden \in Nat /\ e * NEden + NEden <= MAX_TRANSEDEN * NEden
        /\ MAX_TRANSEDEN * NEden \in Nat
    BY Zenon, <1>3, <1>4
  <2> QED
    BY <2>1 DEF Eden, EdenBottom, OldBottom
<1>6. \A x \in TransNew : x \in Nat /\ x > NRoots + NYoung /\ x <= OldBottom
  BY Zenon, <1>5 DEF TransNew
<1>7. OldBottom \in Nat /\ OldBottom >= NRoots + NYoung
  BY <1>3 DEF OldBottom
<1>8. \A e, d \in Edens : e # d => Eden(e) \cap Eden(d) = {}
  <2> SUFFICES ASSUME NEW e \in Edens, NEW d \in Edens, e < d, NEW x \in Eden(e), x \in Eden(d)
               PROVE  FALSE
    BY <1>1
  <2>1. e * NEden \in Nat /\ d * NEden \in Nat /\ e * NEden + NEden <= d * NEden
    BY <1>1, <1>2
  <2> QED
    BY <2>1 DEF Eden, EdenBottom
<1>9. \A e \in Edens : Eden(e) \subseteq TransNew
  BY Zenon DEF TransNew
<1>10. \A x \in Young : x \in Nat /\ x > NRoots /\ x <= NRoots + NYoung
  BY DEF Young
<1>11. \A x \in Old : x \in Nat /\ x > OldBottom
  BY <1>7 DEF Old
<1>12. \A x \in Heap : x \in Nat /\ x > NRoots
  BY <1>6, <1>7, <1>10, <1>11 DEF Heap
<1>13. NoEden \notin Edens
  BY DEF NoEden, Edens
<1>14. \A x \in Roots : x \in Nat /\ x > 0 /\ x <= NRoots
  BY DEF Roots
<1>15. Roots \cup Heap \subseteq Nat /\ NULL \notin Roots \cup Heap /\ Roots \cap Heap = {}
  BY <1>12, <1>14 DEF NULL
<1>16. Young \cap TransNew = {} /\ (Young \cup TransNew) \cap Old = {}
  BY <1>6, <1>7, <1>10, <1>11
<1>17. \A x \in Young \cup TransNew : x <= OldBottom
  BY <1>6, <1>7, <1>10
<1> QED
  BY Zenon, <1>8, <1>9, <1>13, <1>15, <1>16, <1>17

----------------------------------------------------------------------------
(* Layer 1: types, and the remembered set *)

\* Outside a collection nothing is forwarded.
LEMMA NothingForwarded ==
  ASSUME TypeOK, Mutating
  PROVE  /\ DOMAIN forwardee = {} /\ Failed = {} /\ preserved = {}
         /\ scan = {} /\ stack = <<>> /\ \A b : Canon(b) = b
BY DEF TypeOK, Failed, Canon

\* What the closures of a collection take up next: the field of an object on the stack, or
\* a field that refers into the eden.
LEMMA NextFieldIn ==
  ASSUME Shape, id # NoEden, MoreToScan, stack = <<>> => scan # {} /\ scan = IntoEden
  PROVE  /\ id \in Edens
         /\ NextField \in Roots \cup Heap
         /\ stack # <<>> =>
              /\ NextField = Head(stack) /\ NextField \in Eden(id)
              /\ Tail(stack) \in Seq(Heap)
              /\ \A i \in 1 .. Len(Tail(stack)) : /\ i + 1 \in 1 .. Len(stack)
                                                  /\ Tail(stack)[i] = stack[i + 1]
                                                  /\ Tail(stack)[i] \in Eden(id)
         /\ stack = <<>> => NextField \in scan /\ ref[NextField] \in Eden(id)
<1>1. id \in Edens
  BY Zenon DEF Shape, TypeOK
<1>2. CASE stack # <<>>
  <2>1. stack \in Seq(Heap) /\ Head(stack) = stack[1] /\ 1 \in 1 .. Len(stack)
        /\ DOMAIN stack = 1 .. Len(stack)
    BY <1>2 DEF Shape
  <2>2. Head(stack) \in Eden(id) /\ \A i \in 1 .. Len(stack) : stack[i] \in Eden(id)
    BY <2>1 DEF Shape, TypeOK, Mutating
  <2>3. Tail(stack) \in Seq(Heap) /\ Len(Tail(stack)) = Len(stack) - 1
        /\ \A i \in 1 .. Len(Tail(stack)) : i + 1 \in 1 .. Len(stack) /\ Tail(stack)[i] = stack[i + 1]
    BY <1>2, <2>1
  <2>4. \A i \in 1 .. Len(Tail(stack)) : Tail(stack)[i] \in Eden(id)
    BY Zenon, <2>2, <2>3
  <2>5. NextField = Head(stack) /\ NextField \in Roots \cup Heap
    BY Zenon, <1>1, <1>2, <2>2, Layout DEF NextField, Heap
  <2> QED
    BY <1>1, <1>2, <2>2, <2>3, <2>4, <2>5, Zenon
<1>3. CASE stack = <<>>
  <2>1. scan # {} /\ scan = IntoEden /\ scan \subseteq Roots \cup Heap
    BY Zenon, <1>3 DEF Shape, TypeOK
  <2>2. Min(IntoEden) \in IntoEden
    BY Zenon, <2>1, MinIn, Layout
  <2> QED
    BY Zenon, <1>1, <1>3, <2>1, <2>2 DEF NextField, IntoEden
<1> QED
  BY Zenon, <1>2, <1>3

\* Allocation keeps Shape: the new object is on a dirty card if it is old.
LEMMA AllocateShape ==
  ASSUME Shape, NEW space, space \subseteq Heap, NEW r \in Roots, Allocate(space, r)
  PROVE  Shape'
<1> DEFINE a == Min(space \ used)
<1>1. a \in space /\ a \in Heap /\ a \notin used
  BY MinIn, Layout DEF Allocate
<1>2. /\ Mutating /\ steps < MaxSteps /\ steps' = steps + 1
      /\ used' = used \cup {a}
      /\ ref' = [ref EXCEPT ![a] = ref[r], ![r] = a]
      /\ hashed' = hashed \cup {a}
      /\ card' = IF a \in Old THEN card \cup {a} ELSE card
      /\ UNCHANGED <<state, gc>>
  BY Zenon DEF Allocate
<1> HIDE DEF a
<1>3. TypeOK'
  <2>1. steps' \in 0 .. MaxSteps
    BY <1>2, SizesAssumption DEF Shape, TypeOK
  <2>2. ref' \in [Roots \cup Heap -> Heap \cup {NULL}]
    BY <1>1, <1>2 DEF Shape, TypeOK
  <2>3. used' \subseteq Heap /\ hashed' \subseteq used' /\ card' \subseteq Old
    BY <1>1, <1>2 DEF Shape, TypeOK
  <2> QED
    BY Zenon, <2>1, <2>2, <2>3, <1>2, NothingForwarded DEF Shape, TypeOK, gc, Mutating
<1>4. \A x \in Old \cap used' : ref'[x] \in Young \cup TransNew => x \in card' \cup scan'
  <2> SUFFICES ASSUME NEW x \in Old, x \in used', ref'[x] \in Young \cup TransNew
               PROVE  x \in card'
    OBVIOUS
  <2>1. x \in Heap /\ x # r /\ x \in DOMAIN ref
    BY Layout DEF Heap, Shape, TypeOK
  <2>2. CASE x = a
    BY Zenon, <1>2, <2>2
  <2>3. CASE x # a
    BY Zenon, <1>2, <2>1, <2>3, NothingForwarded DEF Shape
  <2> QED
    BY Zenon, <2>2, <2>3
<1> QED
  BY Zenon, <1>2, <1>3, <1>4, NothingForwarded DEF Shape, gc, Mutating, Failed

\* A store keeps Shape, by its post-barrier.
LEMMA StoreShape ==
  ASSUME Shape, NEW a \in DOMAIN ref, NEW b \in Heap \cup {NULL}, Store(a, b)
  PROVE  Shape'
<1>1. TypeOK'
  <2>1. steps' \in 0 .. MaxSteps
    BY SizesAssumption DEF Shape, TypeOK, Store
  <2>2. ref' \in [Roots \cup Heap -> Heap \cup {NULL}] /\ card' \subseteq Old
    BY DEF Shape, TypeOK, Store
  <2> QED
    BY <2>1, <2>2 DEF Shape, TypeOK, gc, Mutating, Store
<1>2. \A x \in Old \cap used' : ref'[x] \in Young \cup TransNew => x \in card' \cup scan'
  <2> SUFFICES ASSUME NEW x \in Old, x \in used, ref'[x] \in Young \cup TransNew
               PROVE  x \in card' \cup scan'
    BY Zenon DEF Store
  <2>1. x \in DOMAIN ref
    BY DEF Heap, Shape, TypeOK
  <2> QED
    BY <2>1 DEF Shape, TypeOK, gc, Store
<1> QED
  BY <1>1, <1>2 DEF Shape, gc, Mutating, Store, Failed

\* The start of a collection keeps Shape: the eden itself is no root.
LEMMA CollectShape ==
  ASSUME Shape, NEW e \in Edens, collectTransEden(e)
  PROVE  Shape'
<1>1. /\ Mutating /\ state' = [state EXCEPT ![e] = "Collecting"] /\ id' = e
      /\ scan' = StrongRoots(state') /\ promotion_failed' = FALSE
      /\ UNCHANGED <<steps, ref, used, hashed, card, stack, forwardee, preserved>>
  BY Zenon DEF collectTransEden
<1>2. DOMAIN forwardee = {} /\ Failed = {} /\ preserved = {} /\ scan = {} /\ stack = <<>>
  BY <1>1, NothingForwarded DEF Shape
<1>3. scan' \subseteq Roots \cup used
  BY Zenon, <1>1 DEF StrongRoots
<1>4. scan' \cap Eden(e) = {}
  <2>1. state'[e] = "Collecting"
    BY <1>1 DEF Shape, TypeOK
  <2>2. NotExcluded(state') \cap Eden(e) = {}
    BY <2>1, Layout DEF NotExcluded
  <2>3. card \subseteq Old
    BY Zenon DEF Shape, TypeOK
  <2> QED
    BY Zenon, <1>1, <2>2, <2>3, Layout DEF StrongRoots, Heap
<1>5. state' \in [Edens -> {"Assigned", "Collectable", "Collecting"}]
  BY Zenon, <1>1 DEF Shape, TypeOK
<1>6. TypeOK'
  BY Zenon, <1>1, <1>2, <1>3, <1>5, Layout DEF Shape, TypeOK, Mutating
<1> QED
  BY Zenon, <1>1, <1>2, <1>4, <1>6 DEF Shape, Mutating, Failed

\* Skipping fields keeps Shape: the barrier takes over from the fields to scan.
LEMMA SkipShape ==
  ASSUME Shape, SkipFields \/ SkipFailed
  PROVE  Shape'
<1>1. CASE SkipFields
  <2>1. /\ id # NoEden /\ scan' = IntoEden
        /\ card' = card \cup {a \in (scan \cap Old) \ IntoEden : ref[a] \in Young \cup TransNew}
        /\ UNCHANGED <<steps, ref, used, hashed, state, id, stack, forwardee, preserved,
                       promotion_failed, before>>
    BY Zenon, <1>1 DEF SkipFields
  <2>2. IntoEden \subseteq scan
    BY DEF IntoEden
  <2>3. TypeOK'
    BY <2>1, <2>2 DEF Shape, TypeOK, Mutating
  <2>4. \A a \in Old \cap used' : ref'[a] \in Young \cup TransNew => a \in card' \cup scan'
    BY Zenon, <2>1 DEF Shape
  <2> QED
    BY <2>1, <2>2, <2>3, <2>4 DEF Shape, Mutating, Failed
<1>2. CASE SkipFailed
  <2>1. /\ id # NoEden /\ stack # <<>> /\ stack' = Tail(stack)
        /\ UNCHANGED <<steps, ref, used, hashed, card, state, id, scan, forwardee, preserved,
                       promotion_failed, before>>
    BY <1>2 DEF SkipFailed
  <2>2. /\ Tail(stack) \in Seq(Heap)
        /\ \A i \in 1 .. Len(Tail(stack)) : Tail(stack)[i] \in Eden(id)
    BY <2>1, NextFieldIn DEF MoreToScan
  <2>3. TypeOK'
    BY <2>1, <2>2 DEF Shape, TypeOK, Mutating
  <2> QED
    BY <2>1, <2>2, <2>3 DEF Shape, Mutating, Failed
<1> QED
  BY <1>1, <1>2

\* do_barrier dirties the card of an old object that refers to a younger generation.
LEMMA BarrierDirties ==
  ASSUME Shape, NEW a, NEW b, do_barrier(a, b)
  PROVE  /\ card \subseteq card' /\ card' \subseteq Old
         /\ a \in Old /\ b \in Young \cup TransNew => a \in card'
<1>1. b \in Young \cup TransNew => b # NULL /\ b <= OldBottom
  BY Layout DEF Heap
<1> QED
  BY <1>1 DEF do_barrier, Shape, TypeOK

\* What the update of field a does, with c the object that its referent was forwarded to.
UpdateAt(a, c) ==
  /\ id \in Edens /\ id # NoEden /\ a \in Roots \cup Heap
  /\ ref[a] \in DOMAIN forwardee /\ c = forwardee[ref[a]] /\ c \in Heap
  /\ ref' = [ref EXCEPT ![a] = c]
  /\ card \subseteq card' /\ card' \subseteq Old
  /\ a \in Old /\ c \in Young \cup TransNew => a \in card'
  /\ scan' \subseteq scan /\ scan \subseteq scan' \cup {a}
  /\ stack' \in Seq(Heap)
  /\ stack # <<>> => a = Head(stack) /\ a \in Eden(id) /\ stack' = Tail(stack)
  /\ stack = <<>> => a \in scan /\ stack' = stack
  /\ \A i \in DOMAIN stack' : stack'[i] \in Eden(id)
  /\ UNCHANGED <<steps, used, hashed, state, id, forwardee, preserved, promotion_failed, before>>

\* Every update has such places.
LEMMA UpdateFacts ==
  ASSUME Shape, UpdateField
  PROVE  \E a, c : UpdateAt(a, c)
<1> DEFINE a == NextField
           c == forwardee[ref[a]]
<1>1. /\ id # NoEden /\ MoreToScan /\ (stack = <<>> => scan # {} /\ scan = IntoEden)
      /\ ref[a] \in DOMAIN forwardee
      /\ ref' = [ref EXCEPT ![a] = c]
      /\ do_barrier(a, c)
      /\ Scanned(a)
      /\ UNCHANGED <<steps, used, hashed, state, id, forwardee, preserved, promotion_failed, before>>
  BY Zenon DEF UpdateField
<1>2. /\ id \in Edens /\ a \in Roots \cup Heap
      /\ stack # <<>> =>
           /\ a = Head(stack) /\ a \in Eden(id)
           /\ Tail(stack) \in Seq(Heap)
           /\ \A i \in 1 .. Len(Tail(stack)) : Tail(stack)[i] \in Eden(id)
      /\ stack = <<>> => a \in scan
  BY Zenon, <1>1, NextFieldIn
<1>3. /\ card \subseteq card' /\ card' \subseteq Old
      /\ a \in Old /\ c \in Young \cup TransNew => a \in card'
  BY <1>1, BarrierDirties
<1>4. c \in Heap
  BY <1>1, <1>2, Layout DEF Shape, TypeOK, Heap, Mutating
<1> HIDE DEF a
<1>5. /\ scan' \subseteq scan /\ scan \subseteq scan' \cup {a} /\ stack' \in Seq(Heap)
      /\ stack # <<>> => stack' = Tail(stack)
      /\ stack = <<>> => stack' = stack
      /\ \A i \in DOMAIN stack' : stack'[i] \in Eden(id)
  <2>1. CASE stack # <<>>
    BY <1>1, <1>2, <2>1 DEF Scanned
  <2>2. CASE stack = <<>>
    BY <1>1, <1>2, <2>2 DEF Scanned
  <2> QED
    BY <2>1, <2>2
<1>6. UpdateAt(a, c)
  BY <1>1, <1>2, <1>3, <1>4, <1>5, Zenon DEF UpdateAt
<1> QED
  BY <1>6, Zenon

\* Updating a field keeps Shape.
LEMMA UpdateShape ==
  ASSUME Shape, UpdateField
  PROVE  Shape'
<1>0. PICK a, c : UpdateAt(a, c)
  BY UpdateFacts, Zenon
<1>1. /\ id \in Edens /\ id # NoEden /\ a \in Roots \cup Heap /\ c \in Heap
      /\ ref' = [ref EXCEPT ![a] = c]
      /\ card \subseteq card' /\ card' \subseteq Old
      /\ a \in Old /\ c \in Young \cup TransNew => a \in card'
      /\ scan' \subseteq scan /\ scan \subseteq scan' \cup {a}
      /\ stack' \in Seq(Heap) /\ \A i \in DOMAIN stack' : stack'[i] \in Eden(id)
      /\ UNCHANGED <<steps, used, hashed, state, id, forwardee, preserved, promotion_failed, before>>
  BY <1>0, Zenon DEF UpdateAt
<1>2. TypeOK'
  <2>1. ref' \in [Roots \cup Heap -> Heap \cup {NULL}]
    BY <1>1 DEF Shape, TypeOK
  <2> QED
    BY <2>1, <1>1 DEF Shape, TypeOK, Mutating
<1>3. \A x \in Old \cap used' : ref'[x] \in Young \cup TransNew => x \in card' \cup scan'
  <2> SUFFICES ASSUME NEW x \in Old, x \in used, ref'[x] \in Young \cup TransNew
               PROVE  x \in card' \cup scan'
    BY <1>1
  <2>1. x \in DOMAIN ref
    BY DEF Heap, Shape, TypeOK
  <2>2. CASE x = a
    BY Zenon, <2>1, <2>2, <1>1
  <2>3. CASE x # a
    BY Zenon, <2>1, <2>3, <1>1 DEF Shape
  <2> QED
    BY <2>2, <2>3
<1> QED
  BY <1>1, <1>2, <1>3 DEF Shape, Mutating, Failed

\* What a promotion does, with the places it involves: the field a, the object b, the copy n.
PromoteAt(a, b, n) ==
  /\ id \in Edens /\ id # NoEden
  /\ b = ref[a] /\ a \in (Roots \cup Heap) \ {n}
  /\ n \in Old /\ n \notin used
  /\ b \in Eden(id) \ DOMAIN forwardee
  /\ used' = used \cup {n}
  /\ ref' = [ref EXCEPT ![a] = n, ![n] = ref[b]]
  /\ hashed' = (hashed \ {b}) \cup (IF b \in hashed THEN {n} ELSE {})
  /\ forwardee' = [x \in DOMAIN forwardee \cup {b} |-> IF x = b THEN n ELSE forwardee[x]]
  /\ scan' \subseteq scan \cup {n} /\ scan \cup {n} \subseteq scan' \cup {a}
  /\ stack' \in Seq(Heap)
  /\ stack # <<>> => a = Head(stack) /\ a \in Eden(id) /\ stack' = Tail(stack)
  /\ stack = <<>> => a \in scan /\ stack' = stack
  /\ \A i \in DOMAIN stack' : stack'[i] \in Eden(id)
  /\ UNCHANGED <<steps, card, state, id, preserved, promotion_failed, before>>

\* Every promotion has such places.
LEMMA PromoteFacts ==
  ASSUME Shape, Promote
  PROVE  \E a, b, n : PromoteAt(a, b, n)
<1> DEFINE a == NextField
           b == ref[a]
           n == Min(Old \ used)
<1>1. /\ id # NoEden /\ MoreToScan /\ (stack = <<>> => scan # {} /\ scan = IntoEden)
      /\ Old \ used # {}
      /\ b \in Eden(id) \ DOMAIN forwardee
      /\ used' = used \cup {n}
      /\ ref' = [ref EXCEPT ![a] = n, ![n] = ref[b]]
      /\ hashed' = (hashed \ {b}) \cup (IF b \in hashed THEN {n} ELSE {})
      /\ forwardee' = [x \in DOMAIN forwardee \cup {b} |-> IF x = b THEN n ELSE forwardee[x]]
      /\ IF stack # <<>> THEN stack' = Tail(stack) /\ scan' = scan \cup {n}
                         ELSE scan' = (scan \ {a}) \cup {n} /\ UNCHANGED stack
      /\ UNCHANGED <<steps, card, state, id, preserved, promotion_failed, before>>
  BY Zenon DEF Promote
<1>2. /\ id \in Edens /\ a \in Roots \cup Heap
      /\ stack # <<>> =>
           /\ a = Head(stack) /\ a \in Eden(id)
           /\ Tail(stack) \in Seq(Heap)
           /\ \A i \in 1 .. Len(Tail(stack)) : Tail(stack)[i] \in Eden(id)
      /\ stack = <<>> => a \in scan
  BY <1>1, NextFieldIn
<1>3. n \in Old /\ n \notin used
  <2>1. Old \ used \subseteq Nat /\ Old \ used # {}
    BY <1>1, Layout DEF Heap
  <2> QED
    BY <2>1, MinIn
<1> HIDE DEF n
<1>4. a # n
  <2>1. CASE stack # <<>>
    BY <2>1, <1>2, <1>3, Layout
  <2>2. CASE stack = <<>>
    BY <2>2, <1>2, <1>3, Layout DEF Shape, TypeOK, Heap
  <2> QED
    BY <2>1, <2>2
<1>5. /\ scan' \subseteq scan \cup {n} /\ scan \cup {n} \subseteq scan' \cup {a}
      /\ stack' \in Seq(Heap)
      /\ stack # <<>> => stack' = Tail(stack) /\ scan' = scan \cup {n}
      /\ stack = <<>> => stack' = stack
      /\ \A i \in DOMAIN stack' : stack'[i] \in Eden(id)
  <2> HIDE DEF a
  <2>1. CASE stack # <<>>
    BY <2>1, <1>1, <1>2
  <2>2. CASE stack = <<>>
    BY <2>2, <1>1, <1>2 DEF Shape
  <2> QED
    BY <2>1, <2>2
<1> HIDE DEF a, b
<1>6. b = ref[a]
  BY Zenon DEF b
<1>7. PromoteAt(a, b, n)
  BY <1>1, <1>2, <1>3, <1>4, <1>5, <1>6, Zenon DEF PromoteAt
<1> QED
  BY <1>7, Zenon

\* A promotion keeps Shape: the copy is to be scanned.
LEMMA PromoteShape ==
  ASSUME Shape, Promote
  PROVE  Shape'
<1>0. PICK a, b, n : PromoteAt(a, b, n)
  BY PromoteFacts, Zenon
<1>1. /\ id \in Edens /\ id # NoEden
      /\ b = ref[a] /\ a \in (Roots \cup Heap) \ {n}
      /\ n \in Old /\ n \notin used
      /\ b \in Eden(id) \ DOMAIN forwardee
      /\ used' = used \cup {n}
      /\ ref' = [ref EXCEPT ![a] = n, ![n] = ref[b]]
      /\ hashed' = (hashed \ {b}) \cup (IF b \in hashed THEN {n} ELSE {})
      /\ forwardee' = [x \in DOMAIN forwardee \cup {b} |-> IF x = b THEN n ELSE forwardee[x]]
      /\ scan' \subseteq scan \cup {n} /\ scan \cup {n} \subseteq scan' \cup {a}
      /\ stack' \in Seq(Heap)
      /\ \A i \in DOMAIN stack' : stack'[i] \in Eden(id)
      /\ UNCHANGED <<steps, card, state, id, preserved, promotion_failed, before>>
  BY <1>0, Zenon DEF PromoteAt
<1>2. n \in Heap /\ b \in Heap /\ n # b /\ n \notin Eden(id) /\ n \notin Young \cup TransNew
  BY <1>1, Layout DEF Heap
<1>3. Failed' = Failed
  BY <1>1, <1>2 DEF Failed
<1>4. TypeOK'
  <2>1. ref' \in [Roots \cup Heap -> Heap \cup {NULL}]
    BY <1>1, <1>2 DEF Shape, TypeOK
  <2>2. used' \subseteq Heap /\ hashed' \subseteq used' /\ scan' \subseteq Roots \cup used'
    BY <1>1, <1>2 DEF Shape, TypeOK
  <2>3. DOMAIN forwardee' = DOMAIN forwardee \cup {b} /\ DOMAIN forwardee' \subseteq Eden(id)
    BY <1>1 DEF Shape, TypeOK, Mutating
  <2> QED
    BY <1>1, <2>1, <2>2, <2>3 DEF Shape, TypeOK, Mutating
<1>5. \A x \in Old \cap used' : ref'[x] \in Young \cup TransNew => x \in card' \cup scan'
  <2> SUFFICES ASSUME NEW x \in Old, x \in used', ref'[x] \in Young \cup TransNew
               PROVE  x \in card' \cup scan'
    OBVIOUS
  <2>1. x \in DOMAIN ref
    BY DEF Heap, Shape, TypeOK
  <2>2. CASE x = n
    BY Zenon, <2>2, <1>1
  <2>3. CASE x = a
    BY <2>1, <2>3, <1>1, <1>2
  <2>4. CASE x # n /\ x # a
    BY <2>1, <2>4, <1>1 DEF Shape
  <2> QED
    BY Zenon, <2>2, <2>3, <2>4
<1>6. \A x \in DOMAIN forwardee' : forwardee'[x] \in (used' \cap Old) \cup {x}
  BY <1>1 DEF Shape
<1>7. ~Mutating' => scan' \cap Eden(id)' = {}
  BY <1>1, <1>2 DEF Shape, Mutating
<1>8. preserved' \subseteq used' \cap Failed' /\ (Failed' # {} => promotion_failed')
  BY Zenon, <1>1, <1>3 DEF Shape
<1> QED
  BY Zenon, <1>1, <1>4, <1>5, <1>6, <1>7, <1>8 DEF Shape

\* What a failed promotion does, with the field a and the object b.
FailAt(a, b) ==
  /\ id \in Edens /\ id # NoEden
  /\ b = ref[a] /\ a \in Roots \cup Heap
  /\ b \in Eden(id) \ DOMAIN forwardee
  /\ preserved' = preserved \cup ({b} \cap hashed)
  /\ hashed' = hashed \ {b}
  /\ forwardee' = [x \in DOMAIN forwardee \cup {b} |-> IF x = b THEN b ELSE forwardee[x]]
  /\ promotion_failed' = TRUE
  /\ card \subseteq card' /\ card' \subseteq Old
  /\ a \in Old => a \in card'
  /\ scan' \subseteq scan /\ scan \subseteq scan' \cup {a}
  /\ stack' \in Seq(Heap)
  /\ stack # <<>> => a = Head(stack) /\ a \in Eden(id) /\ stack' = <<b>> \o Tail(stack)
  /\ stack = <<>> => a \in scan /\ stack' = <<b>>
  /\ \A i \in DOMAIN stack' : stack'[i] \in Eden(id)
  /\ UNCHANGED <<steps, ref, used, state, id, before>>

\* Every failed promotion has such places.
LEMMA FailFacts ==
  ASSUME Shape, FailPromotion
  PROVE  \E a, b : FailAt(a, b)
<1> DEFINE a == NextField
           b == ref[a]
<1>1. /\ id # NoEden /\ MoreToScan /\ (stack = <<>> => scan # {} /\ scan = IntoEden)
      /\ b \in Eden(id) \ DOMAIN forwardee
      /\ preserved' = preserved \cup ({b} \cap hashed)
      /\ hashed' = hashed \ {b}
      /\ forwardee' = [x \in DOMAIN forwardee \cup {b} |-> IF x = b THEN b ELSE forwardee[x]]
      /\ promotion_failed' = TRUE
      /\ do_barrier(a, b)
      /\ IF stack # <<>> THEN stack' = <<b>> \o Tail(stack) /\ UNCHANGED scan
                         ELSE stack' = <<b>> /\ scan' = scan \ {a}
      /\ UNCHANGED <<steps, ref, used, state, id, before>>
  BY Zenon DEF FailPromotion
<1>2. /\ id \in Edens /\ a \in Roots \cup Heap
      /\ stack # <<>> =>
           /\ a = Head(stack) /\ a \in Eden(id)
           /\ Tail(stack) \in Seq(Heap)
           /\ \A i \in 1 .. Len(Tail(stack)) : Tail(stack)[i] \in Eden(id)
      /\ stack = <<>> => a \in scan
  BY <1>1, NextFieldIn
<1>3. b \in Heap /\ b \in TransNew
  BY <1>1, <1>2, Layout DEF Heap
<1>4. card \subseteq card' /\ card' \subseteq Old /\ (a \in Old => a \in card')
  BY <1>1, <1>3, BarrierDirties
<1> HIDE DEF a, b
<1>5. /\ scan' \subseteq scan /\ scan \subseteq scan' \cup {a}
      /\ stack' \in Seq(Heap)
      /\ \A i \in DOMAIN stack' : stack'[i] \in Eden(id)
  <2>1. CASE stack # <<>>
    <3> DEFINE t == Tail(stack)
    <3>1. t \in Seq(Heap) /\ \A i \in 1 .. Len(t) : t[i] \in Eden(id)
      BY Zenon, <2>1, <1>2
    <3>2. stack' = <<b>> \o t /\ scan' = scan
      BY Zenon, <2>1, <1>1
    <3> HIDE DEF t
    <3>3. stack' \in Seq(Heap) /\ Len(stack') = Len(t) + 1 /\ stack'[1] = b
          /\ \A i \in 1 .. Len(stack') : i # 1 => i - 1 \in 1 .. Len(t) /\ stack'[i] = t[i - 1]
      BY <3>1, <3>2, <1>3
    <3>4. \A i \in 1 .. Len(stack') : stack'[i] \in Eden(id)
      BY <3>1, <3>3, <1>1
    <3> QED
      BY <3>2, <3>3, <3>4
  <2>2. CASE stack = <<>>
    <3>1. stack' = <<b>> /\ scan' = scan \ {a} /\ b \in Eden(id)
      BY <2>2, <1>1
    <3>2. <<b>> \in Seq(Heap) /\ DOMAIN <<b>> = 1 .. 1 /\ <<b>>[1] = b
      BY <1>3
    <3> QED
      BY <3>1, <3>2
  <2> QED
    BY <2>1, <2>2
<1>6. b = ref[a]
  BY Zenon DEF b
<1>7. FailAt(a, b)
  BY <1>1, <1>2, <1>4, <1>5, <1>6, Zenon DEF FailAt
<1> QED
  BY <1>7, Zenon

\* A failed promotion keeps Shape.
LEMMA FailShape ==
  ASSUME Shape, FailPromotion
  PROVE  Shape'
<1>0. PICK a, b : FailAt(a, b)
  BY FailFacts, Zenon
<1>1. /\ id \in Edens /\ id # NoEden
      /\ b = ref[a] /\ a \in Roots \cup Heap
      /\ b \in Eden(id) \ DOMAIN forwardee
      /\ preserved' = preserved \cup ({b} \cap hashed)
      /\ hashed' = hashed \ {b}
      /\ forwardee' = [x \in DOMAIN forwardee \cup {b} |-> IF x = b THEN b ELSE forwardee[x]]
      /\ promotion_failed' = TRUE
      /\ card \subseteq card' /\ card' \subseteq Old /\ (a \in Old => a \in card')
      /\ scan' \subseteq scan /\ scan \subseteq scan' \cup {a}
      /\ stack' \in Seq(Heap)
      /\ \A i \in DOMAIN stack' : stack'[i] \in Eden(id)
      /\ UNCHANGED <<steps, ref, used, state, id, before>>
  BY <1>0, Zenon DEF FailAt
<1>2. DOMAIN forwardee' = DOMAIN forwardee \cup {b} /\ Failed' = Failed \cup {b}
  BY <1>1 DEF Failed
<1>3. TypeOK'
  BY SMTT(20), <1>1, <1>2 DEF Shape, TypeOK, Mutating
<1>4. \A x \in Old \cap used' : ref'[x] \in Young \cup TransNew => x \in card' \cup scan'
  BY <1>1 DEF Shape
<1>5. \A x \in DOMAIN forwardee' : forwardee'[x] \in (used' \cap Old) \cup {x}
  BY Zenon, <1>1 DEF Shape
<1>6. ~Mutating' => scan' \cap Eden(id)' = {}
  BY <1>1 DEF Shape, Mutating
<1>7. preserved' \subseteq used' \cap Failed'
  BY <1>1, <1>2 DEF Shape, TypeOK
<1> QED
  BY <1>1, <1>3, <1>4, <1>5, <1>6, <1>7 DEF Shape

\* The end of a collection keeps Shape.
LEMMA EndShape ==
  ASSUME Shape, FreeEden \/ KeepEden
  PROVE  Shape'
<1>1. /\ id # NoEden /\ id \in Edens /\ scan = {} /\ stack = <<>> /\ id' = NoEden
      /\ forwardee' = <<>> /\ UNCHANGED <<steps, card, scan, stack>>
  BY DEF FreeEden, KeepEden, MoreToScan, Shape, TypeOK
<1>2. DOMAIN forwardee' = {} /\ Failed' = {}
  BY <1>1 DEF Failed
<1>3. CASE FreeEden
  <2>1. /\ ~promotion_failed /\ used' = used \ Eden(id) /\ hashed' = hashed \ Eden(id)
        /\ ref' = [a \in DOMAIN ref |-> IF a \in Eden(id) THEN NULL ELSE ref[a]]
        /\ state' = [state EXCEPT ![id] = "Assigned"]
        /\ UNCHANGED <<preserved, promotion_failed>>
    BY <1>3 DEF FreeEden
  <2>2. preserved' = {}
    BY <2>1 DEF Shape
  <2>3. ref' \in [Roots \cup Heap -> Heap \cup {NULL}]
    BY <2>1 DEF Shape, TypeOK
  <2>4. TypeOK'
    BY SMTT(20), <1>1, <1>2, <2>1, <2>2, <2>3 DEF Shape, TypeOK, Mutating
  <2>5. \A x \in Old \cap used' : ref'[x] \in Young \cup TransNew => x \in card' \cup scan'
    <3>1. \A x \in Old : x \in DOMAIN ref /\ x \notin Eden(id)
      BY <1>1, Layout DEF Shape, TypeOK, Heap
    <3> QED
      BY <1>1, <2>1, <3>1 DEF Shape
  <2> QED
    BY <1>1, <1>2, <2>2, <2>4, <2>5 DEF Shape, Mutating
<1>4. CASE KeepEden
  <2>1. /\ hashed' = (hashed \ TransNew) \cup preserved /\ preserved' = {}
        /\ promotion_failed' = FALSE
        /\ UNCHANGED <<ref, used, state>>
    BY <1>4 DEF KeepEden
  <2>2. TypeOK'
    BY Zenon, <1>1, <1>2, <2>1 DEF Shape, TypeOK, Mutating
  <2>3. \A x \in Old \cap used' : ref'[x] \in Young \cup TransNew => x \in card' \cup scan'
    BY <1>1, <2>1 DEF Shape
  <2> QED
    BY Zenon, <1>1, <1>2, <2>1, <2>2, <2>3 DEF Shape, Mutating
<1> QED
  BY Zenon, <1>3, <1>4

\* Shape is an invariant.
LEMMA ShapeInvariant == Spec => []Shape
<1>1. Init => Shape
  <2> SUFFICES ASSUME Init PROVE Shape
    OBVIOUS
  <2>1. ref \in [Roots \cup Heap -> Heap \cup {NULL}] /\ id = NoEden /\ steps \in 0 .. MaxSteps
    BY SizesAssumption DEF Init
  <2>2. TypeOK
    BY Zenon, <2>1 DEF Init, TypeOK, Mutating
  <2> QED
    BY <2>1, <2>2 DEF Init, Shape, Mutating, Failed
<1>2. Shape /\ [Next]_vars => Shape'
  <2> SUFFICES ASSUME Shape, [Next]_vars PROVE Shape'
    OBVIOUS
  <2>1. CASE Mutator
    <3>1. Young \subseteq Heap /\ Old \subseteq Heap /\ \A e \in Edens : Eden(e) \subseteq Heap
      BY Zenon, Layout DEF Heap
    <3>2. ASSUME NEW e \in Edens, EndTransaction(e) PROVE Shape'
      <4>1. state' \in [Edens -> {"Assigned", "Collectable", "Collecting"}]
        BY <3>2 DEF EndTransaction, Shape, TypeOK
      <4>2. TypeOK'
        BY <3>2, <4>1 DEF EndTransaction, Shape, TypeOK, gc, Mutating
      <4> QED
        BY <3>2, <4>2 DEF EndTransaction, Shape, gc, Mutating, Failed
    <3> QED
      BY <2>1, <3>1, <3>2, AllocateShape, StoreShape DEF Mutator
  <2>2. CASE \E e \in Edens : collectTransEden(e)
    BY <2>2, CollectShape
  <2>3. CASE Collector
    BY SMTT(20), <2>3, SkipShape, UpdateShape, PromoteShape, FailShape, EndShape DEF Collector
  <2>4. CASE UNCHANGED vars
    <3>1. TypeOK'
      BY Zenon, <2>4 DEF vars, Shape, TypeOK, Mutating
    <3> QED
      BY <2>4, <3>1 DEF vars, Shape, Mutating, Failed
  <2> QED
    BY <2>1, <2>2, <2>3, <2>4 DEF Next
<1> QED
  BY <1>1, <1>2, PTL DEF Spec

\* The variables keep their types, and nothing of a collection is left for the next one.
THEOREM EvacuationTypes == Spec => []TypeOK
BY ShapeInvariant, PTL DEF Shape

\* Between collections every old object that refers to a younger generation is on a dirty
\* card, whether the program or a collection made it refer there; also if a collection
\* follows one whose promotions failed.
THEOREM RememberedSetComplete == Spec => []RemSetComplete
<1>1. Shape => RemSetComplete
  BY NothingForwarded DEF Shape, RemSetComplete
<1> QED
  BY <1>1, ShapeInvariant, PTL

----------------------------------------------------------------------------
(* Layer 2: every reference into the eden is found *)

\* What the program reaches is in use.
LEMMA ReachableUsed ==
  ASSUME TypeOK, Covered
  PROVE  Reachable \subseteq used
<1>1. \A r \in Roots : \A k \in 0 .. Depth : Walk(ref, r)[k] \in used \cup {NULL}
  <2> TAKE r \in Roots
  <2>1. ref[r] \in used \cup {NULL} /\ \A x \in (used \cup {NULL}) \ {NULL} : ref[x] \in used \cup {NULL}
    BY Zenon DEF Covered
  <2> QED
    BY Zenon, <2>1, WalkIn
<1> QED
  BY <1>1 DEF Reachable, At

\* The program keeps Covered: it stores only references that it can reach.
LEMMA MutatorCovered ==
  ASSUME Shape, Covered, Mutator
  PROVE  Covered'
<1>1. ASSUME NEW space, space \subseteq Heap, NEW r \in Roots, Allocate(space, r)
      PROVE  Covered'
  <2> DEFINE a == Min(space \ used)
  <2>1. a \in Heap /\ a \notin used
    BY <1>1, MinIn, Layout DEF Allocate
  <2>2. /\ Mutating /\ used' = used \cup {a}
        /\ ref' = [ref EXCEPT ![a] = ref[r], ![r] = a]
        /\ id' = id
    BY Zenon, <1>1 DEF Allocate, gc
  <2> HIDE DEF a
  <2>3. \A x \in Roots \cup used' : ref'[x] \in used' \cup {NULL}
    <3> SUFFICES ASSUME NEW x \in Roots \cup used' PROVE ref'[x] \in used' \cup {NULL}
      OBVIOUS
    <3>1. r # a /\ ref \in [Roots \cup Heap -> Heap \cup {NULL}] /\ used \subseteq Heap
      BY <2>1, Layout DEF Shape, TypeOK
    <3>2. ref'[x] = IF x = r THEN a ELSE IF x = a THEN ref[r] ELSE ref[x]
      BY Zenon, <2>1, <2>2, <3>1
    <3> QED
      BY <2>2, <3>2 DEF Covered
  <2> QED
    BY Zenon, <2>2, <2>3 DEF Covered, Mutating
<1>2. ASSUME NEW a \in DOMAIN ref, NEW b \in Heap \cup {NULL}, Store(a, b)
      PROVE  Covered'
  <2>1. b \in used \cup {NULL}
    BY Zenon, <1>2, ReachableUsed DEF Store, Shape
  <2>2. Mutating /\ id' = id /\ used' = used /\ ref' = [ref EXCEPT ![a] = b]
    BY Zenon, <1>2 DEF Store, gc
  <2>3. \A x \in Roots \cup used' : ref'[x] \in used' \cup {NULL}
    BY Zenon, <2>1, <2>2 DEF Covered, Shape, TypeOK
  <2> QED
    BY Zenon, <2>2, <2>3 DEF Covered, Mutating
<1>3. ASSUME NEW e \in Edens, EndTransaction(e)
      PROVE  Covered'
  BY Zenon, <1>3 DEF EndTransaction, gc, Covered, Mutating
<1>4. Young \subseteq Heap /\ Old \subseteq Heap /\ \A e \in Edens : Eden(e) \subseteq Heap
  BY Zenon, Layout DEF Heap
<1> QED
  BY <1>1, <1>2, <1>3, <1>4 DEF Mutator

\* gen_process_strong_roots has every field that refers into the eden, if no other eden
\* waits for a full collection.
LEMMA CollectCovered ==
  ASSUME FullCollectionFirst, Shape, Covered, NEW e \in Edens, collectTransEden(e)
  PROVE  Covered'
<1>1. /\ Mutating /\ state' = [state EXCEPT ![e] = "Collecting"] /\ id' = e
      /\ \A d \in Edens : state[d] # "Collecting"
      /\ scan' = StrongRoots(state')
      /\ UNCHANGED <<ref, used, card, stack, forwardee>>
  BY Zenon DEF collectTransEden
<1>2. DOMAIN forwardee = {} /\ Failed = {} /\ scan = {} /\ stack = <<>>
  BY Zenon, <1>1, NothingForwarded DEF Shape
<1>3. \A a \in (Roots \cup used) \ Eden(e) : ref[a] \in Eden(e) => a \in scan'
  <2> SUFFICES ASSUME NEW a \in (Roots \cup used) \ Eden(e), ref[a] \in Eden(e)
               PROVE  a \in StrongRoots(state')
    BY Zenon, <1>1
  <2>1. CASE a \in Roots \cup Young
    BY Zenon, <2>1 DEF StrongRoots
  <2>2. CASE a \in TransNew /\ a \in used
    <3>1. PICK d \in Edens : a \in Eden(d)
      BY Zenon, <2>2 DEF TransNew
    <3>2. state'[d] # "Collecting"
      BY <1>1, <3>1 DEF Shape, TypeOK
    <3> QED
      BY Zenon, <2>2, <3>1, <3>2 DEF StrongRoots, NotExcluded
  <2>3. CASE a \in Old /\ a \in used
    <3>1. a \in card
      BY Zenon, <1>2, <2>3, Layout DEF Shape
    <3> QED
      BY Zenon, <2>3, <3>1 DEF StrongRoots
  <2> QED
    BY Zenon, <2>1, <2>2, <2>3 DEF Shape, TypeOK, Heap
<1>4. Failed' = {} /\ DOMAIN forwardee' = {} /\ 1 .. Len(stack') = {}
  BY <1>1, <1>2 DEF Failed
<1>5. \A a \in Roots \cup used' : ref'[a] \in used' \cup {NULL}
  BY Zenon, <1>1 DEF Covered
<1>6. \A a \in (Roots \cup used') \ Eden(e) : ref'[a] \in Eden(e) => a \in scan' \/ ref'[a] \in Failed'
  BY Zenon, <1>1, <1>3
<1>7. Eden(id)' = Eden(e)
  BY Zenon, <1>1
<1> QED
  BY <1>4, <1>5, <1>6, <1>7, Zenon DEF Covered

\* Taking the first object off the stack leaves the others there.
LEMMA TailFacts ==
  ASSUME Shape, stack # <<>>
  PROVE  /\ 1 \in 1 .. Len(stack) /\ Head(stack) = stack[1]
         /\ \A i \in 1 .. Len(Tail(stack)) :
              i + 1 \in 1 .. Len(stack) /\ Tail(stack)[i] = stack[i + 1]
         /\ \A i \in 1 .. Len(stack) : stack[i] # Head(stack) =>
              \E j \in 1 .. Len(Tail(stack)) : Tail(stack)[j] = stack[i]
BY DEF Shape

\* Skipping fields keeps Covered.
LEMMA SkipCovered ==
  ASSUME Shape, Covered, SkipFields \/ SkipFailed
  PROVE  Covered'
<1>1. CASE SkipFields
  <2>1. ~Mutating /\ scan' = IntoEden /\ UNCHANGED <<ref, used, id, stack, forwardee>>
    BY Zenon, <1>1 DEF SkipFields, Mutating
  <2>2. Failed' = Failed
    BY Zenon, <2>1 DEF Failed
  <2> QED
    BY Zenon, <2>1, <2>2 DEF Covered, Mutating, IntoEden
<1>2. CASE SkipFailed
  <2>1. /\ id # NoEden /\ stack # <<>> /\ ref[Head(stack)] \notin Eden(id)
        /\ stack' = Tail(stack) /\ UNCHANGED <<ref, used, id, scan, forwardee>>
    BY SMTT(20), <1>2 DEF SkipFailed
  <2>2. Failed' = Failed
    BY Zenon, <2>1 DEF Failed
  <2>3. /\ \A i \in 1 .. Len(stack') : i + 1 \in 1 .. Len(stack) /\ stack'[i] = stack[i + 1]
        /\ \A i \in 1 .. Len(stack) : stack[i] # Head(stack) =>
             \E j \in 1 .. Len(stack') : stack'[j] = stack[i]
    BY Zenon, <2>1, TailFacts
  <2>4. \A i \in 1 .. Len(stack') : stack'[i] \in Failed
    BY <2>1, <2>3 DEF Covered, Mutating
  <2>5. \A a \in Failed : ref[a] \in Eden(id) =>
          ref[a] \in Failed \/ \E i \in 1 .. Len(stack') : stack'[i] = a
    BY SMTT(20), <2>1, <2>3 DEF Covered, Mutating
  <2> QED
    BY Zenon, <2>1, <2>2, <2>4, <2>5 DEF Covered, Mutating
<1> QED
  BY Zenon, <1>1, <1>2

\* Updating a field keeps Covered.
LEMMA UpdateCovered ==
  ASSUME Shape, Covered, UpdateField
  PROVE  Covered'
<1>0. PICK a, c : UpdateAt(a, c)
  BY UpdateFacts, Zenon
<1>1. /\ id \in Edens /\ ~Mutating /\ a \in Roots \cup Heap /\ c \in Heap
      /\ ref[a] \in DOMAIN forwardee /\ c = forwardee[ref[a]]
      /\ ref' = [ref EXCEPT ![a] = c]
      /\ scan \subseteq scan' \cup {a}
      /\ stack # <<>> => a = Head(stack) /\ a \in Eden(id) /\ stack' = Tail(stack)
      /\ stack = <<>> => a \in scan /\ stack' = stack
      /\ UNCHANGED <<used, id, forwardee>>
  BY <1>0, Zenon DEF UpdateAt, Mutating
<1>2. Failed' = Failed
  BY Zenon, <1>1 DEF Failed
<1>3. c \in used /\ (c \in Eden(id) => c \in Failed)
  <2>1. ref[a] \in used /\ c \in (used \cap Old) \cup {ref[a]}
    BY Zenon, <1>1 DEF Shape, Covered
  <2>2. CASE c = ref[a]
    BY Zenon, <1>1, <2>1, <2>2 DEF Failed
  <2>3. CASE c # ref[a]
    BY Zenon, <1>1, <2>1, <2>3, Layout
  <2> QED
    BY Zenon, <2>2, <2>3
<1>4. \A x \in Roots \cup Heap : ref'[x] = IF x = a THEN c ELSE ref[x]
  BY Zenon, <1>1 DEF Shape, TypeOK
<1>5. used \subseteq Heap /\ Failed \subseteq used
  BY Zenon, <1>1 DEF Shape, TypeOK, Covered, Failed
<1>6. \A x \in Roots \cup used : ref'[x] \in used \cup {NULL}
  BY Zenon, <1>3, <1>4, <1>5 DEF Covered
<1>7. \A x \in (Roots \cup used) \ Eden(id) :
        ref'[x] \in Eden(id) => x \in scan' \/ ref'[x] \in Failed
  BY <1>1, <1>3, <1>4, <1>5 DEF Covered
<1>8. \A i \in 1 .. Len(stack') : stack'[i] \in Failed
  BY <1>1, TailFacts DEF Covered
<1>9. \A x \in Failed : ref'[x] \in Eden(id) =>
        ref'[x] \in Failed \/ \E i \in 1 .. Len(stack') : stack'[i] = x
  <2> SUFFICES ASSUME NEW x \in Failed, ref'[x] \in Eden(id), x # a, ref[x] \notin Failed
               PROVE  \E i \in 1 .. Len(stack') : stack'[i] = x
    BY Zenon, <1>3, <1>4, <1>5
  <2>1. PICK i \in 1 .. Len(stack) : stack[i] = x
    BY Zenon, <1>1, <1>4, <1>5 DEF Covered
  <2> QED
    BY Zenon, <1>1, <2>1, TailFacts
<1> QED
  BY <1>1, <1>2, <1>6, <1>7, <1>8, <1>9 DEF Covered

\* A promotion keeps Covered: the copy is to be scanned.
LEMMA PromoteCovered ==
  ASSUME Shape, Covered, Promote
  PROVE  Covered'
<1>0. PICK a, b, n : PromoteAt(a, b, n)
  BY PromoteFacts, Zenon
<1>1. /\ id \in Edens /\ ~Mutating
      /\ b = ref[a] /\ a \in (Roots \cup Heap) \ {n}
      /\ n \in Old /\ n \notin used
      /\ b \in Eden(id) \ DOMAIN forwardee
      /\ used' = used \cup {n}
      /\ ref' = [ref EXCEPT ![a] = n, ![n] = ref[b]]
      /\ forwardee' = [x \in DOMAIN forwardee \cup {b} |-> IF x = b THEN n ELSE forwardee[x]]
      /\ scan \cup {n} \subseteq scan' \cup {a}
      /\ stack # <<>> => a = Head(stack) /\ a \in Eden(id) /\ stack' = Tail(stack)
      /\ stack = <<>> => a \in scan /\ stack' = stack
      /\ id' = id
  BY <1>0, Zenon DEF PromoteAt, Mutating
<1>2. n \in Heap /\ n # b /\ n \notin Eden(id) /\ b \in Heap
  BY Zenon, <1>1, Layout DEF Heap
<1>3. DOMAIN forwardee' = DOMAIN forwardee \cup {b} /\ Failed' = Failed
  BY <1>1, <1>2 DEF Failed
<1>4. \A x \in Roots \cup Heap : ref'[x] = IF x = n THEN ref[b] ELSE IF x = a THEN n ELSE ref[x]
  BY Zenon, <1>1, <1>2 DEF Shape, TypeOK
<1>5. used \subseteq Heap /\ Failed \subseteq used /\ a \in Roots \cup used
  <2>1. used \subseteq Heap /\ Failed \subseteq used
    BY Zenon, <1>1 DEF Shape, TypeOK, Covered, Failed
  <2>2. a \in Roots \cup used
    <3>1. CASE stack # <<>>
      BY <1>1, <2>1, <3>1, TailFacts DEF Covered
    <3>2. CASE stack = <<>>
      BY Zenon, <1>1, <3>2 DEF Shape, TypeOK
    <3> QED
      BY Zenon, <3>1, <3>2
  <2> QED
    BY SMTT(20), <2>1, <2>2
<1>6. b \in used
  BY <1>1, <1>2, <1>5, Layout DEF Covered
<1>7. \A x \in Roots \cup used' : ref'[x] \in used' \cup {NULL}
  <2>1. used' = used \cup {n}
    BY Zenon, <1>1
  <2>2. \A x \in Roots \cup used : ref[x] \in used \cup {NULL}
    BY Zenon DEF Covered
  <2> QED
    BY Zenon, <2>1, <2>2, <1>2, <1>4, <1>5, <1>6
<1>8. \A x \in (Roots \cup used') \ Eden(id) :
        ref'[x] \in Eden(id) => x \in scan' \/ ref'[x] \in Failed
  <2> SUFFICES ASSUME NEW x \in (Roots \cup used') \ Eden(id), ref'[x] \in Eden(id), x # n
               PROVE  x \in scan' \/ ref'[x] \in Failed
    BY Zenon, <1>1
  <2>1. x \in (Roots \cup used) \ Eden(id) /\ x \in Roots \cup Heap
    BY Zenon, <1>1, <1>5
  <2>2. x # a /\ ref'[x] = ref[x]
    BY Zenon, <1>2, <1>4, <2>1
  <2>3. x \in scan \/ ref[x] \in Failed
    BY Zenon, <1>1, <2>1, <2>2 DEF Covered
  <2> QED
    BY Zenon, <1>1, <2>2, <2>3
<1>9. \A i \in 1 .. Len(stack') : stack'[i] \in Failed
  BY <1>1, TailFacts DEF Covered
<1>10. \A x \in Failed : ref'[x] \in Eden(id) =>
        ref'[x] \in Failed \/ \E i \in 1 .. Len(stack') : stack'[i] = x
  <2> SUFFICES ASSUME NEW x \in Failed, ref'[x] \in Eden(id), x # a, ref[x] \notin Failed
               PROVE  \E i \in 1 .. Len(stack') : stack'[i] = x
    BY Zenon, <1>1, <1>2, <1>4, <1>5
  <2>1. PICK i \in 1 .. Len(stack) : stack[i] = x
    BY Zenon, <1>1, <1>4, <1>5 DEF Covered
  <2> QED
    BY Zenon, <1>1, <2>1, TailFacts
<1>11. DOMAIN forwardee' \subseteq used'
  BY <1>1, <1>3, <1>6 DEF Covered
<1>12. id' = id /\ Failed' = Failed
  BY Zenon, <1>1, <1>3
<1> QED
  BY <1>7, <1>8, <1>9, <1>10, <1>11, <1>12 DEF Covered

\* A failed promotion keeps Covered: the object stays and its field is put on the stack.
LEMMA FailCovered ==
  ASSUME Shape, Covered, FailPromotion
  PROVE  Covered'
<1>0. PICK a, b : FailAt(a, b)
  BY FailFacts, Zenon
<1>1. /\ id \in Edens /\ ~Mutating
      /\ b = ref[a] /\ a \in Roots \cup Heap
      /\ b \in Eden(id) \ DOMAIN forwardee
      /\ forwardee' = [x \in DOMAIN forwardee \cup {b} |-> IF x = b THEN b ELSE forwardee[x]]
      /\ scan \subseteq scan' \cup {a}
      /\ stack # <<>> => a = Head(stack) /\ a \in Eden(id) /\ stack' = <<b>> \o Tail(stack)
      /\ stack = <<>> => a \in scan /\ stack' = <<b>>
      /\ UNCHANGED <<ref, used, id>>
  BY <1>0, Zenon DEF FailAt, Mutating
<1>2. b \in Heap
  BY Zenon, <1>1, Layout DEF Heap
<1>3. DOMAIN forwardee' = DOMAIN forwardee \cup {b} /\ Failed' = Failed \cup {b}
  BY Zenon, <1>1 DEF Failed
<1>4. /\ \A i \in 1 .. Len(stack') :
           stack'[i] = b \/ \E j \in 1 .. Len(stack) : stack'[i] = stack[j]
      /\ \E j \in 1 .. Len(stack') : stack'[j] = b
      /\ \A i \in 1 .. Len(stack) :
           stack[i] # a => \E j \in 1 .. Len(stack') : stack'[j] = stack[i]
  <2>1. CASE stack = <<>>
    <3>1. stack' = <<b>> /\ Len(<<b>>) = 1 /\ <<b>>[1] = b /\ 1 .. Len(stack) = {}
      BY <1>1, <2>1
    <3> QED
      BY <3>1
  <2>2. CASE stack # <<>>
    <3> DEFINE t == Tail(stack)
    <3>1. t \in Seq(Heap) /\ stack' = <<b>> \o t
      BY <1>1, <2>2 DEF Shape
    <3>2. /\ \A i \in 1 .. Len(t) : i + 1 \in 1 .. Len(stack) /\ t[i] = stack[i + 1]
          /\ \A i \in 1 .. Len(stack) : stack[i] # a => \E j \in 1 .. Len(t) : t[j] = stack[i]
      BY Zenon, <1>1, <2>2, TailFacts
    <3> HIDE DEF t
    <3>3. /\ Len(stack') = Len(t) + 1 /\ stack'[1] = b /\ 1 \in 1 .. Len(stack')
          /\ \A i \in 1 .. Len(stack') : i # 1 => i - 1 \in 1 .. Len(t) /\ stack'[i] = t[i - 1]
          /\ \A j \in 1 .. Len(t) : j + 1 \in 1 .. Len(stack') /\ stack'[j + 1] = t[j]
      BY <3>1, <1>2
    <3>4. ASSUME NEW i \in 1 .. Len(stack')
          PROVE  stack'[i] = b \/ \E j \in 1 .. Len(stack) : stack'[i] = stack[j]
      <4>1. i # 1 => i \in 1 .. Len(stack) /\ stack'[i] = stack[i]
        BY <3>2, <3>3
      <4> QED
        BY Zenon, <3>3, <4>1
    <3>5. ASSUME NEW i \in 1 .. Len(stack), stack[i] # a
          PROVE  \E j \in 1 .. Len(stack') : stack'[j] = stack[i]
      <4>1. PICK j \in 1 .. Len(t) : t[j] = stack[i]
        BY SMTT(20), <3>2, <3>5
      <4> QED
        BY <3>3, <4>1
    <3> QED
      BY <3>3, <3>4, <3>5, Zenon
  <2> QED
    BY Zenon, <2>1, <2>2
<1>7. a \in Roots \cup used
  <2>1. CASE stack # <<>>
    BY <1>1, <2>1, TailFacts DEF Covered, Failed
  <2>2. CASE stack = <<>>
    BY SMTT(20), <1>1, <2>2 DEF Shape, TypeOK
  <2> QED
    BY Zenon, <2>1, <2>2
<1>8. b \in used
  BY SMTT(20), <1>1, <1>2, <1>7, Layout DEF Covered
<1>9. DOMAIN forwardee' \subseteq used
  BY SMTT(20), <1>1, <1>3, <1>8 DEF Covered
<1>10. \A x \in (Roots \cup used) \ Eden(id) :
         ref[x] \in Eden(id) => x \in scan' \/ ref[x] \in Failed'
  BY SMTT(20), <1>1, <1>3 DEF Covered
<1>11. \A i \in 1 .. Len(stack') : stack'[i] \in Failed'
  BY <1>1, <1>3, <1>4 DEF Covered
<1>12. \A x \in Failed' : ref[x] \in Eden(id) =>
         ref[x] \in Failed' \/ \E i \in 1 .. Len(stack') : stack'[i] = x
  <2> SUFFICES ASSUME NEW x \in Failed, ref[x] \in Eden(id), x # a, ref[x] \notin Failed
               PROVE  \E i \in 1 .. Len(stack') : stack'[i] = x
    BY SMTT(20), <1>1, <1>3, <1>4
  <2>1. PICK i \in 1 .. Len(stack) : stack[i] = x
    BY SMTT(20), <1>1 DEF Covered
  <2> QED
    BY SMTT(20), <1>4, <2>1
<1>13. id' = id /\ ref' = ref /\ used' = used
  BY <1>1
<1>14. \A x \in Roots \cup used : ref[x] \in used \cup {NULL}
  BY Zenon DEF Covered
<1> QED
  BY <1>9, <1>10, <1>11, <1>12, <1>13, <1>14, Zenon DEF Covered

\* Freeing the eden keeps Covered: when everything is scanned and no promotion has failed,
\* nothing outside the eden refers into it.
LEMMA EndCovered ==
  ASSUME Shape, Covered, FreeEden \/ KeepEden
  PROVE  Covered'
<1>1. id \in Edens /\ ~Mutating /\ scan = {} /\ stack = <<>> /\ id' = NoEden
  BY SMTT(20) DEF FreeEden, KeepEden, MoreToScan, Shape, TypeOK, Mutating
<1>2. CASE FreeEden
  <2>1. /\ ~promotion_failed /\ used' = used \ Eden(id)
        /\ ref' = [a \in DOMAIN ref |-> IF a \in Eden(id) THEN NULL ELSE ref[a]]
    BY Zenon, <1>2 DEF FreeEden
  <2>2. Failed = {}
    BY Zenon, <2>1 DEF Shape
  <2>3. \A x \in (Roots \cup used) \ Eden(id) : ref[x] \notin Eden(id)
    BY <1>1, <2>2 DEF Covered
  <2>4. \A x \in Roots \cup used' : x \in (Roots \cup used) \ Eden(id) /\ ref'[x] = ref[x]
    BY SMTT(20), <1>1, <2>1, Layout DEF Shape, TypeOK, Heap
  <2>5. \A x \in Roots \cup used' : ref'[x] \in used' \cup {NULL}
    BY SMTT(20), <2>1, <2>3, <2>4 DEF Covered
  <2> QED
    BY Zenon, <1>1, <2>5 DEF Covered, Mutating
<1>3. CASE KeepEden
  BY Zenon, <1>1, <1>3 DEF KeepEden, Covered, Mutating
<1> QED
  BY Zenon, <1>2, <1>3

\* Covered is an invariant, if a full collection follows every failed promotion.
LEMMA CoveredInvariant ==
  ASSUME FullCollectionFirst
  PROVE  Spec => [](Shape /\ Covered)
<1>1. Init => Covered
  <2> SUFFICES ASSUME Init PROVE Covered
    OBVIOUS
  <2>1. \A a \in Roots \cup used : ref[a] = NULL
    BY Zenon DEF Init
  <2> QED
    BY Zenon, <2>1 DEF Init, Covered, Mutating
<1>2. Shape /\ Covered /\ [Next]_vars => Covered'
  <2> SUFFICES ASSUME Shape, Covered, [Next]_vars PROVE Covered'
    OBVIOUS
  <2>1. CASE \E e \in Edens : collectTransEden(e)
    BY Zenon, <2>1, CollectCovered
  <2>2. CASE Collector
    BY SMTT(20), <2>2, SkipCovered, UpdateCovered, PromoteCovered, FailCovered, EndCovered DEF Collector
  <2>3. CASE UNCHANGED vars
    <3>1. Failed' = Failed
      BY Zenon, <2>3 DEF vars, Failed
    <3> QED
      BY Zenon, <2>3, <3>1 DEF vars, Covered, Mutating
  <2> QED
    BY Zenon, <2>1, <2>2, <2>3, MutatorCovered DEF Next
<1> QED
  BY <1>1, <1>2, ShapeInvariant, PTL DEF Spec

\* The program never reaches memory that a collection has freed, provided that a full
\* collection comes between a failed promotion and the next collection of an eden.
THEOREM NoDanglingReferences ==
  ASSUME FullCollectionFirst
  PROVE  Spec => []NoDangling
<1>1. Shape /\ Covered => NoDangling
  BY SMTT(20), ReachableUsed DEF Shape, NoDangling
<1> QED
  BY <1>1, CoveredInvariant, PTL

-----------------------------------------------------------------------------
(* Layer 3: the graph the program sees stays the same *)

\* The heap read through the forwarding pointers, and the objects on its paths.
View == [a \in Roots \cup Heap |-> Canon(ref[a])]
Seen(p) == Walk(View, p[1])[p[2]]

\* Layer 3.
SameGraph ==
  /\ hashed \cap DOMAIN forwardee = {}
  /\ ~Mutating =>
       /\ DOMAIN before = {p \in Paths : Seen(p) # NULL}
       /\ \A p \in DOMAIN before :
            /\ before[p].same = {q \in Paths : Seen(q) = Seen(p)}
            /\ before[p].hash => Seen(p) \in (hashed \cap (Old \cup Eden(id))) \cup preserved

----------------------------------------------------------------------------
\* Read through the forwarding pointers, the heap leads from used objects to used objects.
LEMMA ViewUsed ==
  ASSUME Shape, Covered, ~Mutating
  PROVE  /\ id \in Edens /\ Canon(NULL) = NULL
         /\ \A x \in Roots \cup Heap : View[x] = Canon(ref[x])
         /\ \A x \in Roots \cup used : View[x] \in used \cup {NULL}
         /\ \A p \in Paths : Seen(p) \in used \cup {NULL}
<1>1. id \in Edens
  BY Zenon DEF Shape, TypeOK, Mutating
<1>2. NULL \notin DOMAIN forwardee
  BY Zenon, <1>1, Layout DEF Shape, TypeOK, Heap
<1>3. \A x \in Roots \cup Heap : View[x] = Canon(ref[x])
  BY Zenon DEF View
<1>4. \A x \in Roots \cup used : View[x] \in used \cup {NULL}
  <2> SUFFICES ASSUME NEW x \in Roots \cup used PROVE View[x] \in used \cup {NULL}
    OBVIOUS
  <2>1. x \in Roots \cup Heap /\ ref[x] \in used \cup {NULL}
    BY Zenon DEF Shape, TypeOK, Covered
  <2>2. CASE ref[x] \in DOMAIN forwardee
    BY Zenon, <1>2, <1>3, <2>1, <2>2 DEF Canon, Shape
  <2>3. CASE ref[x] \notin DOMAIN forwardee
    BY Zenon, <1>3, <2>1, <2>3 DEF Canon
  <2> QED
    BY Zenon, <2>2, <2>3
<1>5. ASSUME NEW p \in Paths PROVE Seen(p) \in used \cup {NULL}
  <2>1. p[1] \in Roots /\ p[2] \in 0 .. Depth
    BY Zenon DEF Paths
  <2>2. View[p[1]] \in used \cup {NULL}
        /\ \A x \in (used \cup {NULL}) \ {NULL} : View[x] \in used \cup {NULL}
    BY Zenon, <1>4, <2>1
  <2>3. \A k \in 0 .. Depth : Walk(View, p[1])[k] \in used \cup {NULL}
    BY Zenon, <2>2, WalkIn
  <2> QED
    BY Zenon, <2>1, <2>3 DEF Seen
<1> QED
  BY Zenon, <1>1, <1>2, <1>3, <1>4, <1>5 DEF Canon

\* A step that leaves the view and the marks of the forwarded objects alone.
LEMMA SameView ==
  ASSUME SameGraph, id' = id, before' = before, View' = View,
         hashed' \cap DOMAIN forwardee' = {},
         hashed \subseteq hashed' \cup preserved', preserved \subseteq preserved'
  PROVE  SameGraph'
<1>1. \A p : Seen(p)' = Seen(p)
  BY Zenon DEF Seen
<1> QED
  BY Zenon, <1>1 DEF SameGraph, Mutating

\* The start of a collection: before holds the graph that is then kept.
LEMMA CollectGraph ==
  ASSUME Shape, SameGraph, NEW e \in Edens, collectTransEden(e)
  PROVE  SameGraph'
<1>1. /\ Mutating /\ id' = e /\ before' = Graph(Eden(e))
      /\ UNCHANGED <<ref, hashed, forwardee, preserved>>
  BY Zenon DEF collectTransEden
<1>2. DOMAIN forwardee' = {}
  BY Zenon, <1>1, NothingForwarded DEF Shape
<1>3. View' = ref
  <2>1. \A b : Canon(b)' = b
    BY Zenon, <1>2 DEF Canon
  <2>2. ref = [a \in Roots \cup Heap |-> ref[a]]
    BY Zenon DEF Shape, TypeOK
  <2> QED
    BY Zenon, <1>1, <2>1, <2>2 DEF View
<1>4. \A p : Seen(p)' = At(p[1], p[2])
  BY Zenon, <1>3 DEF Seen, At
<1> DEFINE at == [p \in Paths |-> At(p[1], p[2])]
<1>5. \A p \in Paths : Seen(p)' = at[p]
  BY SMTT(20), <1>4
<1>6. before' = [p \in {q \in Paths : at[q] # NULL} |->
                   [same |-> {q \in Paths : at[q] = at[p]}, hash |-> at[p] \in Eden(e) \cap hashed]]
  BY Zenon, <1>1 DEF Graph
<1> HIDE DEF at
<1>7. DOMAIN before' = {p \in Paths : Seen(p)' # NULL}
  BY SMTT(20), <1>5, <1>6
<1>8. ASSUME NEW p \in DOMAIN before'
      PROVE  /\ before'[p].same = {q \in Paths : Seen(q)' = Seen(p)'}
             /\ before'[p].hash => Seen(p)' \in (hashed' \cap (Old \cup Eden(id'))) \cup preserved'
  <2>1. p \in Paths /\ at[p] # NULL
    BY Zenon, <1>6
  <2>2. /\ before'[p].same = {q \in Paths : at[q] = at[p]}
        /\ before'[p].hash = (at[p] \in Eden(e) \cap hashed)
    BY Zenon, <1>6, <2>1
  <2> QED
    BY Zenon, <1>1, <1>5, <2>1, <2>2
<1> QED
  BY Zenon, <1>1, <1>2, <1>7, <1>8 DEF SameGraph

\* Scanning a field whose referent stays or has been forwarded leaves the view alone.
LEMMA UpdateGraph ==
  ASSUME Shape, SameGraph, SkipFields \/ SkipFailed \/ UpdateField
  PROVE  SameGraph'
<1>1. CASE SkipFields \/ SkipFailed
  <2>1. UNCHANGED <<ref, forwardee, hashed, preserved, id, before>>
    BY Zenon, <1>1 DEF SkipFields, SkipFailed
  <2>2. View' = View
    BY SMTT(20), <2>1 DEF View, Canon
  <2> QED
    BY Zenon, <2>1, <2>2, SameView DEF SameGraph
<1>2. CASE UpdateField
  <2>0. PICK a, c : UpdateAt(a, c)
    BY <1>2, UpdateFacts, Zenon
  <2>1. /\ id \in Edens /\ ~Mutating /\ a \in Roots \cup Heap /\ c \in Heap
        /\ ref[a] \in DOMAIN forwardee /\ c = forwardee[ref[a]]
        /\ ref' = [ref EXCEPT ![a] = c]
        /\ UNCHANGED <<forwardee, hashed, preserved, id, before>>
    BY <2>0, Zenon DEF UpdateAt, Mutating
  <2>2. Canon(c) = c
    <3>1. CASE c = ref[a]
      BY Zenon, <2>1, <3>1 DEF Canon
    <3>2. CASE c # ref[a]
      <4>1. c \in Old
        BY Zenon, <2>1, <3>2 DEF Shape
      <4>2. c \notin DOMAIN forwardee
        BY Zenon, <2>1, <4>1, Layout DEF Shape, TypeOK
      <4> QED
        BY Zenon, <4>2 DEF Canon
    <3> QED
      BY Zenon, <3>1, <3>2
  <2>3. \A x \in Roots \cup Heap : ref'[x] = IF x = a THEN c ELSE ref[x]
    BY Zenon, <2>1 DEF Shape, TypeOK
  <2>4. \A x : Canon(x)' = Canon(x)
    BY Zenon, <2>1 DEF Canon
  <2>5. \A x \in Roots \cup Heap : Canon(ref'[x]) = Canon(ref[x])
    BY <2>1, <2>2, <2>3 DEF Canon
  <2>6. View' = View
    BY SMTT(20), <2>1, <2>5 DEF View, Canon
  <2> QED
    BY Zenon, <2>1, <2>6, SameView DEF SameGraph
<1> QED
  BY Zenon, <1>1, <1>2

\* A failed promotion leaves the view alone, and saves the mark.
LEMMA FailGraph ==
  ASSUME Shape, SameGraph, FailPromotion
  PROVE  SameGraph'
<1>0. PICK a, b : FailAt(a, b)
  BY FailFacts, Zenon
<1>1. /\ b \in Eden(id) \ DOMAIN forwardee
      /\ preserved' = preserved \cup ({b} \cap hashed)
      /\ hashed' = hashed \ {b}
      /\ forwardee' = [x \in DOMAIN forwardee \cup {b} |-> IF x = b THEN b ELSE forwardee[x]]
      /\ UNCHANGED <<ref, id, before>>
  BY <1>0, Zenon DEF FailAt
<1>2. \A x : Canon(x)' = Canon(x)
  BY Zenon, <1>1 DEF Canon
<1>3. View' = View
  BY SMTT(20), <1>1, <1>2 DEF View
<1>4. hashed' \cap DOMAIN forwardee' = {}
  BY Zenon, <1>1 DEF SameGraph
<1> QED
  BY Zenon, <1>1, <1>3, <1>4, SameView

\* A promotion renames the object in the view: every path that led to it leads to the copy,
\* and the copy has its mark.
LEMMA PromoteGraph ==
  ASSUME Shape, Covered, SameGraph, Promote
  PROVE  SameGraph'
<1>0. PICK a, b, n : PromoteAt(a, b, n)
  BY PromoteFacts, Zenon
<1>1. /\ id \in Edens /\ ~Mutating
      /\ b = ref[a] /\ a \in (Roots \cup Heap) \ {n}
      /\ n \in Old /\ n \notin used
      /\ b \in Eden(id) \ DOMAIN forwardee
      /\ ref' = [ref EXCEPT ![a] = n, ![n] = ref[b]]
      /\ hashed' = (hashed \ {b}) \cup (IF b \in hashed THEN {n} ELSE {})
      /\ forwardee' = [x \in DOMAIN forwardee \cup {b} |-> IF x = b THEN n ELSE forwardee[x]]
      /\ UNCHANGED <<id, preserved, before>>
  BY <1>0, Zenon DEF PromoteAt, Mutating
<1>2. /\ n \in Heap /\ b \in Heap /\ n # b /\ n # NULL /\ b # NULL /\ n \notin Eden(id)
      /\ n \notin DOMAIN forwardee /\ NULL \notin DOMAIN forwardee /\ used \subseteq Heap
      /\ n \notin Roots
  BY <1>1, Layout DEF Heap, Shape, TypeOK
<1>3. /\ \A x \in Roots \cup Heap : View[x] = Canon(ref[x])
      /\ \A x \in Roots \cup used : View[x] \in used \cup {NULL}
      /\ \A p \in Paths : Seen(p) \in used \cup {NULL}
  BY Zenon, <1>1, ViewUsed
<1> DEFINE m == [x \in used \cup {NULL} |-> IF x = b THEN n ELSE x]
<1>4. \A x : Canon(x)' = IF Canon(x) = b THEN n ELSE Canon(x)
  <2> TAKE x
  <2>1. CASE x = b
    BY Zenon, <1>1, <2>1 DEF Canon
  <2>2. CASE x # b /\ x \in DOMAIN forwardee
    <3>1. forwardee[x] # b
      BY Zenon, <1>1, <2>2, Layout DEF Shape
    <3> QED
      BY Zenon, <1>1, <2>2, <3>1 DEF Canon
  <2>3. CASE x # b /\ x \notin DOMAIN forwardee
    BY Zenon, <1>1, <2>3 DEF Canon
  <2> QED
    BY Zenon, <2>1, <2>2, <2>3
<1>5. \A x \in Roots \cup Heap : ref'[x] = IF x = n THEN ref[b] ELSE IF x = a THEN n ELSE ref[x]
  BY Zenon, <1>1, <1>2 DEF Shape, TypeOK
<1>6. \A x \in Roots \cup Heap : View'[x] = Canon(ref[x])'
  BY Zenon DEF View
<1>7. Canon(b) = b /\ Canon(n) = n
  BY Zenon, <1>1, <1>2 DEF Canon
<1>8. \A x \in (Roots \cup used) \ {b} : View'[x] = m[View[x]]
  <2> SUFFICES ASSUME NEW x \in Roots \cup used PROVE View'[x] = m[View[x]]
    OBVIOUS
  <2>1. x \in Roots \cup Heap /\ x # n
    BY Zenon, <1>1, <1>2
  <2>2. View'[x] = IF Canon(ref'[x]) = b THEN n ELSE Canon(ref'[x])
    BY Zenon, <1>4, <1>6, <2>1
  <2>3. View[x] = Canon(ref[x]) /\ View[x] \in used \cup {NULL}
    BY SMTT(20), <1>3, <2>1
  <2>4. CASE x = a
    BY Zenon, <1>1, <1>2, <1>5, <1>7, <2>1, <2>2, <2>3, <2>4
  <2>5. CASE x # a
    BY Zenon, <1>5, <2>1, <2>2, <2>3, <2>5
  <2> QED
    BY Zenon, <2>4, <2>5
<1>9. b \in used => View'[n] = m[View[b]]
  <2>1. View'[n] = IF Canon(ref[b]) = b THEN n ELSE Canon(ref[b])
    BY SMTT(20), <1>2, <1>4, <1>5, <1>6
  <2> QED
    BY SMTT(20), <1>2, <1>3, <2>1
<1>10. m[NULL] = NULL /\ \A x \in used : m[x] # NULL /\ View'[m[x]] = m[View[x]]
  <2>1. m[NULL] = NULL /\ \A x \in used : m[x] = (IF x = b THEN n ELSE x) /\ m[x] # NULL
    BY Zenon, <1>2, Layout
  <2> HIDE DEF m
  <2> QED
    BY Zenon, <1>8, <1>9, <2>1
<1>11. ASSUME NEW p \in Paths PROVE Seen(p)' = m[Seen(p)]
  <2>1. p[1] \in Roots /\ p[2] \in 0 .. Depth
    BY Zenon DEF Paths
  <2>2. View[p[1]] \in used \cup {NULL} /\ View'[p[1]] = m[View[p[1]]]
    BY Zenon, <1>2, <1>3, <1>8, <2>1, Layout
  <2>3. \A x \in (used \cup {NULL}) \ {NULL} :
          View[x] \in used \cup {NULL} /\ m[x] # NULL /\ View'[m[x]] = m[View[x]]
    BY Zenon, <1>3, <1>10
  <2>4. m[NULL] = NULL
    BY Zenon, <1>10
  <2> HIDE DEF m
  <2>5. \A k \in 0 .. Depth : Walk(View', p[1])[k] = m[Walk(View, p[1])[k]]
    <3> DEFINE S == used \cup {NULL}
               f == View
               g == View'
               r == p[1]
    <3>1. /\ f[r] \in S /\ NULL \in S /\ g[r] = m[f[r]] /\ m[NULL] = NULL
          /\ \A x \in S \ {NULL} : f[x] \in S
          /\ \A x \in S \ {NULL} : m[x] # NULL /\ g[m[x]] = m[f[x]]
      BY SMTT(20), <2>2, <2>3, <2>4
    <3> HIDE DEF S, f, g, r
    <3>2. \A k \in 0 .. Depth : Walk(g, r)[k] = m[Walk(f, r)[k]]
      BY SMTT(20), <3>1, WalkMap
    <3> QED
      BY Zenon, <3>2 DEF f, g, r
  <2> QED
    BY Zenon, <2>1, <2>5 DEF Seen
<1>12. \A p \in Paths : Seen(p)' = IF Seen(p) = b THEN n ELSE Seen(p)
  BY Zenon, <1>3, <1>11
<1>13. \A p, q \in Paths : (Seen(p)' = NULL <=> Seen(p) = NULL)
                           /\ (Seen(p)' = Seen(q)' <=> Seen(p) = Seen(q))
  BY Zenon, <1>1, <1>2, <1>3, <1>12
<1>14. hashed' \cap DOMAIN forwardee' = {}
  BY Zenon, <1>1, <1>2 DEF SameGraph
<1>15. DOMAIN before' = {p \in Paths : Seen(p)' # NULL}
  BY Zenon, <1>1, <1>13 DEF SameGraph
<1>16. ASSUME NEW p \in DOMAIN before'
       PROVE  /\ before'[p].same = {q \in Paths : Seen(q)' = Seen(p)'}
              /\ before'[p].hash => Seen(p)' \in (hashed' \cap (Old \cup Eden(id'))) \cup preserved'
  <2>1. p \in DOMAIN before /\ p \in Paths /\ before' = before
    BY Zenon, <1>1 DEF SameGraph
  <2>2. before[p].same = {q \in Paths : Seen(q) = Seen(p)}
    BY Zenon, <1>1, <2>1 DEF SameGraph
  <2>3. before[p].hash => Seen(p) \in (hashed \cap (Old \cup Eden(id))) \cup preserved
    BY Zenon, <1>1, <2>1 DEF SameGraph
  <2>4. before'[p].same = {q \in Paths : Seen(q)' = Seen(p)'}
    BY SMTT(20), <1>13, <2>1, <2>2
  <2>5. b \notin preserved
    BY Zenon, <1>1 DEF Shape, TypeOK
  <2>6. CASE Seen(p) = b
    BY SMTT(20), <1>1, <1>12, <2>1, <2>3, <2>4, <2>5, <2>6
  <2>7. CASE Seen(p) # b
    BY Zenon, <1>1, <1>12, <2>1, <2>3, <2>4, <2>7
  <2> QED
    BY Zenon, <2>6, <2>7
<1> QED
  BY <1>14, <1>15, <1>16, Zenon DEF SameGraph

\* When everything is scanned, the view is what the program sees after the collection.
LEMMA EndWalk ==
  ASSUME Shape, Covered, FreeEden \/ KeepEden
  PROVE  \A p \in Paths : /\ At(p[1], p[2])' = Seen(p)
                          /\ Seen(p) \in (used \ Eden(id)) \cup Failed \cup {NULL}
<1>1. id \in Edens /\ ~Mutating /\ scan = {} /\ 1 .. Len(stack) = {}
  BY SMTT(20) DEF FreeEden, KeepEden, MoreToScan, Shape, TypeOK, Mutating
<1> DEFINE S == (used \ Eden(id)) \cup Failed \cup {NULL}
<1>2. /\ \A x \in Roots \cup Heap : View[x] = Canon(ref[x])
      /\ used \subseteq Heap /\ Failed \subseteq used /\ DOMAIN forwardee \subseteq Eden(id)
      /\ NULL \notin used
  BY SMTT(20), <1>1, ViewUsed, Layout DEF Shape, TypeOK, Covered, Failed
<1>3. \A x \in Roots \cup (S \ {NULL}) : ref[x] \in S
  <2> SUFFICES ASSUME NEW x \in Roots \cup (S \ {NULL}), ref[x] \in Eden(id)
               PROVE  ref[x] \in Failed
    BY Zenon, <1>1, <1>2 DEF Covered
  <2>1. CASE x \in Failed
    BY Zenon, <1>1, <2>1 DEF Covered
  <2>2. CASE x \notin Failed
    <3>1. x \in (Roots \cup used) \ Eden(id)
      BY Zenon, <1>1, <2>2, Layout DEF Heap
    <3> QED
      BY Zenon, <1>1, <3>1 DEF Covered
  <2> QED
    BY Zenon, <2>1, <2>2
<1>4. \A y \in S : Canon(y) = y
  BY SMTT(20), <1>1, <1>2, Layout DEF Canon, Failed, Heap
<1>5. \A x \in Roots \cup (S \ {NULL}) : View[x] = ref[x]
  BY SMTT(20), <1>2, <1>3, <1>4
<1>6. \A x \in Roots \cup (S \ {NULL}) : ref'[x] = ref[x]
  <2>1. CASE KeepEden
    BY Zenon, <2>1 DEF KeepEden
  <2>2. CASE FreeEden
    <3>1. /\ Failed = {} /\ DOMAIN ref = Roots \cup Heap
          /\ ref' = [a \in DOMAIN ref |-> IF a \in Eden(id) THEN NULL ELSE ref[a]]
      BY Zenon, <2>2 DEF FreeEden, Shape, TypeOK
    <3>2. \A x \in Roots \cup (S \ {NULL}) : x \in Roots \cup Heap /\ x \notin Eden(id)
      BY Zenon, <1>1, <1>2, <3>1, Layout DEF Heap
    <3> QED
      BY Zenon, <3>1, <3>2
  <2> QED
    BY Zenon, <2>1, <2>2
<1> DEFINE f == View
           g == ref'
<1>7. ASSUME NEW r \in Roots, NEW k \in 0 .. Depth
      PROVE  Walk(f, r)[k] \in S /\ Walk(g, r)[k] = Walk(f, r)[k]
  <2>1. NULL \in S
    OBVIOUS
  <2> HIDE DEF S
  <2>2. f[r] \in S /\ g[r] = f[r]
    BY Zenon, <1>3, <1>5, <1>6
  <2>3. \A x \in S \ {NULL} : f[x] \in S /\ g[x] = f[x]
    BY Zenon, <1>3, <1>5, <1>6
  <2> HIDE DEF f, g
  <2>4. Agree(f, g, r, S)
    BY Zenon, <2>1, <2>2, <2>3 DEF Agree
  <2> QED
    BY <2>4, WalkSame
<1>8. ASSUME NEW p \in Paths
      PROVE  At(p[1], p[2])' = Seen(p) /\ Seen(p) \in S
  <2>1. p[1] \in Roots /\ p[2] \in 0 .. Depth
    BY Zenon DEF Paths
  <2> HIDE DEF S
  <2> QED
    BY Zenon, <1>7, <2>1 DEF At, Seen
<1> QED
  BY Zenon, <1>8

\* The end of a collection: what the program sees is the graph of before.
LEMMA EndGraph ==
  ASSUME Shape, Covered, SameGraph, FreeEden \/ KeepEden
  PROVE  LET after == Graph(Heap)' IN
           /\ DOMAIN after = DOMAIN before
           /\ \A p \in DOMAIN before : /\ after[p].same = before[p].same
                                       /\ before[p].hash => after[p].hash
<1>1. id \in Edens /\ ~Mutating
  BY Zenon DEF FreeEden, KeepEden, Shape, TypeOK, Mutating
<1>2. \A p \in Paths : /\ At(p[1], p[2])' = Seen(p)
                       /\ Seen(p) \in (used \ Eden(id)) \cup Failed \cup {NULL}
  BY SMTT(20), EndWalk
<1> DEFINE after == Graph(Heap)'
           at == [p \in Paths |-> Seen(p)]
<1>3. after = [p \in {q \in Paths : at[q] # NULL} |->
                 [same |-> {q \in Paths : at[q] = at[p]}, hash |-> at[p] \in Heap \cap hashed']]
  <2>1. at = [p \in Paths |-> At(p[1], p[2])']
    BY Zenon, <1>2
  <2> HIDE DEF at
  <2> QED
    BY Zenon, <2>1 DEF Graph
<1>4. \A p \in Paths : at[p] = Seen(p)
  OBVIOUS
<1> HIDE DEF at, after
<1>5. DOMAIN after = {p \in Paths : Seen(p) # NULL}
  BY Zenon, <1>3, <1>4
<1>6. DOMAIN before = DOMAIN after
  BY SMTT(20), <1>1, <1>5 DEF SameGraph
<1>7. ASSUME NEW p \in DOMAIN before
      PROVE  after[p].same = before[p].same /\ (before[p].hash => after[p].hash)
  <2>1. p \in Paths /\ Seen(p) # NULL /\ at[p] # NULL
    BY Zenon, <1>4, <1>5, <1>6
  <2>2. /\ after[p].same = {q \in Paths : at[q] = at[p]}
        /\ after[p].hash = (at[p] \in Heap \cap hashed')
    BY Zenon, <1>3, <2>1
  <2>3. before[p].same = {q \in Paths : Seen(q) = Seen(p)}
    BY Zenon, <1>1 DEF SameGraph
  <2>4. before[p].hash => Seen(p) \in (hashed \cap (Old \cup Eden(id))) \cup preserved
    BY Zenon, <1>1 DEF SameGraph
  <2>5. ASSUME before[p].hash PROVE Seen(p) \in Heap \cap hashed'
    <3>1. Seen(p) \in used /\ used \subseteq Heap
      BY Zenon, <1>1, <1>2, <2>1 DEF Shape, TypeOK, Covered, Failed
    <3>2. CASE Seen(p) \in Failed
      <4>1. Seen(p) \notin hashed /\ Seen(p) \in preserved
        BY SMTT(20), <2>4, <2>5, <3>2 DEF SameGraph, Failed
      <4>2. KeepEden
        BY Zenon, <3>2 DEF FreeEden, Shape
      <4> QED
        BY SMTT(20), <3>1, <4>1, <4>2 DEF KeepEden
    <3>3. CASE Seen(p) \notin Failed
      <4>1. Seen(p) \in hashed /\ Seen(p) \in Old
        BY Zenon, <1>2, <2>1, <2>4, <2>5, <3>3 DEF Shape
      <4>2. Seen(p) \notin TransNew /\ Seen(p) \notin Eden(id)
        BY Zenon, <1>1, <4>1, Layout
      <4> QED
        BY SMTT(20), <3>1, <4>1, <4>2 DEF FreeEden, KeepEden
    <3> QED
      BY SMTT(20), <3>2, <3>3
  <2> QED
    BY Zenon, <1>4, <2>1, <2>2, <2>3, <2>5
<1> QED
  BY Zenon, <1>6, <1>7 DEF after

\* The three layers together, if a full collection follows every failed promotion.
LEMMA GraphInvariant ==
  ASSUME FullCollectionFirst
  PROVE  Spec => [](Shape /\ Covered /\ SameGraph)
<1>1. Init => SameGraph
  BY Zenon DEF Init, SameGraph, Mutating
<1>2. Shape /\ Covered /\ SameGraph /\ [Next]_vars => SameGraph'
  <2> SUFFICES ASSUME Shape, Covered, SameGraph, [Next]_vars PROVE SameGraph'
    OBVIOUS
  <2>1. CASE Mutator
    <3>1. Mutating /\ UNCHANGED <<id, forwardee>>
      BY Zenon, <2>1 DEF Mutator, Allocate, Store, EndTransaction, gc
    <3> QED
      BY SMTT(20), <3>1, NothingForwarded DEF SameGraph, Shape, Mutating
  <2>2. CASE \E e \in Edens : collectTransEden(e)
    BY Zenon, <2>2, CollectGraph
  <2>3. CASE FreeEden \/ KeepEden
    <3>1. Mutating' /\ DOMAIN forwardee' = {}
      BY <2>3 DEF FreeEden, KeepEden, Mutating
    <3> QED
      BY Zenon, <3>1 DEF SameGraph
  <2>4. CASE SkipFields \/ SkipFailed \/ UpdateField \/ Promote \/ FailPromotion
    BY SMTT(20), <2>4, UpdateGraph, PromoteGraph, FailGraph
  <2>5. CASE UNCHANGED vars
    <3>1. View' = View /\ UNCHANGED <<id, before, hashed, preserved, forwardee>>
      BY Zenon, <2>5 DEF vars, View, Canon
    <3> QED
      BY Zenon, <3>1, SameView DEF SameGraph
  <2> QED
    BY Zenon, <2>1, <2>2, <2>3, <2>4, <2>5 DEF Next, Collector
<1> QED
  BY <1>1, <1>2, CoveredInvariant, PTL DEF Spec

\* A collection, failed promotions included, leaves the program the object graph it had,
\* and the objects of the collected eden their hash.
THEOREM CollectionPreservesGraph ==
  ASSUME FullCollectionFirst
  PROVE  Spec => GraphPreserved
<1> DEFINE Same == (~Mutating /\ Mutating') =>
                     LET after == Graph(Heap)' IN
                       /\ DOMAIN after = DOMAIN before
                       /\ \A p \in DOMAIN before : /\ after[p].same = before[p].same
                                                   /\ before[p].hash => after[p].hash
<1>1. Shape /\ Covered /\ SameGraph /\ [Next]_vars => [Same]_vars
  <2> SUFFICES ASSUME Shape, Covered, SameGraph, Next, ~Mutating, Mutating'
               PROVE  Same
    BY SMTT(20) DEF vars
  <2>1. FreeEden \/ KeepEden
    BY Zenon DEF Next, Mutator, Collector, Allocate, Store, EndTransaction, collectTransEden,
           SkipFields, SkipFailed, UpdateField, Promote, FailPromotion, Mutating
  <2> QED
    BY SMTT(20), <2>1, EndGraph
<1> QED
  BY <1>1, GraphInvariant, PTL DEF Spec, GraphPreserved

=============================================================================
