-------------------------- MODULE CompactionProofs --------------------------
(***************************************************************************)
(* A full collection moves every object intact, for spaces of any size and *)
(* any number of transaction edens, provided that what survives in the old *)
(* generation and in the transaction edens fits the old generation.        *)
(*                                                                         *)
(* The invariant follows the two pointers of the algorithm.  In phase 2    *)
(* the destinations of the objects passed so far fill each space from its  *)
(* bottom up to its level, without gaps and overlaps, and no destination   *)
(* lies beyond the object it is for.  The old generation takes the whole   *)
(* transaction generation: what is left to be scanned fits above           *)
(* compact_top.  Therefore no space is filled before it has been scanned,  *)
(* and in phase 4 a copy only overwrites objects that have been moved.     *)
(***************************************************************************)
EXTENDS Compaction, FiniteSetTheorems, WellFoundedInduction, TLAPS

\* Every object has got its destination.
Finishing == phase \in {"compact", "done"}

\* SCAN_AND_FORWARD has reset the compaction_top of s.
Entered(s) == Finishing \/ s < scan \/ (s = scan /\ phase = "forward")

\* Phase 2 has passed the block at a; phase 4 has.
Passed(s, a) == Finishing \/ s < scan \/ (s = scan /\ a < q)
Moved(s, a) == phase = "done" \/ (phase = "compact" /\ (s < scan \/ (s = scan /\ a < q)))

\* How far s is filled with destinations.
Level(s) == IF phase = "forward" /\ s = cp THEN compact_top ELSE compaction_top[s]

\* The two parts of a destination.
To(s, a) == forwardee[<<s, a>>][1]
At(s, a) == forwardee[<<s, a>>][2]

LayoutInv ==
  /\ used \in [Spaces -> Nat] /\ starts \in [Spaces -> SUBSET Nat]
  /\ live \in [Spaces -> SUBSET Nat]
  /\ \A s \in Spaces : /\ used[s] <= Capacity(s)
                       /\ \A a \in starts[s] : a < used[s]
                       /\ used[s] > 0 => 0 \in starts[s]
                       /\ live[s] \subseteq starts[s]

\* What memory holds are words of objects, and a destination is an address.
HeapTypes ==
  /\ forwardee \in [Addresses -> Addresses \cup {NoAddress}]
  /\ mem \in [Addresses -> (Addresses \cup {NoAddress}) \X Nat]

\* Where the algorithm is, and the space it compacts into.  In particular it never fails.
ControlInv ==
  /\ phase \in {"enter", "forward", "compact", "done"} /\ scan \in Spaces
  /\ q \in starts[scan] \cup {used[scan], 0}
  /\ cp \in {NULL, OldSpace, YoungEden, From} /\ compact_top \in Nat /\ allowed \in Nat
  /\ phase = "enter" => /\ q = 0 /\ cp < scan /\ (cp = NULL <=> scan = OldSpace)
                        /\ cp # NULL => compact_top = compaction_top[cp]
  /\ phase = "forward" => cp # NULL /\ cp <= scan /\ (cp = scan => compact_top <= q)
  /\ Finishing => cp # NULL
  /\ ~Finishing /\ scan < YoungEden => cp \in {NULL, OldSpace}
  /\ cp # NULL => compact_top <= Capacity(cp)

\* The tops of the spaces.  Nothing is compacted into a transaction eden.
TopInv ==
  /\ compaction_top \in [Spaces -> Nat] /\ top \in [Spaces -> Nat]
  /\ \A s \in Spaces :
       /\ compaction_top[s] <= Capacity(s) /\ top[s] <= Capacity(s)
       /\ s \in TransEdens /\ Entered(s) => compaction_top[s] = 0
       /\ phase = "done" \/ (phase = "compact" /\ s < scan) => top[s] = compaction_top[s]

\* An object that has been passed goes to a lower address or stays, below the level.
PlacedInv ==
  \A s \in Spaces : \A a \in live[s] :
    IF Passed(s, a)
      THEN /\ To(s, a) \in Spaces /\ To(s, a) <= cp /\ At(s, a) \in Nat
           /\ At(s, a) + BlockSize(s, a) <= Level(To(s, a))
           /\ To(s, a) < s \/ (To(s, a) = s /\ At(s, a) <= a)
      ELSE forwardee[<<s, a>>] = NoAddress

\* Two destinations do not overlap.
ApartInv ==
  \A s, t \in Spaces : \A a \in live[s], b \in live[t] :
    Passed(s, a) /\ Passed(t, b) /\ (s # t \/ a # b) /\ To(s, a) = To(t, b) =>
      \/ At(s, a) + BlockSize(s, a) <= At(t, b)
      \/ At(t, b) + BlockSize(t, b) <= At(s, a)

\* Below the level of a space every word is part of a destination.
CoverInv ==
  \A r \in Spaces : \A k \in Nat :
    Entered(r) /\ k < Level(r) =>
      \E s \in Spaces : \E a \in live[s] :
        /\ Passed(s, a) /\ To(s, a) = r
        /\ At(s, a) <= k /\ k < At(s, a) + BlockSize(s, a)

\* The words of the old space and of the transaction edens that are yet to be passed.
Left ==
  {w \in Addresses :
     /\ w[1] < YoungEden
     /\ \E a \in live[w[1]] : ~Passed(w[1], a) /\ a <= w[2] /\ w[2] < BlockEnd(w[1], a)}

\* There is room for them in the old space.
RoomInv ==
  /\ phase = "enter" /\ scan = OldSpace =>
       \A d \in DeadWood : Cardinality(Left) + d <= OldSize
  /\ phase = "enter" /\ scan \in TransEdens => compact_top + Cardinality(Left) <= OldSize
  /\ phase = "forward" /\ scan < YoungEden =>
       compact_top + allowed + Cardinality(Left) <= OldSize

\* An object is intact where it was until it is moved, then where it is to be.
MemInv ==
  \A s \in Spaces : \A a \in live[s] : \A k \in 0 .. BlockSize(s, a) - 1 :
    IF Moved(s, a) THEN mem[<<To(s, a), At(s, a) + k>>] = <<<<s, a>>, k>>
                   ELSE mem[<<s, a + k>>] = <<<<s, a>>, k>>

\* The inductive invariant.
CInv ==
  /\ LayoutInv /\ HeapTypes /\ ControlInv /\ TopInv
  /\ PlacedInv /\ ApartInv /\ CoverInv /\ RoomInv /\ MemInv

-----------------------------------------------------------------------------
(* Spaces, addresses and blocks *)

\* The order of the spaces.
LEMMA SpaceOrder ==
  /\ NULL = 0 /\ OldSpace = 1 /\ YoungEden \in Nat /\ YoungEden > 2 /\ From = YoungEden + 1
  /\ \A s : s \in Spaces <=> s \in Nat /\ 1 <= s /\ s <= From
  /\ \A s : s \in TransEdens <=> s \in Nat /\ 1 < s /\ s < YoungEden
BY HeapAssumption DEF NULL, OldSpace, YoungEden, From, Spaces, TransEdens

\* Capacities are numbers of words.
LEMMA Capacities ==
  /\ \A s \in Spaces : Capacity(s) \in Nat
  /\ Capacity(OldSpace) = OldSize /\ OldSize \in Nat
<1>1. /\ OldSize \in Nat /\ EdenSize \in Nat /\ YoungSize \in Nat /\ FromSize \in Nat
  BY Zenon, HeapAssumption
<1>2. \A s \in Spaces : s = OldSpace \/ s \in TransEdens \/ s = YoungEden \/ s = From
  BY SpaceOrder
<1>3. OldSpace \notin TransEdens /\ YoungEden \notin TransEdens /\ From \notin TransEdens
      /\ OldSpace # YoungEden /\ OldSpace # From /\ YoungEden # From
  BY SpaceOrder
<1> QED
  BY Zenon, <1>1, <1>2, <1>3 DEF Capacity

\* An address is a space and an offset below its capacity.
LEMMA AddressParts ==
  /\ \A s \in Spaces : \A a \in Nat : a < Capacity(s) => <<s, a>> \in Addresses
  /\ \A d \in Addresses : /\ d = <<d[1], d[2]>> /\ d[1] \in Spaces /\ d[2] \in Nat
                          /\ d[2] < Capacity(d[1])
  /\ NoAddress \notin Addresses /\ NoAddress[1] \notin Spaces
<1>1. \A s \in Spaces : \A a \in Nat : a < Capacity(s) => <<s, a>> \in Addresses
  BY Capacities DEF Addresses
<1>2. ASSUME NEW d \in Addresses
      PROVE  /\ d = <<d[1], d[2]>> /\ d[1] \in Spaces /\ d[2] \in Nat /\ d[2] < Capacity(d[1])
  <2>1. PICK s \in Spaces : d \in {s} \X (0 .. Capacity(s) - 1)
    BY Zenon, <1>2 DEF Addresses
  <2> QED
    BY <2>1, Capacities
<1>3. NoAddress[1] \notin Spaces
  BY SpaceOrder DEF NoAddress
<1> QED
  BY Zenon, <1>1, <1>2, <1>3

\* A set of numbers has a least element.
LEMMA Least ==
  ASSUME NEW T, T \subseteq Nat, T # {}
  PROVE  Min(T) \in T /\ \A y \in T : Min(T) <= y
<1>1. \A x, y \in Nat : y < x => <<y, x>> \in OpToRel(<, Nat)
  <2> SUFFICES ASSUME NEW x \in Nat, NEW y \in Nat, y < x PROVE <<y, x>> \in OpToRel(<, Nat)
    BY Zenon
  <2>1. <<y, x>> \in Nat \X Nat /\ <<y, x>>[1] < <<y, x>>[2]
    OBVIOUS
  <2> QED
    BY Zenon, <2>1 DEF OpToRel
<1>2. PICK x \in T : \A y \in T : ~(<<y, x>> \in OpToRel(<, Nat))
  BY Zenon, NatLessThanWellFounded, WFMin
<1>3. \A y \in T : ~(y < x)
  BY Zenon, <1>1, <1>2
<1>4. \A y \in T : x <= y
  BY <1>3
<1> QED
  BY Zenon, <1>4 DEF Min

\* A block ends where the next one starts, or at the top.
LEMMA Blocks ==
  ASSUME LayoutInv, NEW s \in Spaces, NEW a \in starts[s]
  PROVE  /\ a \in Nat /\ BlockEnd(s, a) \in Nat /\ a < BlockEnd(s, a)
         /\ BlockEnd(s, a) \in starts[s] \cup {used[s]}
         /\ BlockEnd(s, a) <= used[s] /\ used[s] \in Nat /\ used[s] <= Capacity(s)
         /\ BlockSize(s, a) = BlockEnd(s, a) - a /\ BlockSize(s, a) \in Nat
         /\ \A c \in starts[s] : a < c => BlockEnd(s, a) <= c
<1> DEFINE T == {c \in starts[s] \cup {used[s]} : c > a}
<1>1. /\ a \in Nat /\ used[s] \in Nat /\ a < used[s] /\ starts[s] \subseteq Nat
      /\ used[s] <= Capacity(s) /\ \A c \in starts[s] : c < used[s]
  BY Zenon DEF LayoutInv
<1>2. T \subseteq Nat /\ used[s] \in T
  BY Zenon, <1>1
<1>3. Min(T) \in T /\ \A y \in T : Min(T) <= y
  <2> HIDE DEF T
  <2> QED
    BY Zenon, <1>2, Least
<1>4. BlockEnd(s, a) = Min(T)
  BY Zenon DEF BlockEnd
<1>5. BlockEnd(s, a) \in starts[s] \cup {used[s]} /\ a < BlockEnd(s, a)
  BY Zenon, <1>1, <1>3, <1>4
<1>6. BlockEnd(s, a) <= used[s] /\ \A c \in starts[s] : a < c => BlockEnd(s, a) <= c
  BY Zenon, <1>1, <1>2, <1>3, <1>4
<1> QED
  BY <1>1, <1>5, <1>6 DEF BlockSize

\* There are finitely many addresses.
LEMMA FiniteHeap == IsFiniteSet(Addresses)
<1>1. PICK m \in Nat : m = OldSize + EdenSize + YoungSize + FromSize
  BY HeapAssumption
<1>2. \A s \in Spaces : Capacity(s) <= m
  <2>1. \A s \in Spaces : s = OldSpace \/ s \in TransEdens \/ s = YoungEden \/ s = From
    BY SpaceOrder
  <2>2. \A s \in Spaces : Capacity(s) \in {OldSize, EdenSize, YoungSize, FromSize}
    BY Zenon, <2>1 DEF Capacity
  <2> QED
    BY <1>1, <2>2, HeapAssumption
<1>3. IsFiniteSet((0 .. From) \X (0 .. m))
  <2>1. 0 \in Int /\ m \in Int /\ From \in Int
    BY SpaceOrder
  <2>2. IsFiniteSet(0 .. From) /\ IsFiniteSet(0 .. m)
    BY Zenon, <2>1, FS_Interval
  <2> QED
    BY Zenon, <2>2, FS_Product
<1>4. Addresses \subseteq (0 .. From) \X (0 .. m)
  BY <1>2, AddressParts, SpaceOrder, Capacities
<1> QED
  BY Zenon, <1>3, <1>4, FS_Subset

\* A set of addresses and the two disjoint parts it contains.
LEMMA DisjointParts ==
  ASSUME NEW U, NEW S, NEW T, U \subseteq Addresses, S \subseteq U, T \subseteq U, S \cap T = {}
  PROVE  /\ Cardinality(U) \in Nat /\ Cardinality(S) \in Nat /\ Cardinality(T) \in Nat
         /\ Cardinality(S) + Cardinality(T) <= Cardinality(U)
<1>1. IsFiniteSet(U) /\ IsFiniteSet(S) /\ IsFiniteSet(T)
  BY Zenon, FiniteHeap, FS_Subset
<1>2. Cardinality(U) \in Nat /\ Cardinality(S) \in Nat /\ Cardinality(T) \in Nat
  BY Zenon, <1>1, FS_CardinalityType
<1>3. ~(Cardinality(S) + Cardinality(T) > Cardinality(U))
  BY Zenon, <1>1, FS_MajoritiesIntersect
<1> QED
  BY <1>2, <1>3

\* The number of words between two offsets.
LEMMA WordsBetween ==
  ASSUME NEW s \in Spaces, NEW a \in Nat, NEW b \in Nat, a < b, b <= Capacity(s)
  PROVE  /\ {s} \X (a .. b - 1) \subseteq Addresses
         /\ Cardinality({s} \X (a .. b - 1)) = b - a
<1>1. {s} \X (a .. b - 1) \subseteq Addresses
  BY AddressParts, Capacities
<1>2. IsFiniteSet(a .. b - 1) /\ Cardinality(a .. b - 1) = b - a
  <2>1. a \in Int /\ b - 1 \in Int /\ ~(a > b - 1) /\ b - 1 - a + 1 = b - a
    OBVIOUS
  <2> QED
    BY Zenon, <2>1, FS_Interval
<1>3. Cardinality({s} \X (a .. b - 1)) = 1 * (b - a)
  <2>1. IsFiniteSet({s}) /\ Cardinality({s}) = 1
    BY Zenon, FS_Singleton
  <2>2. Cardinality({s} \X (a .. b - 1)) = Cardinality({s}) * Cardinality(a .. b - 1)
    BY Zenon, <1>2, <2>1, FS_Product
  <2> QED
    BY Zenon, <1>2, <2>1, <2>2
<1> QED
  BY <1>1, <1>3

\* What is left contains the object at q, besides what comes after it.
LEMMA LeftHolds ==
  ASSUME LayoutInv, phase = "forward", scan \in Spaces, scan < YoungEden, q \in live[scan],
         NEW L, L \subseteq Left, L \cap ({scan} \X (q .. BlockEnd(scan, q) - 1)) = {}
  PROVE  /\ Cardinality(L) \in Nat /\ Cardinality(Left) \in Nat
         /\ Cardinality(L) + BlockSize(scan, q) <= Cardinality(Left)
<1> DEFINE W == {scan} \X (q .. BlockEnd(scan, q) - 1)
<1>0. q \in starts[scan]
  BY Zenon DEF LayoutInv
<1>1. /\ q \in Nat /\ BlockEnd(scan, q) \in Nat /\ q < BlockEnd(scan, q)
      /\ BlockEnd(scan, q) <= used[scan] /\ used[scan] \in Nat /\ used[scan] <= Capacity(scan)
      /\ BlockSize(scan, q) = BlockEnd(scan, q) - q
  BY Zenon, <1>0, Blocks
<1>2. BlockEnd(scan, q) <= Capacity(scan)
  BY <1>1, Capacities
<1>3. W \subseteq Addresses /\ Cardinality(W) = BlockSize(scan, q)
  BY Zenon, <1>1, <1>2, WordsBetween
<1>4. W \subseteq Left
  <2>1. ~Passed(scan, q)
    BY <1>1, SpaceOrder DEF Passed, Finishing
  <2>2. SUFFICES ASSUME NEW w \in W PROVE w \in Left
    OBVIOUS
  <2>3. w \in Addresses /\ w[1] = scan /\ q <= w[2] /\ w[2] < BlockEnd(scan, q)
    BY <1>1, <1>3
  <2> QED
    BY Zenon, <2>1, <2>3 DEF Left
<1>5. Left \subseteq Addresses
  BY Zenon DEF Left
<1> HIDE DEF W
<1> QED
  BY Zenon, <1>3, <1>4, <1>5, DisjointParts DEF W

-----------------------------------------------------------------------------
(* What a step does to the destinations *)

\* The blocks are as they were when the collection started.
LEMMA SameBlocks ==
  ASSUME UNCHANGED <<used, starts>>
  PROVE  \A s, a : BlockEnd(s, a)' = BlockEnd(s, a) /\ BlockSize(s, a)' = BlockSize(s, a)
BY Zenon DEF BlockEnd, BlockSize

\* Levels are numbers of words, within the capacity.
LEMMA Levels ==
  ASSUME ControlInv, TopInv
  PROVE  \A r \in Spaces : Level(r) \in Nat /\ Level(r) <= Capacity(r)
BY Zenon, SpaceOrder DEF ControlInv, TopInv, Level

\* A step that gives no object a destination keeps those there are.
LEMMA Steady ==
  ASSUME LayoutInv, ControlInv, TopInv, PlacedInv, ApartInv, CoverInv,
         UNCHANGED <<used, starts, live, forwardee>>, cp' \in Nat, cp <= cp',
         \A s \in Spaces : \A a \in live[s] : Passed(s, a)' <=> Passed(s, a),
         \A r \in Spaces : r <= cp => Level(r)' = Level(r),
         \A r \in Spaces : Entered(r)' => Level(r)' = 0 \/ (Entered(r) /\ Level(r)' = Level(r))
  PROVE  PlacedInv' /\ ApartInv' /\ CoverInv'
<1>1. \A s, a : /\ BlockSize(s, a)' = BlockSize(s, a) /\ To(s, a)' = To(s, a)
                /\ At(s, a)' = At(s, a)
  BY Zenon, SameBlocks DEF To, At
<1>2. cp \in Nat /\ \A s \in Spaces : s \in Nat
  BY SpaceOrder DEF ControlInv
<1>3. PlacedInv'
  <2> SUFFICES ASSUME NEW s \in Spaces, NEW a \in live[s]
               PROVE  IF Passed(s, a)'
                        THEN /\ To(s, a)' \in Spaces /\ To(s, a)' <= cp' /\ At(s, a)' \in Nat
                             /\ At(s, a)' + BlockSize(s, a)' <= Level(To(s, a))'
                             /\ To(s, a)' < s \/ (To(s, a)' = s /\ At(s, a)' <= a)
                        ELSE forwardee'[<<s, a>>] = NoAddress
    BY Zenon DEF PlacedInv
  <2>1. CASE Passed(s, a)
    <3>1. PICK r \in Spaces : r = To(s, a)
      BY Zenon, <2>1 DEF PlacedInv
    <3>2. /\ r <= cp /\ At(s, a) \in Nat /\ At(s, a) + BlockSize(s, a) <= Level(r)
          /\ r < s \/ (r = s /\ At(s, a) <= a)
      BY Zenon, <2>1, <3>1 DEF PlacedInv
    <3>3. Level(To(s, a))' = Level(r)'
      BY Zenon, <1>1, <3>1 DEF Level
    <3>4. Level(r)' = Level(r) /\ r <= cp'
      BY <1>2, <3>2
    <3> QED
      BY Zenon, <1>1, <2>1, <3>1, <3>2, <3>3, <3>4
  <2>2. CASE ~Passed(s, a)
    BY Zenon, <2>2 DEF PlacedInv
  <2> QED
    BY Zenon, <2>1, <2>2
<1>4. ApartInv'
  <2> SUFFICES ASSUME NEW s \in Spaces, NEW t \in Spaces, NEW a \in live[s], NEW b \in live[t],
                      Passed(s, a)', Passed(t, b)', s # t \/ a # b, To(s, a)' = To(t, b)'
               PROVE  \/ At(s, a)' + BlockSize(s, a)' <= At(t, b)'
                      \/ At(t, b)' + BlockSize(t, b)' <= At(s, a)'
    BY Zenon DEF ApartInv
  <2>1. Passed(s, a) /\ Passed(t, b) /\ To(s, a) = To(t, b)
    BY Zenon, <1>1
  <2>2. \/ At(s, a) + BlockSize(s, a) <= At(t, b)
        \/ At(t, b) + BlockSize(t, b) <= At(s, a)
    BY Zenon, <2>1 DEF ApartInv
  <2> QED
    BY Zenon, <1>1, <2>2
<1>5. CoverInv'
  <2> SUFFICES ASSUME NEW r \in Spaces, NEW k \in Nat, Entered(r)', k < Level(r)'
               PROVE  \E s \in Spaces : \E a \in live'[s] :
                        /\ Passed(s, a)' /\ To(s, a)' = r
                        /\ At(s, a)' <= k /\ k < At(s, a)' + BlockSize(s, a)'
    BY Zenon DEF CoverInv
  <2>1. Entered(r) /\ k < Level(r)
    <3>1. Level(r)' # 0
      OBVIOUS
    <3> QED
      BY Zenon, <3>1
  <2>2. \E s \in Spaces : \E a \in live[s] :
          Passed(s, a) /\ To(s, a) = r /\ At(s, a) <= k /\ k < At(s, a) + BlockSize(s, a)
    BY Zenon, <2>1 DEF CoverInv
  <2> QED
    BY Zenon, <1>1, <2>2
<1> QED
  BY Zenon, <1>3, <1>4, <1>5

\* The object at q gets the words above compact_top.
Place ==
  /\ phase = "forward" /\ q \in starts[scan]
  /\ q' = BlockEnd(scan, q) /\ compact_top' = compact_top + BlockSize(scan, q)
  /\ live' = [live EXCEPT ![scan] = @ \cup {q}]
  /\ forwardee' = [forwardee EXCEPT ![<<scan, q>>] = <<cp, compact_top>>]
  /\ UNCHANGED <<used, starts, phase, scan, cp, compaction_top>>

\* What a step leaves of the object at a.
Kept(s, a) ==
  /\ a \in live[s] /\ (Passed(s, a)' <=> Passed(s, a))
  /\ forwardee'[<<s, a>>] = forwardee[<<s, a>>]
  /\ To(s, a)' = To(s, a) /\ At(s, a)' = At(s, a)

\* The n words of the block at x of c get a destination in p, and nothing else changes.
Placing(c, x, p, n) ==
  /\ x \in Nat /\ n \in Nat /\ c \in Spaces /\ p \in Spaces
  /\ x \in live'[c] /\ ~Passed(c, x) /\ Passed(c, x)'
  /\ To(c, x)' = p /\ At(c, x)' = compact_top
  /\ \A s \in Spaces : \A a \in live'[s] : (s = c /\ a = x) \/ Kept(s, a)
  /\ \A s \in Spaces : live[s] \subseteq live'[s]
  /\ Level(p) = compact_top /\ Level(p)' = compact_top + n
  /\ \A r \in Spaces : r # p => Level(r)' = Level(r)
  /\ \A r \in Spaces : Entered(r)' <=> Entered(r)

\* That is what Place does.
LEMMA PlaceEffect ==
  ASSUME LayoutInv, HeapTypes, ControlInv, Place,
         NEW c, c = scan, NEW x, x = q, NEW p, p = cp, NEW n, n = BlockSize(c, x)
  PROVE  Placing(c, x, p, n)
<1>1. /\ c \in Spaces /\ x \in starts[c] /\ phase = "forward" /\ phase' = "forward"
      /\ p \in Spaces /\ scan = c /\ scan' = c /\ cp = p /\ cp' = p /\ q = x
      /\ q' = BlockEnd(c, x) /\ compact_top' = compact_top + n
      /\ compaction_top' = compaction_top
  BY SpaceOrder DEF ControlInv, Place
<1>2. /\ x \in Nat /\ BlockEnd(c, x) \in Nat /\ x < BlockEnd(c, x) /\ n \in Nat
      /\ \A b \in starts[c] : x < b => BlockEnd(c, x) <= b
  BY Zenon, <1>1, Blocks
<1>3. \A s \in Spaces : \A a \in starts[s] : a \in Nat /\ <<s, a>> \in Addresses
  <2> SUFFICES ASSUME NEW s \in Spaces, NEW a \in starts[s]
               PROVE  a \in Nat /\ <<s, a>> \in Addresses
    BY Zenon
  <2>1. a \in Nat /\ a < used[s] /\ used[s] \in Nat /\ used[s] <= Capacity(s)
    BY Zenon DEF LayoutInv
  <2>2. a < Capacity(s)
    BY <2>1, Capacities
  <2> QED
    BY Zenon, <2>1, <2>2, AddressParts
<1>4. x \in live'[c] /\ \A s \in Spaces : live[s] \subseteq live'[s]
  BY Zenon, <1>1 DEF LayoutInv, Place
<1>5. ~Passed(c, x) /\ Passed(c, x)'
  BY <1>1, <1>2, SpaceOrder DEF Passed, Finishing
<1>6. forwardee'[<<c, x>>] = <<p, compact_top>>
  BY Zenon, <1>1, <1>3 DEF Place, HeapTypes
<1>7. To(c, x)' = p /\ At(c, x)' = compact_top
  BY <1>6 DEF To, At
<1>8. ASSUME NEW s \in Spaces, NEW a \in live'[s], ~(s = c /\ a = x)
      PROVE  Kept(s, a)
  <2>1. a \in live[s] /\ a \in starts[s]
    BY Zenon, <1>1, <1>8 DEF LayoutInv, Place
  <2>2. Passed(s, a)' <=> Passed(s, a)
    <3>0. a \in Nat /\ (s = c => a # x /\ (x < a => BlockEnd(c, x) <= a))
      BY Zenon, <1>2, <1>3, <1>8, <2>1
    <3>1. s = c /\ a < BlockEnd(c, x) => a < x
      BY <1>2, <3>0
    <3>2. s = c /\ a < x => a < BlockEnd(c, x)
      BY <1>2, <3>0
    <3> QED
      BY Zenon, <1>1, <3>1, <3>2 DEF Passed, Finishing
  <2>3. <<s, a>> # <<c, x>> /\ <<s, a>> \in Addresses
    BY Zenon, <1>3, <1>8, <2>1
  <2>4. forwardee'[<<s, a>>] = forwardee[<<s, a>>]
    BY Zenon, <1>1, <2>3 DEF Place, HeapTypes
  <2> QED
    BY Zenon, <2>1, <2>2, <2>4 DEF To, At, Kept
<1>9. /\ Level(p) = compact_top /\ Level(p)' = compact_top + n
      /\ \A r \in Spaces : r # p => Level(r)' = Level(r)
  BY Zenon, <1>1 DEF Level
<1>10. \A r \in Spaces : Entered(r)' <=> Entered(r)
  BY Zenon, <1>1 DEF Entered, Finishing
<1> QED
  BY Zenon, <1>1, <1>2, <1>4, <1>5, <1>7, <1>8, <1>9, <1>10 DEF Placing

\* The destinations stay apart, and fill the space without a gap.
LEMMA PlaceKeeps ==
  ASSUME LayoutInv, HeapTypes, ControlInv, TopInv, PlacedInv, ApartInv, CoverInv, Place
  PROVE  PlacedInv' /\ ApartInv' /\ CoverInv'
<1>1. PICK c, x, p, n : c = scan /\ x = q /\ p = cp /\ n = BlockSize(c, x)
  BY Zenon
<1>0. Placing(c, x, p, n)
  BY Zenon, <1>1, PlaceEffect
<1>2. /\ x \in Nat /\ n \in Nat /\ c \in Spaces /\ p \in Spaces
      /\ x \in live'[c] /\ ~Passed(c, x) /\ Passed(c, x)'
      /\ To(c, x)' = p /\ At(c, x)' = compact_top
  BY Zenon, <1>0 DEF Placing
<1>3. \A s \in Spaces : \A a \in live'[s] :
        \/ s = c /\ a = x
        \/ /\ a \in live[s] /\ (Passed(s, a)' <=> Passed(s, a))
           /\ forwardee'[<<s, a>>] = forwardee[<<s, a>>]
           /\ To(s, a)' = To(s, a) /\ At(s, a)' = At(s, a)
  BY Zenon, <1>0 DEF Placing, Kept
<1>4. /\ Level(p) = compact_top /\ Level(p)' = compact_top + n
      /\ \A r \in Spaces : r # p => Level(r)' = Level(r)
      /\ \A r \in Spaces : Entered(r)' <=> Entered(r)
      /\ \A s \in Spaces : live[s] \subseteq live'[s]
  BY Zenon, <1>0 DEF Placing
<1>5. /\ \A s, a : BlockSize(s, a)' = BlockSize(s, a)
      /\ cp' = p /\ compact_top \in Nat /\ p <= c /\ (p = c => compact_top <= x)
      /\ \A r \in Spaces : r \in Nat
  <2>1. \A s, a : BlockSize(s, a)' = BlockSize(s, a)
    BY Zenon, SameBlocks DEF Place
  <2> QED
    BY Zenon, <1>1, <2>1, SpaceOrder DEF ControlInv, Place
<1>6. \A r \in Spaces : Level(r) \in Nat
  BY Zenon, Levels
<1>7. ASSUME NEW s \in Spaces, NEW a \in live[s], Passed(s, a)
      PROVE  /\ To(s, a) \in Spaces /\ To(s, a) <= p /\ At(s, a) \in Nat
             /\ At(s, a) + BlockSize(s, a) <= Level(To(s, a))
             /\ To(s, a) < s \/ (To(s, a) = s /\ At(s, a) <= a)
             /\ BlockSize(s, a) \in Nat
  <2>1. a \in starts[s]
    BY Zenon DEF LayoutInv
  <2>2. BlockSize(s, a) \in Nat
    BY Zenon, <2>1, Blocks
  <2> QED
    BY Zenon, <1>1, <1>7, <2>2 DEF PlacedInv
<1>8. PlacedInv'
  <2> SUFFICES ASSUME NEW s \in Spaces, NEW a \in live'[s]
               PROVE  IF Passed(s, a)'
                        THEN /\ To(s, a)' \in Spaces /\ To(s, a)' <= cp' /\ At(s, a)' \in Nat
                             /\ At(s, a)' + BlockSize(s, a)' <= Level(To(s, a))'
                             /\ To(s, a)' < s \/ (To(s, a)' = s /\ At(s, a)' <= a)
                        ELSE forwardee'[<<s, a>>] = NoAddress
    BY Zenon DEF PlacedInv
  <2>1. CASE s = c /\ a = x
    <3>1. Level(To(s, a))' = Level(p)'
      BY Zenon, <1>2, <2>1 DEF Level
    <3> QED
      BY <1>1, <1>2, <1>4, <1>5, <2>1, <3>1
  <2>2. CASE ~(s = c /\ a = x) /\ Passed(s, a)
    <3>1. PICK r \in Spaces : r = To(s, a)
      BY Zenon, <1>3, <1>7, <2>2
    <3>2. Level(To(s, a))' = Level(r)'
      BY Zenon, <1>3, <2>2, <3>1 DEF Level
    <3>3. Level(r) <= Level(r)' /\ Level(r)' \in Nat
      BY <1>2, <1>4, <1>5, <1>6
    <3>4. /\ a \in live[s] /\ Passed(s, a)' /\ To(s, a)' = r /\ At(s, a)' = At(s, a)
          /\ BlockSize(s, a)' = BlockSize(s, a)
      BY Zenon, <1>3, <1>5, <2>2, <3>1
    <3>5. /\ r <= p /\ At(s, a) \in Nat /\ BlockSize(s, a) \in Nat
          /\ At(s, a) + BlockSize(s, a) <= Level(r)
          /\ r < s \/ (r = s /\ At(s, a) <= a)
      BY Zenon, <1>7, <2>2, <3>1, <3>4
    <3> QED
      BY <1>5, <1>6, <3>2, <3>3, <3>4, <3>5
  <2>3. CASE ~(s = c /\ a = x) /\ ~Passed(s, a)
    BY Zenon, <1>3, <2>3 DEF PlacedInv
  <2> QED
    BY Zenon, <2>1, <2>2, <2>3
<1>9. ASSUME NEW s \in Spaces, NEW a \in live'[s], Passed(s, a)', ~(s = c /\ a = x),
             To(s, a)' = p
      PROVE  At(s, a)' + BlockSize(s, a)' <= compact_top
  BY Zenon, <1>3, <1>4, <1>5, <1>7, <1>9
<1>10. ApartInv'
  <2> SUFFICES ASSUME NEW s \in Spaces, NEW t \in Spaces, NEW a \in live'[s], NEW b \in live'[t],
                      Passed(s, a)', Passed(t, b)', s # t \/ a # b, To(s, a)' = To(t, b)'
               PROVE  \/ At(s, a)' + BlockSize(s, a)' <= At(t, b)'
                      \/ At(t, b)' + BlockSize(t, b)' <= At(s, a)'
    BY Zenon DEF ApartInv
  <2>1. CASE s = c /\ a = x
    BY Zenon, <1>2, <1>9, <2>1
  <2>2. CASE t = c /\ b = x
    BY Zenon, <1>2, <1>9, <2>2
  <2>3. CASE ~(s = c /\ a = x) /\ ~(t = c /\ b = x)
    <3>1. /\ a \in live[s] /\ b \in live[t] /\ Passed(s, a) /\ Passed(t, b)
          /\ To(s, a) = To(t, b) /\ At(s, a)' = At(s, a) /\ At(t, b)' = At(t, b)
      BY Zenon, <1>3, <2>3
    <3>2. \/ At(s, a) + BlockSize(s, a) <= At(t, b)
          \/ At(t, b) + BlockSize(t, b) <= At(s, a)
      BY Zenon, <3>1 DEF ApartInv
    <3> QED
      BY Zenon, <1>5, <3>1, <3>2
  <2> QED
    BY Zenon, <2>1, <2>2, <2>3
<1>11. CoverInv'
  <2> SUFFICES ASSUME NEW r \in Spaces, NEW k \in Nat, Entered(r)', k < Level(r)'
               PROVE  \E s \in Spaces : \E a \in live'[s] :
                        /\ Passed(s, a)' /\ To(s, a)' = r
                        /\ At(s, a)' <= k /\ k < At(s, a)' + BlockSize(s, a)'
    BY Zenon DEF CoverInv
  <2>1. CASE k < Level(r)
    <3>1. PICK s \in Spaces : \E a \in live[s] :
            /\ Passed(s, a) /\ To(s, a) = r
            /\ At(s, a) <= k /\ k < At(s, a) + BlockSize(s, a)
      BY Zenon, <1>4, <2>1 DEF CoverInv
    <3>2. PICK a \in live[s] : /\ Passed(s, a) /\ To(s, a) = r
                               /\ At(s, a) <= k /\ k < At(s, a) + BlockSize(s, a)
      BY Zenon, <3>1
    <3>3. a \in live'[s] /\ ~(s = c /\ a = x)
      BY Zenon, <1>2, <1>4, <3>2
    <3> QED
      BY Zenon, <1>3, <1>5, <3>2, <3>3
  <2>2. CASE ~(k < Level(r))
    <3>1. r = p
      BY Zenon, <1>4, <2>2
    <3>2. compact_top <= k /\ k < compact_top + n
      BY <1>4, <1>5, <2>2, <3>1
    <3> QED
      BY Zenon, <1>1, <1>2, <1>5, <3>1, <3>2
  <2> QED
    BY Zenon, <2>1, <2>2
<1> QED
  BY Zenon, <1>8, <1>10, <1>11

\* What is left is a finite set of words; a step that only passes blocks shrinks it.
LEMMA LeftShrinks ==
  ASSUME UNCHANGED <<used, starts>>,
         \A s \in Spaces : \A a \in live'[s] :
           Passed(s, a)' \/ (a \in live[s] /\ ~Passed(s, a))
  PROVE  /\ Left' \subseteq Left
         /\ Cardinality(Left) \in Nat /\ Cardinality(Left)' \in Nat
         /\ Cardinality(Left)' <= Cardinality(Left)
<1>1. Left' \subseteq Left
  <2> SUFFICES ASSUME NEW w \in Left' PROVE w \in Left
    BY Zenon
  <2>1. w \in Addresses /\ w[1] < YoungEden
    BY Zenon DEF Left
  <2>2. PICK a \in live'[w[1]] : ~Passed(w[1], a)' /\ a <= w[2] /\ w[2] < BlockEnd(w[1], a)'
    BY Zenon DEF Left
  <2>3. w[1] \in Spaces /\ BlockEnd(w[1], a)' = BlockEnd(w[1], a)
    BY Zenon, <2>1, AddressParts, SameBlocks
  <2> QED
    BY Zenon, <2>1, <2>2, <2>3 DEF Left
<1>2. Left \subseteq Addresses /\ {} \subseteq Left /\ Left' \cap {} = {}
  BY Zenon DEF Left
<1>3. /\ Cardinality(Left) \in Nat /\ Cardinality(Left') \in Nat /\ Cardinality({}) \in Nat
      /\ Cardinality(Left') + Cardinality({}) <= Cardinality(Left)
  BY Zenon, <1>1, <1>2, DisjointParts
<1> QED
  BY <1>1, <1>3

\* Before phase 4 no object has been moved.
LEMMA MemBefore ==
  ASSUME MemInv, UNCHANGED <<used, starts, live, mem>>,
         \A s \in Spaces : \A a \in live[s] : ~Moved(s, a) /\ ~Moved(s, a)'
  PROVE  MemInv'
<1>1. \A s, a : BlockSize(s, a)' = BlockSize(s, a)
  BY Zenon, SameBlocks
<1> QED
  BY Zenon, <1>1 DEF MemInv

-----------------------------------------------------------------------------
(* Phase 2 keeps the invariant *)

\* The head of SCAN_AND_FORWARD.
LEMMA EnterSpaceKeeps == ASSUME CInv, EnterSpace PROVE CInv'
<1> USE DEF CInv
<1>1. /\ phase = "enter" /\ phase' = "forward" /\ scan \in Spaces /\ scan' = scan
      /\ q = 0 /\ q' = 0 /\ compact_top \in Nat /\ cp < scan
      /\ UNCHANGED <<used, starts, live, forwardee, top, mem>>
      /\ compaction_top' = [compaction_top EXCEPT ![scan] = 0]
      /\ compaction_top \in [Spaces -> Nat] /\ scan \in Nat /\ cp \in Nat
  BY SpaceOrder DEF EnterSpace, ControlInv, TopInv, layoutVars
<1>2. /\ compaction_top' \in [Spaces -> Nat] /\ compaction_top'[scan] = 0
      /\ \A s \in Spaces : s # scan => compaction_top'[s] = compaction_top[s]
  BY Zenon, <1>1
<1>3. \/ /\ scan = OldSpace /\ cp = NULL /\ cp' = OldSpace /\ compact_top' = 0
         /\ allowed' \in DeadWood
      \/ /\ scan # OldSpace /\ cp # NULL /\ cp \in Spaces /\ cp' = cp /\ allowed' = 0
         /\ compact_top = compaction_top[cp] /\ compact_top' = compact_top
  <2>1. CASE scan = OldSpace
    <3>1. cp = NULL
      BY Zenon, <1>1, <2>1 DEF ControlInv
    <3> QED
      BY Zenon, <1>1, <1>2, <2>1, <3>1 DEF EnterSpace
  <2>2. CASE scan # OldSpace
    <3>1. cp # NULL /\ cp \in Spaces /\ compact_top = compaction_top[cp] /\ cp # scan
      BY <1>1, <2>2, SpaceOrder DEF ControlInv
    <3> QED
      BY Zenon, <1>1, <1>2, <2>2, <3>1 DEF EnterSpace
  <2> QED
    BY Zenon, <2>1, <2>2
<1>4. LayoutInv' /\ HeapTypes'
  BY Zenon, <1>1 DEF LayoutInv, HeapTypes
<1>5. ControlInv'
  <2>1. allowed' \in Nat /\ cp' \in {NULL, OldSpace, YoungEden, From} /\ compact_top' \in Nat
    <3>1. 0 \in Nat /\ DeadWood \subseteq Nat
      BY Zenon, HeapAssumption
    <3> QED
      BY Zenon, <1>1, <1>3, <3>1 DEF ControlInv
  <2>2. cp' # NULL /\ cp' <= scan /\ (cp' = scan => compact_top' = 0)
    BY <1>1, <1>3, SpaceOrder
  <2>3. scan < YoungEden => cp' = OldSpace
    BY Zenon, <1>1, <1>3, SpaceOrder DEF ControlInv, Finishing
  <2>4. compact_top' <= Capacity(cp')
    BY <1>1, <1>3, SpaceOrder, Capacities DEF ControlInv
  <2> QED
    BY <1>1, <2>1, <2>2, <2>3, <2>4 DEF ControlInv, Finishing
<1>6. TopInv'
  <2>1. \A s \in Spaces : s # scan => (Entered(s)' <=> Entered(s))
    BY Zenon, <1>1, SpaceOrder DEF Entered, Finishing
  <2>2. \A s \in Spaces : compaction_top'[s] <= Capacity(s)
    BY <1>2, Capacities DEF TopInv
  <2> QED
    BY Zenon, <1>1, <1>2, <2>1, <2>2 DEF TopInv
<1>7. PlacedInv' /\ ApartInv' /\ CoverInv'
  <2>1. cp' \in Nat /\ cp <= cp'
    BY <1>1, <1>3, SpaceOrder
  <2>2. \A s \in Spaces : \A a \in live[s] : Passed(s, a)' <=> Passed(s, a)
    BY Zenon, <1>1 DEF Passed, Finishing
  <2>3. \A r \in Spaces : r # scan => Level(r)' = Level(r)
    BY Zenon, <1>1, <1>2, <1>3 DEF Level
  <2>4. Level(scan)' = 0
    BY <1>1, <1>2, <1>3 DEF Level
  <2>5. \A r \in Spaces : r # scan => (Entered(r)' <=> Entered(r))
    BY Zenon, <1>1, SpaceOrder DEF Entered, Finishing
  <2>6. \A r \in Spaces : r <= cp => r # scan
    BY <1>1, SpaceOrder
  <2>7. \A r \in Spaces : r <= cp => Level(r)' = Level(r)
    BY Zenon, <2>3, <2>6
  <2>8. \A r \in Spaces : Entered(r)' => Level(r)' = 0 \/ (Entered(r) /\ Level(r)' = Level(r))
    BY Zenon, <1>1, <2>3, <2>4, <2>5
  <2> QED
    BY Zenon, <1>1, <2>1, <2>2, <2>7, <2>8, Steady
<1>8. RoomInv'
  <2>1. \A s \in Spaces : \A a \in live'[s] : Passed(s, a)' \/ (a \in live[s] /\ ~Passed(s, a))
    BY Zenon, <1>1 DEF Passed, Finishing
  <2>2. /\ Cardinality(Left) \in Nat /\ Cardinality(Left)' \in Nat
        /\ Cardinality(Left)' <= Cardinality(Left)
    BY Zenon, <1>1, <2>1, LeftShrinks
  <2>3. scan # OldSpace /\ scan < YoungEden => scan \in TransEdens
    BY <1>1, SpaceOrder
  <2>4. OldSize \in Nat /\ \A d \in DeadWood : d \in Nat
    BY Zenon, HeapAssumption
  <2> QED
    BY <1>1, <1>3, <2>2, <2>3, <2>4 DEF RoomInv
<1>9. MemInv'
  <2>1. \A s \in Spaces : \A a \in live[s] : ~Moved(s, a) /\ ~Moved(s, a)'
    BY Zenon, <1>1 DEF Moved
  <2> QED
    BY Zenon, <1>1, <2>1, MemBefore
<1> QED
  BY Zenon, <1>4, <1>5, <1>6, <1>7, <1>8, <1>9

\* The spaces an object goes to, in turn.
LEMMA NextSpaces == NextSpace(OldSpace) = YoungEden /\ NextSpace(YoungEden) = From
<1>1. /\ OldSpace + 1 \notin Generation(OldSpace) /\ OldSpace # From
      /\ YoungEden + 1 \in Generation(YoungEden) /\ YoungEden + 1 = From /\ From # NULL
      /\ YoungEden # From
  BY SpaceOrder DEF Generation
<1>2. next_compaction_space(OldSpace) = NULL /\ next_compaction_space(YoungEden) = From
  BY Zenon, <1>1 DEF next_compaction_space
<1>3. NextSpace(YoungEden) = From
  BY Zenon, <1>1, <1>2 DEF NextSpace
<1>4. NextSpace(OldSpace) = YoungEden
  BY Zenon, <1>1, <1>2 DEF NextSpace
<1> QED
  BY Zenon, <1>3, <1>4

\* The object at q fits the space being compacted into while the transaction
\* generation is scanned, and whenever that is the space being scanned.
LEMMA FullSpace ==
  ASSUME CInv, phase = "forward", q \in live[scan], ~Fits(BlockSize(scan, q))
  PROVE  /\ scan >= YoungEden
         /\ \/ cp = OldSpace /\ NextSpace(cp) = YoungEden
            \/ cp = YoungEden /\ scan = From /\ NextSpace(cp) = From
<1> USE DEF CInv
<1>0. /\ q \in starts[scan] /\ scan \in Spaces /\ scan \in Nat /\ cp \in Nat /\ cp <= scan
      /\ cp # NULL /\ (cp = scan => compact_top <= q) /\ compact_top \in Nat /\ allowed \in Nat
      /\ cp \in Spaces
  BY SpaceOrder DEF LayoutInv, ControlInv
<1>1. /\ q \in Nat /\ BlockEnd(scan, q) \in Nat /\ BlockEnd(scan, q) <= used[scan]
      /\ used[scan] \in Nat /\ used[scan] <= Capacity(scan)
      /\ BlockSize(scan, q) = BlockEnd(scan, q) - q /\ BlockSize(scan, q) \in Nat
  BY Zenon, <1>0, Blocks
<1>2. BlockSize(scan, q) > Capacity(cp) - compact_top /\ Capacity(cp) \in Nat
  BY <1>0, <1>1, Capacities DEF Fits
<1>3. cp # scan
  BY <1>0, <1>1, <1>2
<1>4. ASSUME scan < YoungEden PROVE FALSE
  <2>1. cp = OldSpace
    BY Zenon, <1>0, <1>4 DEF ControlInv, Finishing
  <2>2. {} \subseteq Left /\ {} \cap ({scan} \X (q .. BlockEnd(scan, q) - 1)) = {}
    BY Zenon
  <2>3. /\ Cardinality({}) \in Nat /\ Cardinality(Left) \in Nat
        /\ Cardinality({}) + BlockSize(scan, q) <= Cardinality(Left)
    BY Zenon, <1>0, <1>4, <2>2, LeftHolds
  <2>4. compact_top + allowed + Cardinality(Left) <= OldSize
    BY Zenon, <1>4 DEF RoomInv
  <2> QED
    BY <1>0, <1>1, <1>2, <2>1, <2>3, <2>4, Capacities
<1>5. scan >= YoungEden
  BY <1>0, <1>4, SpaceOrder
<1>6. cp = OldSpace \/ (cp = YoungEden /\ scan = From)
  BY <1>0, <1>3, <1>5, SpaceOrder DEF ControlInv
<1> QED
  BY Zenon, <1>5, <1>6, NextSpaces

\* forward goes on to the next space.
LEMMA SwitchSpaceKeeps == ASSUME CInv, SwitchSpace PROVE CInv'
<1> USE DEF CInv
<1>0. PICK t : t = NextSpace(cp)
  BY Zenon
<1>1. /\ scan >= YoungEden /\ t # NULL /\ t \in Spaces /\ t \in Nat /\ cp \in Spaces /\ cp \in Nat
      /\ cp < t /\ t <= scan /\ t \in {YoungEden, From} /\ scan \in Spaces /\ scan \in Nat
      /\ cp \notin TransEdens /\ t \notin TransEdens
  <2>1. phase = "forward" /\ q \in live[scan] /\ ~Fits(BlockSize(scan, q))
    BY Zenon DEF SwitchSpace
  <2>2. /\ scan >= YoungEden
        /\ \/ cp = OldSpace /\ t = YoungEden
           \/ cp = YoungEden /\ scan = From /\ t = From
    BY Zenon, <1>0, <2>1, FullSpace
  <2>3. scan \in Spaces
    BY Zenon DEF ControlInv
  <2> QED
    BY <2>2, <2>3, SpaceOrder
<1>2. /\ phase = "forward" /\ phase' = "forward" /\ scan' = scan /\ q' = q /\ cp' = t
      /\ compact_top' = 0 /\ allowed' = allowed /\ compact_top \in Nat
      /\ compaction_top' = [compaction_top EXCEPT ![cp] = compact_top, ![t] = 0]
      /\ UNCHANGED <<used, starts, live, forwardee, top, mem>>
      /\ compaction_top \in [Spaces -> Nat]
  BY Zenon, <1>0, <1>1 DEF SwitchSpace, layoutVars, ControlInv, TopInv
<1>3. /\ compaction_top' \in [Spaces -> Nat] /\ compaction_top'[cp] = compact_top
      /\ compaction_top'[t] = 0
      /\ \A s \in Spaces : s # cp /\ s # t => compaction_top'[s] = compaction_top[s]
  BY <1>1, <1>2
<1>4. LayoutInv' /\ HeapTypes'
  BY Zenon, <1>2 DEF LayoutInv, HeapTypes
<1>5. ControlInv'
  <2>1. 0 <= q /\ 0 <= Capacity(t)
    BY <1>1, Capacities DEF LayoutInv, ControlInv
  <2>2. /\ scan' \in Spaces /\ q' \in starts'[scan'] \cup {used'[scan'], 0} /\ allowed' \in Nat
        /\ ~(scan' < YoungEden)
    BY <1>1, <1>2, SpaceOrder DEF ControlInv
  <2> QED
    BY Zenon, <1>1, <1>2, <2>1, <2>2 DEF ControlInv, Finishing
<1>6. \A s \in Spaces : Entered(s)' <=> Entered(s)
  BY Zenon, <1>2 DEF Entered, Finishing
<1>7. TopInv'
  <2>1. \A s \in Spaces : compaction_top'[s] <= Capacity(s)
    BY <1>1, <1>2, <1>3, Capacities DEF TopInv, ControlInv
  <2> QED
    BY Zenon, <1>1, <1>2, <1>3, <1>6, <2>1 DEF TopInv
<1>8. PlacedInv' /\ ApartInv' /\ CoverInv'
  <2>1. cp' \in Nat /\ cp <= cp'
    BY <1>1, <1>2
  <2>2. \A s \in Spaces : \A a \in live[s] : Passed(s, a)' <=> Passed(s, a)
    BY Zenon, <1>2 DEF Passed, Finishing
  <2>3. \A r \in Spaces : r # t => Level(r)' = Level(r)
    BY Zenon, <1>1, <1>2, <1>3 DEF Level
  <2>4. Level(t)' = 0
    BY Zenon, <1>2 DEF Level
  <2>5. \A r \in Spaces : r <= cp => Level(r)' = Level(r)
    BY <1>1, <2>3, SpaceOrder
  <2>6. \A r \in Spaces : Entered(r)' => Level(r)' = 0 \/ (Entered(r) /\ Level(r)' = Level(r))
    BY Zenon, <1>6, <2>3, <2>4
  <2> QED
    BY Zenon, <1>2, <2>1, <2>2, <2>5, <2>6, Steady
<1>9. RoomInv'
  BY <1>1, <1>2, SpaceOrder DEF RoomInv
<1>10. MemInv'
  <2>1. \A s \in Spaces : \A a \in live[s] : ~Moved(s, a) /\ ~Moved(s, a)'
    BY Zenon, <1>2 DEF Moved
  <2> QED
    BY Zenon, <1>2, <2>1, MemBefore
<1> QED
  BY Zenon, <1>4, <1>5, <1>7, <1>8, <1>9, <1>10

\* forward gives the object at q its address.
LEMMA ForwardKeeps == ASSUME CInv, Forward PROVE CInv'
<1> USE DEF CInv
<1>1. /\ phase = "forward" /\ phase' = "forward" /\ scan' = scan /\ cp' = cp
      /\ q' = BlockEnd(scan, q) /\ compact_top' = compact_top + BlockSize(scan, q)
      /\ forwardee' = [forwardee EXCEPT ![<<scan, q>>] = <<cp, compact_top>>]
      /\ q \in live[scan] /\ Fits(BlockSize(scan, q))
      /\ UNCHANGED <<used, starts, live, allowed, compaction_top, top, mem>>
  BY Zenon DEF Forward, layoutVars
<1>2. /\ q \in starts[scan] /\ scan \in Spaces /\ scan \in Nat /\ cp \in Spaces /\ cp \in Nat
      /\ cp # NULL /\ cp <= scan /\ (cp = scan => compact_top <= q) /\ compact_top \in Nat
      /\ allowed \in Nat
  BY <1>1, SpaceOrder DEF LayoutInv, ControlInv
<1>3. /\ q \in Nat /\ BlockEnd(scan, q) \in Nat /\ q < BlockEnd(scan, q)
      /\ BlockEnd(scan, q) \in starts[scan] \cup {used[scan]}
      /\ BlockSize(scan, q) = BlockEnd(scan, q) - q /\ BlockSize(scan, q) \in Nat
      /\ \A c \in starts[scan] : q < c => BlockEnd(scan, q) <= c
  BY Zenon, <1>2, Blocks
<1>4. compact_top + BlockSize(scan, q) <= Capacity(cp) /\ BlockSize(scan, q) > 0
      /\ compact_top < Capacity(cp)
  BY <1>1, <1>2, <1>3, Capacities DEF Fits
<1>5. Place
  <2>1. live = [live EXCEPT ![scan] = @ \cup {q}]
    BY Zenon, <1>1, <1>2 DEF LayoutInv
  <2> QED
    BY Zenon, <1>1, <1>2, <2>1 DEF Place
<1>6. LayoutInv'
  BY Zenon, <1>1 DEF LayoutInv
<1>7. HeapTypes'
  <2>1. <<cp, compact_top>> \in Addresses
    BY Zenon, <1>2, <1>4, AddressParts
  <2> QED
    BY Zenon, <1>1, <2>1 DEF HeapTypes
<1>8. ControlInv'
  <2>1. cp = scan => compact_top' <= q'
    BY <1>1, <1>2, <1>3
  <2>2. compact_top' \in Nat /\ q' \in starts[scan] \cup {used[scan], 0} /\ compact_top' <= Capacity(cp)
    BY <1>1, <1>2, <1>3, <1>4
  <2> QED
    BY Zenon, <1>1, <1>2, <2>1, <2>2 DEF ControlInv, Finishing
<1>9. TopInv'
  <2>1. \A s \in Spaces : Entered(s)' <=> Entered(s)
    BY Zenon, <1>1 DEF Entered, Finishing
  <2> QED
    BY Zenon, <1>1, <2>1 DEF TopInv
<1>10. PlacedInv' /\ ApartInv' /\ CoverInv'
  BY Zenon, <1>5, PlaceKeeps
<1>11. RoomInv'
  <2> SUFFICES ASSUME scan < YoungEden
               PROVE  compact_top' + allowed' + Cardinality(Left)' <= OldSize
    BY Zenon, <1>1 DEF RoomInv
  <2>1. \A s \in Spaces : \A a \in live'[s] : Passed(s, a)' \/ (a \in live[s] /\ ~Passed(s, a))
    <3> SUFFICES ASSUME NEW s \in Spaces, NEW a \in live[s], Passed(s, a) PROVE Passed(s, a)'
      BY Zenon, <1>1
    <3>1. a \in Nat
      BY Zenon DEF LayoutInv
    <3>2. a < q => a < BlockEnd(scan, q)
      BY <1>3, <3>1
    <3> QED
      BY Zenon, <1>1, <3>2 DEF Passed, Finishing
  <2>2. Left' \subseteq Left
    BY Zenon, <1>1, <2>1, LeftShrinks
  <2>3. Left' \cap ({scan} \X (q .. BlockEnd(scan, q) - 1)) = {}
    <3> SUFFICES ASSUME NEW w \in Left', w \in {scan} \X (q .. BlockEnd(scan, q) - 1) PROVE FALSE
      BY Zenon
    <3>1. w[1] = scan /\ w[2] \in Nat /\ w[2] < BlockEnd(scan, q)
      BY <1>3
    <3>2. PICK a \in live'[w[1]] : ~Passed(w[1], a)' /\ a <= w[2]
      BY Zenon DEF Left
    <3>3. a \in Nat /\ ~(a < BlockEnd(scan, q))
      BY Zenon, <1>1, <1>2, <3>1, <3>2 DEF Passed, Finishing, LayoutInv
    <3> QED
      BY <1>3, <3>1, <3>2, <3>3
  <2>4. /\ Cardinality(Left') \in Nat /\ Cardinality(Left) \in Nat
        /\ Cardinality(Left') + BlockSize(scan, q) <= Cardinality(Left)
    BY Zenon, <1>1, <1>2, <2>2, <2>3, LeftHolds
  <2>5. compact_top + allowed + Cardinality(Left) <= OldSize /\ OldSize \in Nat
    BY Zenon, <1>1, Capacities DEF RoomInv
  <2> QED
    BY <1>1, <1>2, <1>3, <2>4, <2>5
<1>12. MemInv'
  <2>1. \A s \in Spaces : \A a \in live[s] : ~Moved(s, a) /\ ~Moved(s, a)'
    BY Zenon, <1>1 DEF Moved
  <2> QED
    BY Zenon, <1>1, <2>1, MemBefore
<1> QED
  BY Zenon, <1>6, <1>7, <1>8, <1>9, <1>10, <1>11, <1>12

\* The tail of SCAN_AND_FORWARD.
LEMMA LeaveSpaceKeeps == ASSUME CInv, LeaveSpace PROVE CInv'
<1> USE DEF CInv
<1>1. /\ phase = "forward" /\ q = used[scan] /\ q' = 0 /\ cp' = cp
      /\ compaction_top' = [compaction_top EXCEPT ![cp] = compact_top]
      /\ \/ scan = From /\ phase' = "compact" /\ scan' = OldSpace
         \/ scan # From /\ phase' = "enter" /\ scan' = scan + 1
      /\ UNCHANGED <<used, starts, live, compact_top, allowed, forwardee, top, mem>>
  BY Zenon DEF LeaveSpace, layoutVars
<1>2. /\ scan \in Spaces /\ scan \in Nat /\ cp \in Spaces /\ cp \in Nat
      /\ cp # NULL /\ cp <= scan /\ compact_top \in Nat /\ compact_top <= Capacity(cp)
      /\ allowed \in Nat /\ compaction_top \in [Spaces -> Nat]
  BY <1>1, SpaceOrder DEF ControlInv, TopInv
<1>3. /\ compaction_top' \in [Spaces -> Nat] /\ compaction_top'[cp] = compact_top
      /\ \A s \in Spaces : s # cp => compaction_top'[s] = compaction_top[s]
  BY Zenon, <1>1, <1>2
<1>4. LayoutInv' /\ HeapTypes'
  BY Zenon, <1>1 DEF LayoutInv, HeapTypes
<1>5. scan # From => scan + 1 \in Spaces /\ cp < scan + 1 /\ scan + 1 # OldSpace
  BY <1>2, SpaceOrder
<1>6. ControlInv'
  <2>1. scan' \in Spaces /\ allowed' \in Nat /\ compact_top' \in Nat
    BY <1>1, <1>2, <1>5, SpaceOrder
  <2>2. cp' \in {NULL, OldSpace, YoungEden, From}
    BY Zenon, <1>1 DEF ControlInv
  <2>3. scan # From /\ scan + 1 < YoungEden => cp = OldSpace
    BY <1>1, <1>2, SpaceOrder DEF ControlInv, Finishing
  <2> QED
    BY Zenon, <1>1, <1>2, <1>3, <1>5, <2>1, <2>2, <2>3 DEF ControlInv, Finishing
<1>7. \A s \in Spaces : Entered(s)' => Entered(s)
  BY <1>1, <1>2, SpaceOrder DEF Entered, Finishing
<1>8. TopInv'
  <2>1. cp \notin TransEdens
    BY <1>2, SpaceOrder DEF ControlInv
  <2>2. \A s \in Spaces : compaction_top'[s] <= Capacity(s)
    BY Zenon, <1>2, <1>3 DEF TopInv
  <2>3. \A s \in Spaces : ~(phase' = "done" \/ (phase' = "compact" /\ s < scan'))
    BY <1>1, SpaceOrder
  <2> QED
    BY Zenon, <1>1, <1>3, <1>7, <2>1, <2>2, <2>3 DEF TopInv
<1>9. \A s \in Spaces : \A a \in live[s] : Passed(s, a)' <=> Passed(s, a)
  <2> SUFFICES ASSUME NEW s \in Spaces, NEW a \in live[s] PROVE Passed(s, a)' <=> Passed(s, a)
    BY Zenon
  <2>1. a \in Nat /\ a < used[s] /\ s \in Nat
    BY Zenon, SpaceOrder DEF LayoutInv
  <2>2. s <= From
    BY Zenon, SpaceOrder
  <2> QED
    BY <1>1, <1>2, <2>1, <2>2, SpaceOrder DEF Passed, Finishing
<1>10. PlacedInv' /\ ApartInv' /\ CoverInv'
  <2>1. cp' \in Nat /\ cp <= cp'
    BY <1>1, <1>2
  <2>2. \A r \in Spaces : Level(r)' = Level(r)
    BY Zenon, <1>1, <1>2, <1>3 DEF Level
  <2>3. \A r \in Spaces : r <= cp => Level(r)' = Level(r)
    BY Zenon, <2>2
  <2>4. \A r \in Spaces : Entered(r)' => Level(r)' = 0 \/ (Entered(r) /\ Level(r)' = Level(r))
    BY Zenon, <1>7, <2>2
  <2> QED
    BY Zenon, <1>1, <1>9, <2>1, <2>3, <2>4, Steady
<1>11. RoomInv'
  <2>1. \A s \in Spaces : \A a \in live'[s] : Passed(s, a)' \/ (a \in live[s] /\ ~Passed(s, a))
    BY Zenon, <1>1, <1>9
  <2>2. /\ Cardinality(Left) \in Nat /\ Cardinality(Left)' \in Nat
        /\ Cardinality(Left)' <= Cardinality(Left)
    BY Zenon, <1>1, <2>1, LeftShrinks
  <2>3. phase' = "enter" /\ scan' \in TransEdens => scan < YoungEden /\ scan # From
    BY <1>1, <1>2, SpaceOrder
  <2>4. OldSize \in Nat
    BY Zenon, Capacities
  <2> QED
    BY <1>1, <1>2, <1>5, <2>2, <2>3, <2>4 DEF RoomInv
<1>12. MemInv'
  <2>1. \A s \in Spaces : \A a \in live[s] : ~Moved(s, a) /\ ~Moved(s, a)'
    BY <1>1, SpaceOrder DEF Moved, LayoutInv
  <2> QED
    BY Zenon, <1>1, <2>1, MemBefore
<1> QED
  BY Zenon, <1>4, <1>6, <1>8, <1>10, <1>11, <1>12

\* A dead run is left behind, or kept where it is as dead wood.
LEMMA SkipDeadKeeps == ASSUME CInv, SkipDead PROVE CInv'
<1> USE DEF CInv
<1> DEFINE n == BlockSize(scan, q)
<1>1. /\ phase = "forward" /\ phase' = "forward" /\ scan' = scan /\ cp' = cp
      /\ q' = BlockEnd(scan, q) /\ q \in starts[scan] /\ q \notin live[scan]
      /\ UNCHANGED <<used, starts, compaction_top, top>>
  BY Zenon DEF SkipDead
<1>2. /\ scan \in Spaces /\ scan \in Nat /\ cp \in Spaces /\ cp \in Nat
      /\ cp # NULL /\ cp <= scan /\ (cp = scan => compact_top <= q) /\ compact_top \in Nat
      /\ allowed \in Nat
  BY <1>1, SpaceOrder DEF ControlInv
<1>3. /\ q \in Nat /\ BlockEnd(scan, q) \in Nat /\ q < BlockEnd(scan, q)
      /\ BlockEnd(scan, q) \in starts[scan] \cup {used[scan]}
      /\ BlockEnd(scan, q) <= used[scan] /\ used[scan] \in Nat /\ used[scan] <= Capacity(scan)
      /\ n = BlockEnd(scan, q) - q /\ n \in Nat
      /\ \A c \in starts[scan] : q < c => BlockEnd(scan, q) <= c
  BY Zenon, <1>1, <1>2, Blocks
<1>4. \/ /\ allowed > 0 /\ scan = cp /\ q = compact_top /\ allowed >= n
         /\ allowed' = allowed - n /\ live' = [live EXCEPT ![scan] = @ \cup {q}]
         /\ mem' = [a \in Addresses |->
                      IF a[1] = scan /\ a[2] \in q .. q + n - 1
                        THEN <<<<scan, q>>, a[2] - q>> ELSE mem[a]]
         /\ forwardee' = [forwardee EXCEPT ![<<scan, q>>] = <<scan, q>>]
         /\ compact_top' = compact_top + n
      \/ allowed' \in {0, allowed} /\ UNCHANGED <<live, mem, forwardee, compact_top>>
  BY Zenon DEF SkipDead
<1> HIDE DEF n
<1>5. \A s \in Spaces : Entered(s)' <=> Entered(s)
  BY Zenon, <1>1 DEF Entered, Finishing
<1>6. TopInv'
  BY Zenon, <1>1, <1>5 DEF TopInv
<1>7. q' \in starts[scan] \cup {used[scan], 0}
  BY Zenon, <1>1, <1>3
<1>8. OldSize \in Nat
  BY Zenon, Capacities
<1>9. \A s \in Spaces : \A a \in starts[s] :
        (s # scan \/ a # q) => (Passed(s, a)' <=> Passed(s, a))
  <2> SUFFICES ASSUME NEW s \in Spaces, NEW a \in starts[s], s # scan \/ a # q
               PROVE  Passed(s, a)' <=> Passed(s, a)
    BY Zenon
  <2>1. a \in Nat
    BY Zenon DEF LayoutInv
  <2>2. s = scan => (a < q <=> a < BlockEnd(scan, q))
    BY <1>3, <2>1
  <2> QED
    BY Zenon, <1>1, <2>2 DEF Passed, Finishing
<1>10. CASE allowed' \in {0, allowed} /\ UNCHANGED <<live, mem, forwardee, compact_top>>
  <2>1. LayoutInv' /\ HeapTypes'
    BY Zenon, <1>1, <1>10 DEF LayoutInv, HeapTypes
  <2>2. ControlInv'
    <3>1. cp = scan => compact_top <= q'
      BY <1>1, <1>2, <1>3
    <3>2. allowed' \in Nat
      BY <1>2, <1>10
    <3> QED
      BY Zenon, <1>1, <1>2, <1>7, <1>10, <3>1, <3>2 DEF ControlInv, Finishing
  <2>3. \A s \in Spaces : \A a \in live[s] : Passed(s, a)' <=> Passed(s, a)
    <3>1. \A s \in Spaces : \A a \in live[s] : a \in starts[s] /\ (s # scan \/ a # q)
      BY Zenon, <1>1 DEF LayoutInv
    <3> QED
      BY Zenon, <1>9, <3>1
  <2>4. PlacedInv' /\ ApartInv' /\ CoverInv'
    <3>1. cp' \in Nat /\ cp <= cp'
      BY <1>1, <1>2
    <3>2. \A r \in Spaces : Level(r)' = Level(r)
      BY Zenon, <1>1, <1>10 DEF Level
    <3>3. \A r \in Spaces : r <= cp => Level(r)' = Level(r)
      BY Zenon, <3>2
    <3>4. \A r \in Spaces : Entered(r)' => Level(r)' = 0 \/ (Entered(r) /\ Level(r)' = Level(r))
      BY Zenon, <1>5, <3>2
    <3>5. UNCHANGED <<used, starts, live, forwardee>>
      BY Zenon, <1>1, <1>10
    <3> QED
      BY Zenon, <2>3, <3>1, <3>3, <3>4, <3>5, Steady
  <2>5. RoomInv'
    <3>1. \A s \in Spaces : \A a \in live'[s] : Passed(s, a)' \/ (a \in live[s] /\ ~Passed(s, a))
      BY Zenon, <1>10, <2>3
    <3>2. /\ Cardinality(Left) \in Nat /\ Cardinality(Left)' \in Nat
          /\ Cardinality(Left)' <= Cardinality(Left)
      BY Zenon, <1>1, <3>1, LeftShrinks
    <3>3. allowed' \in Nat /\ allowed' <= allowed
      BY <1>2, <1>10
    <3> QED
      BY <1>1, <1>2, <1>8, <1>10, <3>2, <3>3 DEF RoomInv
  <2>6. MemInv'
    <3>1. \A s \in Spaces : \A a \in live[s] : ~Moved(s, a) /\ ~Moved(s, a)'
      BY Zenon, <1>1 DEF Moved
    <3>2. UNCHANGED <<used, starts, live, mem>>
      BY Zenon, <1>1, <1>10
    <3> QED
      BY Zenon, <3>1, <3>2, MemBefore
  <2> QED
    BY Zenon, <1>6, <2>1, <2>2, <2>4, <2>5, <2>6
<1>11. CASE /\ allowed > 0 /\ scan = cp /\ q = compact_top /\ allowed >= n
            /\ allowed' = allowed - n /\ live' = [live EXCEPT ![scan] = @ \cup {q}]
            /\ mem' = [a \in Addresses |->
                         IF a[1] = scan /\ a[2] \in q .. q + n - 1
                           THEN <<<<scan, q>>, a[2] - q>> ELSE mem[a]]
            /\ forwardee' = [forwardee EXCEPT ![<<scan, q>>] = <<scan, q>>]
            /\ compact_top' = compact_top + n
  <2>1. q < Capacity(scan) /\ <<scan, q>> \in Addresses
    BY <1>2, <1>3, AddressParts, Capacities
  <2>2. LayoutInv'
    <3>1. /\ live' \in [Spaces -> SUBSET Nat]
          /\ \A s \in Spaces : live'[s] \subseteq starts[s]
      BY Zenon, <1>1, <1>2, <1>3, <1>11 DEF LayoutInv
    <3> QED
      BY Zenon, <1>1, <3>1 DEF LayoutInv
  <2>3. HeapTypes'
    <3>1. forwardee' \in [Addresses -> Addresses \cup {NoAddress}]
      BY Zenon, <1>11, <2>1 DEF HeapTypes
    <3>2. \A a \in Addresses : mem'[a] \in (Addresses \cup {NoAddress}) \X Nat
      <4> SUFFICES ASSUME NEW a \in Addresses
                   PROVE  mem'[a] \in (Addresses \cup {NoAddress}) \X Nat
        BY Zenon
      <4>1. CASE a[1] = scan /\ a[2] \in q .. q + n - 1
        <5>1. mem'[a] = <<<<scan, q>>, a[2] - q>>
          BY Zenon, <1>11, <4>1
        <5>2. a[2] - q \in Nat
          BY <1>3, <4>1
        <5> QED
          BY <2>1, <5>1, <5>2
      <4>2. CASE ~(a[1] = scan /\ a[2] \in q .. q + n - 1)
        BY Zenon, <1>11, <4>2 DEF HeapTypes
      <4> QED
        BY Zenon, <4>1, <4>2
    <3> QED
      BY Zenon, <1>11, <3>1, <3>2 DEF HeapTypes
  <2>4. ControlInv'
    <3>1. compact_top' = q' /\ compact_top' \in Nat /\ allowed' \in Nat
          /\ compact_top' <= Capacity(cp)
      BY <1>1, <1>2, <1>3, <1>11, Capacities
    <3> QED
      BY Zenon, <1>1, <1>2, <1>3, <1>7, <3>1 DEF ControlInv, Finishing
  <2>5. PlacedInv' /\ ApartInv' /\ CoverInv'
    <3>1. Place
      BY Zenon, <1>1, <1>11 DEF Place, n
    <3> QED
      BY Zenon, <3>1, PlaceKeeps
  <2>6. ASSUME NEW s \in Spaces, NEW a \in live'[s], s # scan \/ a # q
        PROVE  a \in live[s] /\ a \in starts[s] /\ (Passed(s, a)' <=> Passed(s, a))
    <3>1. a \in live[s] /\ a \in starts[s]
      BY Zenon, <1>2, <1>11, <2>6 DEF LayoutInv
    <3> QED
      BY Zenon, <1>9, <2>6, <3>1
  <2>7. PICK c, x : c = scan /\ x = q
    BY Zenon
  <2>8. Passed(c, x)'
    BY Zenon, <1>1, <1>3, <2>7 DEF Passed
  <2>9. RoomInv'
    <3>1. \A s \in Spaces : \A a \in live'[s] : Passed(s, a)' \/ (a \in live[s] /\ ~Passed(s, a))
      BY Zenon, <2>6, <2>7, <2>8
    <3>2. /\ Cardinality(Left) \in Nat /\ Cardinality(Left)' \in Nat
          /\ Cardinality(Left)' <= Cardinality(Left)
      BY Zenon, <1>1, <3>1, LeftShrinks
    <3> QED
      BY <1>1, <1>2, <1>3, <1>8, <1>11, <3>2 DEF RoomInv
  <2>10. MemInv'
    <3> SUFFICES ASSUME NEW s \in Spaces, NEW a \in live'[s], NEW k \in 0 .. BlockSize(s, a) - 1
                 PROVE  mem'[<<s, a + k>>] = <<<<s, a>>, k>>
      <4>1. \A s, a : BlockSize(s, a)' = BlockSize(s, a) /\ ~Moved(s, a)'
        BY Zenon, <1>1, SameBlocks DEF Moved
      <4> QED
        BY Zenon, <4>1 DEF MemInv
    <3>1. a \in starts[s]
      BY Zenon, <1>1, <2>2 DEF LayoutInv
    <3>2. /\ a \in Nat /\ BlockEnd(s, a) \in Nat /\ BlockEnd(s, a) <= used[s]
          /\ used[s] \in Nat /\ used[s] <= Capacity(s)
          /\ BlockSize(s, a) = BlockEnd(s, a) - a
          /\ \A b \in starts[s] : a < b => BlockEnd(s, a) <= b
      BY Zenon, <3>1, Blocks
    <3>3. a + k \in Nat /\ a + k < BlockEnd(s, a) /\ a + k < Capacity(s) /\ k \in Nat
      BY <3>2, Capacities
    <3>4. <<s, a + k>> \in Addresses /\ <<s, a + k>>[1] = s /\ <<s, a + k>>[2] = a + k
      BY Zenon, <3>3, AddressParts
    <3>5. CASE s = scan /\ a = q
      <4>1. a + k \in q .. q + n - 1 /\ a + k - q = k
        BY <1>3, <3>2, <3>3, <3>5
      <4>2. PICK d \in Addresses : d = <<s, a + k>> /\ d[1] = scan /\ d[2] = a + k
        BY Zenon, <3>4, <3>5
      <4>3. mem'[d] = <<<<scan, q>>, d[2] - q>>
        BY Zenon, <1>11, <4>1, <4>2
      <4>4. d[2] - q = k
        BY <1>3, <3>3, <3>5, <4>2
      <4>5. mem'[<<s, a + k>>] = <<<<scan, q>>, k>>
        BY Zenon, <4>2, <4>3, <4>4
      <4> QED
        BY Zenon, <3>5, <4>5
    <3>6. CASE s # scan \/ a # q
      <4>1. s = scan => a + k < q \/ q + n <= a
        BY <1>1, <1>3, <3>1, <3>2, <3>3, <3>6
      <4>2. ~(s = scan /\ a + k \in q .. q + n - 1)
        BY <1>3, <3>2, <3>3, <4>1
      <4>3. mem'[<<s, a + k>>] = mem[<<s, a + k>>]
        BY Zenon, <1>11, <3>4, <4>2
      <4>4. a \in live[s] /\ ~Moved(s, a)
        BY Zenon, <1>1, <2>6, <3>6 DEF Moved
      <4> QED
        BY Zenon, <4>3, <4>4 DEF MemInv
    <3> QED
      BY Zenon, <3>5, <3>6
  <2> QED
    BY Zenon, <1>6, <2>2, <2>3, <2>4, <2>5, <2>9, <2>10
<1> QED
  BY Zenon, <1>4, <1>10, <1>11

-----------------------------------------------------------------------------
(* Phase 4 keeps the invariant *)

\* The words of an object, and of its destination, are addresses.
LEMMA ObjectWords ==
  ASSUME LayoutInv, ControlInv, TopInv, PlacedInv, Finishing,
         NEW s \in Spaces, NEW a \in live[s], NEW k \in 0 .. BlockSize(s, a) - 1
  PROVE  /\ a \in starts[s] /\ a \in Nat /\ k \in Nat /\ BlockSize(s, a) \in Nat
         /\ k < BlockSize(s, a) /\ BlockEnd(s, a) = a + BlockSize(s, a)
         /\ <<s, a + k>> \in Addresses
         /\ To(s, a) \in Spaces /\ At(s, a) \in Nat /\ <<To(s, a), At(s, a) + k>> \in Addresses
         /\ To(s, a) < s \/ (To(s, a) = s /\ At(s, a) <= a)
         /\ \A b \in starts[s] : a < b => BlockEnd(s, a) <= b
<1>1. a \in starts[s]
  BY Zenon DEF LayoutInv
<1>2. /\ a \in Nat /\ BlockEnd(s, a) \in Nat /\ BlockEnd(s, a) <= used[s]
      /\ used[s] \in Nat /\ used[s] <= Capacity(s)
      /\ BlockSize(s, a) = BlockEnd(s, a) - a /\ BlockSize(s, a) \in Nat
      /\ \A b \in starts[s] : a < b => BlockEnd(s, a) <= b
  BY Zenon, <1>1, Blocks
<1>3. k \in Nat /\ k < BlockSize(s, a) /\ BlockEnd(s, a) = a + BlockSize(s, a)
      /\ a + k \in Nat /\ a + k < Capacity(s)
  BY <1>2, Capacities
<1>4. <<s, a + k>> \in Addresses
  BY Zenon, <1>3, AddressParts
<1>5. /\ To(s, a) \in Spaces /\ At(s, a) \in Nat
      /\ At(s, a) + BlockSize(s, a) <= Level(To(s, a))
      /\ To(s, a) < s \/ (To(s, a) = s /\ At(s, a) <= a)
  BY Zenon DEF PlacedInv, Passed
<1>6. Level(To(s, a)) \in Nat /\ Level(To(s, a)) <= Capacity(To(s, a))
      /\ Capacity(To(s, a)) \in Nat
  BY Zenon, <1>5, Levels, Capacities
<1>7. At(s, a) + k \in Nat /\ At(s, a) + k < Capacity(To(s, a))
  BY <1>2, <1>3, <1>5, <1>6
<1>8. <<To(s, a), At(s, a) + k>> \in Addresses
  BY Zenon, <1>5, <1>7, AddressParts
<1> QED
  BY Zenon, <1>1, <1>2, <1>3, <1>4, <1>5, <1>8

\* In phase 4 the destinations are final.
LEMMA FinalPlaces ==
  ASSUME CInv, phase = "compact", phase' \in {"compact", "done"},
         UNCHANGED <<used, starts, live, forwardee, cp, compact_top, compaction_top>>
  PROVE  PlacedInv' /\ ApartInv' /\ CoverInv' /\ RoomInv'
<1> USE DEF CInv
<1>1. cp \in Nat /\ cp <= cp' /\ cp' \in Nat
  BY SpaceOrder DEF ControlInv
<1>2. \A s \in Spaces : \A a \in live[s] : Passed(s, a)' <=> Passed(s, a)
  BY Zenon DEF Passed, Finishing
<1>3. \A r \in Spaces : Level(r)' = Level(r) /\ (Entered(r)' <=> Entered(r))
  BY Zenon DEF Level, Entered, Finishing
<1>4. PlacedInv' /\ ApartInv' /\ CoverInv'
  BY Zenon, <1>1, <1>2, <1>3, Steady
<1>5. RoomInv'
  BY Zenon DEF RoomInv
<1> QED
  BY Zenon, <1>4, <1>5

\* reset_after_compaction.
LEMMA ResetSpaceKeeps == ASSUME CInv, ResetSpace PROVE CInv'
<1> USE DEF CInv
<1>1. /\ phase = "compact" /\ q = used[scan] /\ q' = 0
      /\ top' = [top EXCEPT ![scan] = compaction_top[scan]]
      /\ \/ scan = From /\ phase' = "done" /\ scan' = scan
         \/ scan # From /\ phase' = "compact" /\ scan' = scan + 1
      /\ UNCHANGED <<used, starts, live, cp, compact_top, allowed, compaction_top, forwardee, mem>>
  BY Zenon DEF ResetSpace, layoutVars, cpVars
<1>2. /\ scan \in Spaces /\ scan \in Nat /\ (scan # From => scan + 1 \in Spaces)
  BY SpaceOrder DEF ControlInv
<1>3. LayoutInv' /\ HeapTypes'
  BY Zenon, <1>1 DEF LayoutInv, HeapTypes
<1>4. ControlInv'
  BY Zenon, <1>1, <1>2 DEF ControlInv, Finishing
<1>5. TopInv'
  <2>1. /\ top' \in [Spaces -> Nat] /\ top'[scan] = compaction_top[scan]
        /\ \A s \in Spaces : s # scan => top'[s] = top[s]
    BY Zenon, <1>1, <1>2 DEF TopInv
  <2>2. \A s \in Spaces : Entered(s)
    BY Zenon, <1>1 DEF Entered, Finishing
  <2>3. \A s \in Spaces : s < scan' \/ phase' = "done" => s = scan \/ s < scan
    BY <1>1, <1>2, SpaceOrder
  <2> QED
    BY Zenon, <1>1, <2>1, <2>2, <2>3 DEF TopInv
<1>6. PlacedInv' /\ ApartInv' /\ CoverInv' /\ RoomInv'
  BY Zenon, <1>1, FinalPlaces
<1>7. MemInv'
  <2>1. ASSUME NEW s \in Spaces, NEW a \in live[s] PROVE Moved(s, a)' <=> Moved(s, a)
    <3>1. a \in Nat /\ a < used[s] /\ s \in Nat /\ s <= From
      BY Zenon, SpaceOrder DEF LayoutInv
    <3> QED
      BY <1>1, <1>2, <3>1, SpaceOrder DEF Moved
  <2>2. \A s, a : /\ BlockSize(s, a)' = BlockSize(s, a) /\ To(s, a)' = To(s, a)
                  /\ At(s, a)' = At(s, a)
    BY Zenon, <1>1, SameBlocks DEF To, At
  <2> QED
    BY Zenon, <1>1, <2>1, <2>2 DEF MemInv
<1> QED
  BY Zenon, <1>3, <1>4, <1>5, <1>6, <1>7

\* The object at x of c is copied, and nothing else is written.
Copying(c, x) ==
  /\ mem' \in [Addresses -> (Addresses \cup {NoAddress}) \X Nat]
  /\ \A k \in 0 .. BlockSize(c, x) - 1 :
       mem'[<<To(c, x), At(c, x) + k>>] = mem[<<c, x + k>>]
  /\ \A d \in Addresses :
       mem'[d] = mem[d] \/ \E k \in 0 .. BlockSize(c, x) - 1 : d = <<To(c, x), At(c, x) + k>>

\* That is what CompactBlock does with an object that does not stay.
LEMMA CopyEffect ==
  ASSUME CInv, CompactBlock, NEW c, c = scan, NEW x, x = q, x \in live[c],
         forwardee[<<c, x>>] # <<c, x>>
  PROVE  Copying(c, x)
<1> USE DEF CInv
<1>1. /\ c \in Spaces /\ Finishing
      /\ mem' = [a \in Addresses |->
                   IF a \in Destination(<<c, x>>)
                     THEN mem[<<c, x + (a[2] - At(c, x))>>] ELSE mem[a]]
  BY Zenon DEF CompactBlock, ControlInv, Finishing, At
<1>2. Destination(<<c, x>>) = {<<To(c, x), At(c, x) + k>> : k \in 0 .. BlockSize(c, x) - 1}
  BY Zenon DEF Destination, To, At
<1>3. ASSUME NEW k \in 0 .. BlockSize(c, x) - 1
      PROVE  mem'[<<To(c, x), At(c, x) + k>>] = mem[<<c, x + k>>]
  <2>1. <<To(c, x), At(c, x) + k>> \in Addresses /\ At(c, x) \in Nat /\ k \in Nat
    BY Zenon, <1>1, ObjectWords
  <2>2. <<To(c, x), At(c, x) + k>> \in Destination(<<c, x>>)
    BY Zenon, <1>2
  <2>3. <<To(c, x), At(c, x) + k>>[2] - At(c, x) = k
    BY <2>1
  <2> QED
    BY Zenon, <1>1, <2>1, <2>2, <2>3
<1>4. ASSUME NEW d \in Addresses, mem'[d] # mem[d]
      PROVE  \E k \in 0 .. BlockSize(c, x) - 1 : d = <<To(c, x), At(c, x) + k>>
  BY Zenon, <1>1, <1>2, <1>4
<1>5. ASSUME NEW d \in Addresses PROVE mem'[d] \in (Addresses \cup {NoAddress}) \X Nat
  <2>1. \A k \in 0 .. BlockSize(c, x) - 1 : <<c, x + k>> \in Addresses
    BY Zenon, <1>1, ObjectWords
  <2>2. mem'[d] = mem[d] \/ \E k \in 0 .. BlockSize(c, x) - 1 : mem'[d] = mem[<<c, x + k>>]
    <3>1. CASE mem'[d] # mem[d]
      <4>1. PICK k \in 0 .. BlockSize(c, x) - 1 : d = <<To(c, x), At(c, x) + k>>
        BY Zenon, <1>4, <3>1
      <4> QED
        BY Zenon, <1>3, <4>1
    <3> QED
      BY Zenon, <3>1
  <2>3. \A a \in Addresses : mem[a] \in (Addresses \cup {NoAddress}) \X Nat
    BY Zenon DEF HeapTypes
  <2> QED
    BY Zenon, <2>1, <2>2, <2>3
<1>6. mem' \in [Addresses -> (Addresses \cup {NoAddress}) \X Nat]
  <2>1. mem' = [d \in Addresses |-> mem'[d]]
    BY Zenon, <1>1
  <2> QED
    BY Zenon, <1>5, <2>1
<1> QED
  BY Zenon, <1>3, <1>4, <1>6 DEF Copying

\* An object is copied, or the block is not an object, or it stays.
LEMMA CompactBlockKeeps == ASSUME CInv, CompactBlock PROVE CInv'
<1> USE DEF CInv
<1>0. PICK c, x : c = scan /\ x = q
  BY Zenon
<1>1. /\ phase = "compact" /\ phase' = "compact" /\ Finishing /\ x \in starts[c] /\ c \in Spaces
      /\ scan' = c /\ q' = BlockEnd(c, x)
      /\ UNCHANGED <<used, starts, live, cp, compact_top, allowed, compaction_top, forwardee, top>>
      /\ (~(x \in live[c] /\ forwardee[<<c, x>>] # <<c, x>>) => mem' = mem)
  BY Zenon, <1>0 DEF CompactBlock, layoutVars, cpVars, ControlInv, Finishing
<1>2. /\ x \in Nat /\ BlockEnd(c, x) \in Nat /\ x < BlockEnd(c, x)
      /\ BlockEnd(c, x) \in starts[c] \cup {used[c]}
      /\ BlockEnd(c, x) = x + BlockSize(c, x) /\ BlockSize(c, x) \in Nat
      /\ \A b \in starts[c] : x < b => BlockEnd(c, x) <= b
  <2>1. /\ x \in Nat /\ BlockEnd(c, x) \in Nat /\ x < BlockEnd(c, x)
        /\ BlockEnd(c, x) \in starts[c] \cup {used[c]}
        /\ BlockSize(c, x) = BlockEnd(c, x) - x /\ BlockSize(c, x) \in Nat
        /\ \A b \in starts[c] : x < b => BlockEnd(c, x) <= b
    BY Zenon, <1>1, Blocks
  <2> QED
    BY <2>1
<1>3. LayoutInv'
  BY Zenon, <1>1 DEF LayoutInv
<1>4. HeapTypes'
  <2>1. CASE ~(x \in live[c] /\ forwardee[<<c, x>>] # <<c, x>>)
    BY Zenon, <1>1, <2>1 DEF HeapTypes
  <2>2. CASE x \in live[c] /\ forwardee[<<c, x>>] # <<c, x>>
    <3>1. Copying(c, x)
      BY Zenon, <1>0, <2>2, CopyEffect
    <3> QED
      BY Zenon, <1>1, <3>1 DEF HeapTypes, Copying
  <2> QED
    BY Zenon, <2>1, <2>2
<1>5. ControlInv'
  BY Zenon, <1>0, <1>1, <1>2 DEF ControlInv, Finishing
<1>6. TopInv'
  <2>1. \A s \in Spaces : Entered(s)' <=> Entered(s)
    BY Zenon, <1>1 DEF Entered, Finishing
  <2> QED
    BY Zenon, <1>0, <1>1, <2>1 DEF TopInv
<1>7. PlacedInv' /\ ApartInv' /\ CoverInv' /\ RoomInv'
  BY Zenon, <1>1, FinalPlaces
<1>8. ASSUME NEW s \in Spaces, NEW a \in live[s]
      PROVE  /\ a \in starts[s] /\ a \in Nat /\ s \in Nat /\ c \in Nat
             /\ Moved(s, a) <=> s < c \/ (s = c /\ a < x)
             /\ Moved(s, a)' <=> s < c \/ (s = c /\ a <= x)
  <2>1. a \in starts[s] /\ a \in Nat /\ s \in Nat /\ c \in Nat
    BY Zenon, <1>1, SpaceOrder DEF LayoutInv
  <2>2. Moved(s, a) <=> s < c \/ (s = c /\ a < x)
    BY Zenon, <1>0, <1>1 DEF Moved
  <2>3. s = c => (a < BlockEnd(c, x) <=> a <= x)
    BY <1>2, <2>1
  <2>4. Moved(s, a)' <=> s < c \/ (s = c /\ a < BlockEnd(c, x))
    BY Zenon, <1>1 DEF Moved
  <2> QED
    BY Zenon, <2>1, <2>2, <2>3, <2>4
<1>9. MemInv'
  <2> SUFFICES ASSUME NEW s \in Spaces, NEW a \in live[s], NEW k \in 0 .. BlockSize(s, a) - 1
               PROVE  IF Moved(s, a)' THEN mem'[<<To(s, a), At(s, a) + k>>] = <<<<s, a>>, k>>
                                      ELSE mem'[<<s, a + k>>] = <<<<s, a>>, k>>
    <3>1. \A s, a : /\ BlockSize(s, a)' = BlockSize(s, a) /\ To(s, a)' = To(s, a)
                    /\ At(s, a)' = At(s, a)
      BY Zenon, <1>1, SameBlocks DEF To, At
    <3> QED
      BY Zenon, <1>1, <3>1 DEF MemInv
  <2>1. /\ k \in Nat /\ BlockSize(s, a) \in Nat /\ k < BlockSize(s, a)
        /\ BlockEnd(s, a) = a + BlockSize(s, a) /\ <<s, a + k>> \in Addresses
        /\ To(s, a) \in Spaces /\ At(s, a) \in Nat /\ <<To(s, a), At(s, a) + k>> \in Addresses
        /\ \A b \in starts[s] : a < b => BlockEnd(s, a) <= b
    BY Zenon, <1>1, ObjectWords
  <2>2. IF Moved(s, a) THEN mem[<<To(s, a), At(s, a) + k>>] = <<<<s, a>>, k>>
                       ELSE mem[<<s, a + k>>] = <<<<s, a>>, k>>
    BY Zenon DEF MemInv
  <2>3. CASE s = c /\ a = x /\ forwardee[<<c, x>>] = <<c, x>>
    <3>1. To(c, x) = c /\ At(c, x) = x
      BY <2>3 DEF To, At
    <3>2. ~Moved(s, a)
      BY <1>8, <2>3
    <3> QED
      BY Zenon, <1>1, <2>2, <2>3, <3>1, <3>2
  <2>4. CASE s = c /\ a = x /\ forwardee[<<c, x>>] # <<c, x>>
    <3>1. ~Moved(s, a) /\ Moved(s, a)'
      BY <1>8, <2>4
    <3>2. Copying(c, x)
      BY Zenon, <1>0, <2>4, CopyEffect
    <3>3. mem'[<<To(c, x), At(c, x) + k>>] = mem[<<c, x + k>>]
      BY Zenon, <2>4, <3>2 DEF Copying
    <3> QED
      BY Zenon, <2>2, <2>4, <3>1, <3>3
  <2>5. CASE ~(s = c /\ a = x)
    <3>1. Moved(s, a)' <=> Moved(s, a)
      BY <1>2, <1>8, <2>5
    <3>2. CASE ~(x \in live[c] /\ forwardee[<<c, x>>] # <<c, x>>)
      BY Zenon, <1>1, <2>2, <3>1, <3>2
    <3>3. CASE x \in live[c] /\ forwardee[<<c, x>>] # <<c, x>>
      <4>1. PICK d \in Addresses : /\ mem[d] = <<<<s, a>>, k>>
                                   /\ d = IF Moved(s, a) THEN <<To(s, a), At(s, a) + k>>
                                                         ELSE <<s, a + k>>
        BY Zenon, <2>1, <2>2
      <4>2. ASSUME NEW j \in 0 .. BlockSize(c, x) - 1, d = <<To(c, x), At(c, x) + j>>
            PROVE  FALSE
        <5>1. /\ j \in Nat /\ j < BlockSize(c, x) /\ To(c, x) \in Spaces /\ At(c, x) \in Nat
              /\ To(c, x) < c \/ (To(c, x) = c /\ At(c, x) <= x)
          BY Zenon, <1>1, <3>3, ObjectWords
        <5>2. CASE Moved(s, a)
          <6>1. To(s, a) = To(c, x) /\ At(s, a) + k = At(c, x) + j
            BY <4>1, <4>2, <5>2
          <6>2. \/ At(s, a) + BlockSize(s, a) <= At(c, x)
                \/ At(c, x) + BlockSize(c, x) <= At(s, a)
            BY Zenon, <1>1, <2>5, <3>3, <6>1 DEF ApartInv, Passed
          <6> QED
            BY <1>2, <2>1, <5>1, <6>1, <6>2
        <5>3. CASE ~Moved(s, a)
          <6>1. s = To(c, x) /\ a + k = At(c, x) + j
            BY <4>1, <4>2, <5>3
          <6>2. s = c /\ x < a /\ At(c, x) <= x
            BY <1>2, <1>8, <2>5, <5>1, <5>3, <6>1
          <6>3. x + BlockSize(c, x) <= a
            BY Zenon, <1>2, <1>8, <6>2
          <6> QED
            BY <1>2, <1>8, <2>1, <5>1, <6>1, <6>2, <6>3
        <5> QED
          BY Zenon, <5>2, <5>3
      <4>0. Copying(c, x)
        BY Zenon, <1>0, <3>3, CopyEffect
      <4>3. mem'[d] = mem[d]
        BY Zenon, <4>0, <4>2 DEF Copying
      <4> QED
        BY Zenon, <3>1, <4>1, <4>3
    <3> QED
      BY Zenon, <3>2, <3>3
  <2> QED
    BY Zenon, <2>3, <2>4, <2>5
<1> QED
  BY Zenon, <1>3, <1>4, <1>5, <1>6, <1>7, <1>9

\* Every step keeps the invariant.
LEMMA StepKeeps == ASSUME CInv, [Next]_vars PROVE CInv'
<1>1. CASE UNCHANGED vars
  <2>1. UNCHANGED <<used, starts, live, phase, scan, q, cp, compact_top, allowed>>
        /\ UNCHANGED <<compaction_top, forwardee, top, mem>>
    BY Zenon, <1>1 DEF vars, layoutVars, scanVars, cpVars
  <2> USE DEF CInv
  <2>2. LayoutInv' /\ HeapTypes'
    BY Zenon, <2>1 DEF LayoutInv, HeapTypes
  <2>3. ControlInv'
    BY Zenon, <2>1 DEF ControlInv, Finishing
  <2>4. /\ \A r \in Spaces : Level(r)' = Level(r) /\ (Entered(r)' <=> Entered(r))
        /\ \A s \in Spaces : \A a \in live[s] : /\ Passed(s, a)' <=> Passed(s, a)
                                                /\ Moved(s, a)' <=> Moved(s, a)
    BY Zenon, <2>1 DEF Level, Entered, Passed, Moved, Finishing
  <2>5. TopInv'
    BY Zenon, <2>1, <2>4 DEF TopInv
  <2>6. PlacedInv' /\ ApartInv' /\ CoverInv'
    <3>1. cp \in Nat /\ cp <= cp' /\ cp' \in Nat
      BY <2>1, SpaceOrder DEF ControlInv
    <3> QED
      BY Zenon, <2>1, <2>4, <3>1, Steady
  <2>7. RoomInv'
    <3>1. Left' = Left
      BY Zenon, <2>1 DEF Left, Passed, Finishing, BlockEnd
    <3> QED
      BY Zenon, <2>1, <3>1 DEF RoomInv
  <2>8. MemInv'
    <3>1. \A s, a : /\ BlockSize(s, a)' = BlockSize(s, a) /\ To(s, a)' = To(s, a)
                    /\ At(s, a)' = At(s, a)
      BY Zenon, <2>1, SameBlocks DEF To, At
    <3> QED
      BY Zenon, <2>1, <2>4, <3>1 DEF MemInv
  <2> QED
    BY Zenon, <2>2, <2>3, <2>5, <2>6, <2>7, <2>8
<1>2. CASE Terminated
  BY Zenon, <1>1, <1>2 DEF Terminated
<1> QED
  BY Zenon, <1>1, <1>2, EnterSpaceKeeps, SwitchSpaceKeeps, ForwardKeeps, SkipDeadKeeps,
     LeaveSpaceKeeps, CompactBlockKeeps, ResetSpaceKeeps DEF Next

-----------------------------------------------------------------------------
(* The invariant holds when the collection starts *)

\* What a layout of m words is.
LEMMA LayoutFacts ==
  ASSUME NEW m \in Nat, NEW l \in Layouts(m)
  PROVE  /\ l.used \in Nat /\ l.used <= m /\ l.starts \subseteq Nat /\ l.live \subseteq l.starts
         /\ \A a \in l.starts : a < l.used
         /\ l.used > 0 => 0 \in l.starts
<1>1. /\ l \in [used : 0 .. m, starts : SUBSET (0 .. m - 1), live : SUBSET (0 .. m - 1)]
      /\ l.starts \subseteq 0 .. l.used - 1 /\ l.live \subseteq l.starts
      /\ l.used > 0 => 0 \in l.starts
  BY Zenon DEF Layouts
<1>2. l.used \in Nat /\ l.used <= m
  BY <1>1
<1> QED
  BY <1>1, <1>2

\* Each space is filled in one of these ways.
LEMMA InitLayout == ASSUME Init PROVE LayoutInv
<1>1. PICK old \in Layouts(OldSize), edens \in [TransEdens -> Layouts(EdenSize)],
           young \in Layouts(YoungSize), from \in Layouts(FromSize) :
        LET layout == [s \in Spaces |-> CASE s = OldSpace -> old
                                          [] s \in TransEdens -> edens[s]
                                          [] s = YoungEden -> young
                                          [] s = From -> from]
        IN  /\ used = [s \in Spaces |-> layout[s].used]
            /\ starts = [s \in Spaces |-> layout[s].starts]
            /\ live = [s \in Spaces |-> layout[s].live]
  BY Zenon DEF Init
<1> DEFINE layout == [s \in Spaces |-> CASE s = OldSpace -> old
                                         [] s \in TransEdens -> edens[s]
                                         [] s = YoungEden -> young
                                         [] s = From -> from]
<1>2. /\ used = [s \in Spaces |-> layout[s].used]
      /\ starts = [s \in Spaces |-> layout[s].starts]
      /\ live = [s \in Spaces |-> layout[s].live]
  BY Zenon, <1>1
<1>3. ASSUME NEW s \in Spaces PROVE layout[s] \in Layouts(Capacity(s))
  <2>1. s = OldSpace \/ s \in TransEdens \/ s = YoungEden \/ s = From
    BY SpaceOrder
  <2>2. /\ OldSpace \notin TransEdens /\ YoungEden \notin TransEdens /\ From \notin TransEdens
        /\ OldSpace # YoungEden /\ OldSpace # From /\ YoungEden # From
    BY SpaceOrder
  <2>3. CASE s = OldSpace
    BY Zenon, <2>2, <2>3 DEF Capacity
  <2>4. CASE s \in TransEdens
    BY Zenon, <2>2, <2>4 DEF Capacity
  <2>5. CASE s = YoungEden
    BY Zenon, <2>2, <2>5 DEF Capacity
  <2>6. CASE s = From
    BY Zenon, <2>2, <2>6 DEF Capacity
  <2> QED
    BY Zenon, <2>1, <2>3, <2>4, <2>5, <2>6
<1> HIDE DEF layout
<1>4. ASSUME NEW s \in Spaces
      PROVE  /\ used[s] \in Nat /\ starts[s] \subseteq Nat /\ live[s] \subseteq starts[s]
             /\ used[s] <= Capacity(s) /\ \A a \in starts[s] : a < used[s]
             /\ used[s] > 0 => 0 \in starts[s]
  <2>1. used[s] = layout[s].used /\ starts[s] = layout[s].starts /\ live[s] = layout[s].live
    BY Zenon, <1>2
  <2>2. Capacity(s) \in Nat /\ layout[s] \in Layouts(Capacity(s))
    BY Zenon, <1>3, Capacities
  <2>3. PICK l \in Layouts(Capacity(s)) : l = layout[s]
    BY Zenon, <2>2
  <2>4. /\ l.used \in Nat /\ l.used <= Capacity(s) /\ l.starts \subseteq Nat
        /\ l.live \subseteq l.starts /\ \A a \in l.starts : a < l.used
        /\ l.used > 0 => 0 \in l.starts
    BY Zenon, <2>2, LayoutFacts
  <2> QED
    BY Zenon, <2>1, <2>3, <2>4
<1>5. used \in [Spaces -> Nat] /\ starts \in [Spaces -> SUBSET Nat] /\ live \in [Spaces -> SUBSET Nat]
  <2>1. /\ used = [s \in Spaces |-> used[s]] /\ starts = [s \in Spaces |-> starts[s]]
        /\ live = [s \in Spaces |-> live[s]]
    BY Zenon, <1>2
  <2>2. \A s \in Spaces : used[s] \in Nat /\ starts[s] \in SUBSET Nat /\ live[s] \in SUBSET Nat
    BY Zenon, <1>4
  <2> QED
    BY Zenon, <2>1, <2>2
<1> QED
  BY Zenon, <1>4, <1>5 DEF LayoutInv

\* The words of the live objects.
LEMMA Regions ==
  ASSUME LayoutInv
  PROVE  /\ \A s \in Spaces : \A a \in live[s] : <<s, a>> \in Objects
         /\ \A o \in Objects : \E s \in Spaces : \E a \in live[s] : o = <<s, a>>
         /\ \A o \in Objects : o \in Addresses
         /\ \A o \in Objects : \A d \in Region(o) :
              /\ d \in Addresses /\ d[1] = o[1] /\ d[2] \in Nat /\ o[2] \in Nat
              /\ o[2] <= d[2] /\ d[2] < BlockEnd(o[1], o[2])
         /\ \A s \in Spaces : \A a \in live[s] : \A w \in Nat :
              a <= w /\ w < BlockEnd(s, a) => <<s, w>> \in Region(<<s, a>>)
<1>1. \A s \in Spaces : \A a \in live[s] : <<s, a>> \in Objects
  BY DEF Objects
<1>2. \A o \in Objects : \E s \in Spaces : \E a \in live[s] : o = <<s, a>>
  BY DEF Objects
<1>3. ASSUME NEW s \in Spaces, NEW a \in live[s]
      PROVE  /\ a \in starts[s] /\ a \in Nat /\ BlockEnd(s, a) \in Nat /\ a < BlockEnd(s, a)
             /\ BlockEnd(s, a) <= Capacity(s) /\ BlockSize(s, a) = BlockEnd(s, a) - a
             /\ Capacity(s) \in Nat
  <2>1. a \in starts[s]
    BY Zenon DEF LayoutInv
  <2>2. /\ a \in Nat /\ BlockEnd(s, a) \in Nat /\ a < BlockEnd(s, a)
        /\ BlockEnd(s, a) <= used[s] /\ used[s] \in Nat /\ used[s] <= Capacity(s)
        /\ BlockSize(s, a) = BlockEnd(s, a) - a
    BY Zenon, <2>1, Blocks
  <2> QED
    BY <2>1, <2>2, Capacities
<1>4. ASSUME NEW o \in Objects PROVE o \in Addresses
  <2>1. PICK s \in Spaces : \E a \in live[s] : o = <<s, a>>
    BY Zenon, <1>2
  <2>2. PICK a \in live[s] : o = <<s, a>>
    BY Zenon, <2>1
  <2>3. a \in Nat /\ a < Capacity(s)
    BY <1>3
  <2> QED
    BY Zenon, <2>2, <2>3, AddressParts
<1>5. ASSUME NEW o \in Objects, NEW d \in Region(o)
      PROVE  /\ d \in Addresses /\ d[1] = o[1] /\ d[2] \in Nat /\ o[2] \in Nat
             /\ o[2] <= d[2] /\ d[2] < BlockEnd(o[1], o[2])
  <2>1. PICK s \in Spaces : \E a \in live[s] : o = <<s, a>>
    BY Zenon, <1>2
  <2>2. PICK a \in live[s] : o = <<s, a>>
    BY Zenon, <2>1
  <2>3. o[1] = s /\ o[2] = a
    BY Zenon, <2>2
  <2>4. PICK k \in 0 .. BlockSize(s, a) - 1 : d = <<s, a + k>>
    BY Zenon, <2>3 DEF Region
  <2>5. a + k \in Nat /\ a + k < BlockEnd(s, a) /\ a <= a + k /\ a + k < Capacity(s) /\ a \in Nat
    BY <1>3
  <2>6. <<s, a + k>> \in Addresses
    BY Zenon, <2>5, AddressParts
  <2>7. d[1] = s /\ d[2] = a + k
    BY Zenon, <2>4
  <2> QED
    BY Zenon, <2>3, <2>4, <2>5, <2>6, <2>7
<1>6. ASSUME NEW s \in Spaces, NEW a \in live[s], NEW w \in Nat, a <= w, w < BlockEnd(s, a)
      PROVE  <<s, w>> \in Region(<<s, a>>)
  <2>1. w - a \in 0 .. BlockSize(s, a) - 1 /\ a + (w - a) = w
    BY <1>3, <1>6
  <2>2. <<s, a>>[1] = s /\ <<s, a>>[2] = a
    BY Zenon
  <2> QED
    BY Zenon, <2>1, <2>2 DEF Region
<1> QED
  BY Zenon, <1>1, <1>2, <1>4, <1>5, <1>6

\* Objects do not share words.
LEMMA RegionsDisjoint ==
  ASSUME LayoutInv, NEW o \in Objects, NEW p \in Objects, NEW d, d \in Region(o), d \in Region(p)
  PROVE  o = p
<1>1. PICK s \in Spaces : \E a \in live[s] : o = <<s, a>>
  BY Zenon, Regions
<1>2. PICK a \in live[s] : o = <<s, a>>
  BY Zenon, <1>1
<1>3. PICK t \in Spaces : \E b \in live[t] : p = <<t, b>>
  BY Zenon, Regions
<1>4. PICK b \in live[t] : p = <<t, b>>
  BY Zenon, <1>3
<1>5. o[1] = s /\ o[2] = a /\ p[1] = t /\ p[2] = b
  BY Zenon, <1>2, <1>4
<1>6. /\ d[1] = s /\ d[1] = t /\ d[2] \in Nat /\ a \in Nat /\ b \in Nat
      /\ a <= d[2] /\ d[2] < BlockEnd(s, a) /\ b <= d[2] /\ d[2] < BlockEnd(t, b)
  BY Zenon, <1>5, Regions
<1>7. a \in starts[s] /\ b \in starts[s]
  BY Zenon, <1>6 DEF LayoutInv
<1>8. (a < b => BlockEnd(s, a) <= b) /\ (b < a => BlockEnd(s, b) <= a)
      /\ BlockEnd(s, a) \in Nat /\ BlockEnd(s, b) \in Nat
  BY Zenon, <1>7, Blocks
<1>9. a = b
  BY <1>6, <1>8
<1> QED
  BY Zenon, <1>2, <1>4, <1>6, <1>9

\* The words left to be passed are those of the survivors of the old and of the
\* transaction generation.
LEMMA InitRoom ==
  ASSUME LayoutInv
  PROVE  /\ Cardinality(Left) \in Nat /\ Cardinality(SurvivorsOf({OldSpace} \cup TransEdens)) \in Nat
         /\ Cardinality(Left) <= Cardinality(SurvivorsOf({OldSpace} \cup TransEdens))
<1> DEFINE U == SurvivorsOf({OldSpace} \cup TransEdens)
<1>1. U \subseteq Addresses
  <2> SUFFICES ASSUME NEW w \in U PROVE w \in Addresses
    BY Zenon
  <2>1. PICK o \in Objects : w \in Region(o)
    BY Zenon DEF SurvivorsOf
  <2> QED
    BY Zenon, <2>1, Regions
<1>2. ASSUME NEW w \in Left PROVE w \in U
  <2>1. w \in Addresses /\ w[1] < YoungEden
    BY Zenon DEF Left
  <2>2. PICK a \in live[w[1]] : a <= w[2] /\ w[2] < BlockEnd(w[1], a)
    BY Zenon DEF Left
  <2>3. w = <<w[1], w[2]>> /\ w[1] \in Spaces /\ w[2] \in Nat
    BY Zenon, <2>1, AddressParts
  <2>4. w[1] \in {OldSpace} \cup TransEdens
    BY <2>1, <2>3, SpaceOrder
  <2>5. <<w[1], a>> \in Objects /\ <<w[1], w[2]>> \in Region(<<w[1], a>>)
    BY Zenon, <2>2, <2>3, Regions
  <2>6. <<w[1], a>>[1] = w[1]
    BY Zenon
  <2> QED
    BY Zenon, <2>3, <2>4, <2>5, <2>6 DEF SurvivorsOf
<1>3. Left \subseteq U /\ {} \subseteq U /\ Left \cap {} = {}
  BY Zenon, <1>2
<1> HIDE DEF U
<1>4. /\ Cardinality(U) \in Nat /\ Cardinality(Left) \in Nat /\ Cardinality({}) \in Nat
      /\ Cardinality(Left) + Cardinality({}) <= Cardinality(U)
  BY Zenon, <1>1, <1>3, DisjointParts
<1>5. Cardinality(Left) <= Cardinality(U)
  BY <1>4
<1> QED
  BY Zenon, <1>4, <1>5 DEF U

\* Memory holds the objects.
LEMMA InitMem == ASSUME Init PROVE HeapTypes /\ MemInv
<1>0. LayoutInv
  BY Zenon, InitLayout
<1>1. mem = [a \in Addresses |->
               IF \E o \in Objects : a \in Region(o)
                 THEN LET o == CHOOSE p \in Objects : a \in Region(p)
                      IN  <<o, a[2] - o[2]>>
                 ELSE Garbage]
  BY Zenon DEF Init
<1>2. ASSUME NEW o \in Objects, NEW d \in Region(o)
      PROVE  d \in Addresses /\ mem[d] = <<o, d[2] - o[2]>>
  <2>1. d \in Addresses
    BY Zenon, <1>0, Regions
  <2>2. PICK p : p = CHOOSE r \in Objects : d \in Region(r)
    BY Zenon
  <2>3. p \in Objects /\ d \in Region(p)
    BY Zenon, <2>2
  <2>4. p = o
    BY Zenon, <1>0, <2>3, RegionsDisjoint
  <2>5. mem[d] = <<p, d[2] - p[2]>>
    BY Zenon, <1>1, <2>1, <2>2
  <2> QED
    BY Zenon, <2>1, <2>4, <2>5
<1>3. HeapTypes
  <2>1. ASSUME NEW d \in Addresses PROVE mem[d] \in (Addresses \cup {NoAddress}) \X Nat
    <3>1. CASE \E o \in Objects : d \in Region(o)
      <4>1. PICK o \in Objects : d \in Region(o)
        BY Zenon, <3>1
      <4>2. o \in Addresses /\ d[2] \in Nat /\ o[2] \in Nat /\ o[2] <= d[2]
        BY Zenon, <1>0, <4>1, Regions
      <4>3. d[2] - o[2] \in Nat
        BY <4>2
      <4>4. mem[d] = <<o, d[2] - o[2]>>
        BY Zenon, <1>2, <4>1
      <4> QED
        BY <4>2, <4>3, <4>4
    <3>2. CASE ~\E o \in Objects : d \in Region(o)
      <4>1. mem[d] = <<NoAddress, 0>> /\ 0 \in Nat
        BY Zenon, <1>1, <3>2 DEF Garbage
      <4> QED
        BY <4>1
    <3> QED
      BY Zenon, <3>1, <3>2
  <2>2. mem = [d \in Addresses |-> mem[d]]
    BY Zenon, <1>1
  <2>3. forwardee \in [Addresses -> Addresses \cup {NoAddress}]
    BY Zenon DEF Init
  <2> QED
    BY Zenon, <2>1, <2>2, <2>3 DEF HeapTypes
<1>4. MemInv
  <2> SUFFICES ASSUME NEW s \in Spaces, NEW a \in live[s], NEW k \in 0 .. BlockSize(s, a) - 1
               PROVE  ~Moved(s, a) /\ mem[<<s, a + k>>] = <<<<s, a>>, k>>
    BY Zenon DEF MemInv
  <2>1. ~Moved(s, a)
    BY Zenon DEF Moved, Init
  <2>2. a \in starts[s]
    BY Zenon, <1>0 DEF LayoutInv
  <2>3. a \in Nat /\ BlockEnd(s, a) \in Nat /\ BlockSize(s, a) = BlockEnd(s, a) - a
    BY Zenon, <1>0, <2>2, Blocks
  <2>4. a + k \in Nat /\ a <= a + k /\ a + k < BlockEnd(s, a) /\ a + k - a = k
    BY <2>3
  <2>5. <<s, a>> \in Objects /\ <<s, a + k>> \in Region(<<s, a>>)
    BY Zenon, <1>0, <2>4, Regions
  <2>6. mem[<<s, a + k>>] = <<<<s, a>>, <<s, a + k>>[2] - <<s, a>>[2]>>
    BY Zenon, <1>2, <2>5
  <2>7. <<s, a + k>>[2] = a + k /\ <<s, a>>[2] = a
    BY Zenon
  <2>8. <<s, a + k>>[2] - <<s, a>>[2] = k
    BY <2>3, <2>7
  <2> QED
    BY Zenon, <2>1, <2>6, <2>8
<1> QED
  BY Zenon, <1>3, <1>4

\* What survives fits the old generation, unless Overfull.
LEMMA InitInvariant == ASSUME ~Overfull, Init PROVE CInv
<1>1. LayoutInv /\ HeapTypes /\ MemInv
  BY Zenon, InitLayout, InitMem
<1>2. /\ phase = "enter" /\ scan = OldSpace /\ q = 0 /\ cp = NULL /\ compact_top = 0 /\ allowed = 0
      /\ compaction_top = used /\ top = used /\ forwardee = [a \in Addresses |-> NoAddress]
      /\ \A d \in DeadWood : Cardinality(SurvivorsOf({OldSpace} \cup TransEdens)) + d <= OldSize
  BY Zenon DEF Init
<1>3. ~Finishing /\ \A s \in Spaces : ~(s < scan)
  BY <1>2, SpaceOrder DEF Finishing
<1>4. ControlInv
  BY <1>2, <1>3, SpaceOrder DEF ControlInv
<1>5. \A s \in Spaces : ~Entered(s)
  BY Zenon, <1>2, <1>3 DEF Entered
<1>6. \A s \in Spaces : \A a \in live[s] : ~Passed(s, a)
  BY <1>1, <1>2, <1>3 DEF Passed, LayoutInv
<1>7. TopInv
  BY Zenon, <1>1, <1>2, <1>5 DEF TopInv, LayoutInv
<1>8. PlacedInv
  <2> SUFFICES ASSUME NEW s \in Spaces, NEW a \in live[s] PROVE forwardee[<<s, a>>] = NoAddress
    BY Zenon, <1>6 DEF PlacedInv
  <2>1. <<s, a>> \in Addresses
    BY Zenon, <1>1, Regions
  <2> QED
    BY Zenon, <1>2, <2>1
<1>9. ApartInv /\ CoverInv
  BY Zenon, <1>5, <1>6 DEF ApartInv, CoverInv
<1>10. RoomInv
  <2>1. /\ Cardinality(Left) \in Nat /\ Cardinality(SurvivorsOf({OldSpace} \cup TransEdens)) \in Nat
        /\ Cardinality(Left) <= Cardinality(SurvivorsOf({OldSpace} \cup TransEdens))
    BY Zenon, <1>1, InitRoom
  <2>2. OldSpace \notin TransEdens /\ OldSize \in Nat /\ \A d \in DeadWood : d \in Nat
    BY SpaceOrder, HeapAssumption
  <2>3. \A d \in DeadWood : Cardinality(Left) + d <= OldSize
    BY <1>2, <2>1, <2>2
  <2> QED
    BY Zenon, <1>2, <2>2, <2>3 DEF RoomInv
<1> QED
  BY Zenon, <1>1, <1>4, <1>7, <1>8, <1>9, <1>10 DEF CInv

-----------------------------------------------------------------------------
(* The theorems *)

\* The destinations, and memory, are as the invariant says throughout the collection.
THEOREM CompactionInvariant ==
  ASSUME ~Overfull
  PROVE  Spec => []CInv
<1>1. Init => CInv
  BY Zenon, InitInvariant
<1>2. CInv /\ [Next]_vars => CInv'
  BY Zenon, StepKeeps
<1> QED
  BY <1>1, <1>2, PTL DEF Spec

\* forward always finds a space with room for the object: "compaction must succeed".
THEOREM ForwardFindsSpace ==
  ASSUME ~Overfull
  PROVE  Spec => [](phase # "failed")
<1>1. CInv => phase # "failed"
  BY Zenon DEF CInv, ControlInv
<1> QED
  BY <1>1, CompactionInvariant, PTL

\* The pointers of both phases stay within the spaces, and marks on blocks.
THEOREM CompactionTypes ==
  ASSUME ~Overfull
  PROVE  Spec => []TypeOK
<1>1. ASSUME CInv PROVE TypeOK
  <2> USE <1>1 DEF CInv
  <2>1. /\ phase \in {"enter", "forward", "compact", "done", "failed"} /\ scan \in Spaces
        /\ cp \in Spaces \cup {NULL} /\ allowed \in Nat /\ compact_top \in Nat
        /\ cp # NULL => compact_top <= Capacity(cp)
    BY SpaceOrder DEF ControlInv
  <2>2. cp # NULL => compact_top \in 0 .. Capacity(cp)
    BY <2>1, Capacities
  <2>3. q \in 0 .. used[scan]
    <3>1. q \in starts[scan] \cup {used[scan], 0} /\ used[scan] \in Nat
          /\ \A a \in starts[scan] : a \in Nat /\ a < used[scan]
      BY Zenon, <2>1 DEF ControlInv, LayoutInv
    <3> QED
      BY <3>1
  <2>4. ASSUME NEW s \in Spaces
        PROVE  /\ {used[s], top[s], compaction_top[s]} \subseteq 0 .. Capacity(s)
               /\ live[s] \subseteq starts[s]
    BY Capacities DEF LayoutInv, TopInv
  <2> QED
    BY Zenon, <2>1, <2>2, <2>3, <2>4 DEF TypeOK, HeapTypes
<1>2. CInv => TypeOK
  BY Zenon, <1>1
<1> QED
  BY <1>2, CompactionInvariant, PTL

\* "We're sure to be here before any objects are compacted into this space": when
\* SCAN_AND_FORWARD sets the compaction_top of a space to its bottom, no object has been
\* given an address in it.
THEOREM SpacesAreScannedFirst ==
  ASSUME ~Overfull
  PROVE  Spec => []ScannedBeforeUse
<1>1. ASSUME CInv, phase = "enter", NEW o \in Forwarded PROVE forwardee[o][1] # scan
  <2> USE <1>1 DEF CInv
  <2>1. o \in Objects /\ forwardee[o] # NoAddress
    BY Zenon DEF Forwarded
  <2>2. PICK s \in Spaces : \E a \in live[s] : o = <<s, a>>
    BY Zenon, <2>1, Regions
  <2>3. PICK a \in live[s] : o = <<s, a>>
    BY Zenon, <2>2
  <2>4. To(s, a) \in Spaces /\ To(s, a) <= cp
    BY Zenon, <2>1, <2>3 DEF PlacedInv
  <2>5. cp < scan /\ cp \in Nat /\ scan \in Nat
    BY SpaceOrder DEF ControlInv
  <2>6. To(s, a) # scan
    BY <2>4, <2>5, SpaceOrder
  <2> QED
    BY Zenon, <2>3, <2>6 DEF To
<1>2. CInv => ScannedBeforeUse
  BY Zenon, <1>1 DEF ScannedBeforeUse
<1> QED
  BY <1>2, CompactionInvariant, PTL

\* Phase 4 copies no object over one that it has not copied yet.
THEOREM CopiesOverwriteNothing ==
  ASSUME ~Overfull
  PROVE  Spec => []NothingOverwritten
<1>1. ASSUME CInv, NEW o \in Objects, NotYetMoved(o), NEW d \in Region(o)
      PROVE  mem[d] = <<o, d[2] - o[2]>>
  <2> USE <1>1 DEF CInv
  <2>1. PICK s \in Spaces : \E a \in live[s] : o = <<s, a>>
    BY Zenon, Regions
  <2>2. PICK a \in live[s] : o = <<s, a>>
    BY Zenon, <2>1
  <2>3. o[1] = s /\ o[2] = a
    BY Zenon, <2>2
  <2>4. PICK k \in 0 .. BlockSize(s, a) - 1 : d = <<s, a + k>>
    BY Zenon, <2>3 DEF Region
  <2>5. a \in Nat /\ s \in Nat /\ scan \in Nat /\ q \in Nat
    BY SpaceOrder DEF LayoutInv, ControlInv
  <2>6. ~Moved(s, a)
    BY <2>3, <2>5 DEF NotYetMoved, Moved
  <2>7. mem[<<s, a + k>>] = <<<<s, a>>, k>>
    BY Zenon, <2>6 DEF MemInv
  <2>8. d[2] = a + k
    BY Zenon, <2>4
  <2>9. d[2] - o[2] = k
    BY <2>3, <2>5, <2>8
  <2> QED
    BY Zenon, <2>2, <2>4, <2>7, <2>9
<1>2. CInv => NothingOverwritten
  BY Zenon, <1>1 DEF NothingOverwritten
<1> QED
  BY <1>2, CompactionInvariant, PTL

\* When the collection is over each object lies complete at its new address, below the top
\* of each space there is nothing else, and the transaction edens are empty.
THEOREM HeapIsCompacted ==
  ASSUME ~Overfull
  PROVE  Spec => []HeapCompacted
<1>1. ASSUME CInv, phase = "done" PROVE HeapCompacted
  <2> USE <1>1 DEF CInv
  <2>0. Finishing
    BY Zenon DEF Finishing
  <2>1. \A s \in Spaces : top[s] = Level(s) /\ top[s] \in Nat /\ Entered(s)
    BY Zenon, <2>0 DEF TopInv, Level, Entered
  <2>2. ASSUME NEW s \in Spaces, NEW a \in live[s]
        PROVE  /\ <<s, a>> \in Objects /\ Moved(s, a) /\ Passed(s, a)
               /\ forwardee[<<s, a>>][2] = At(s, a)
               /\ Destination(<<s, a>>) =
                    {<<To(s, a), At(s, a) + k>> : k \in 0 .. BlockSize(s, a) - 1}
    <3>1. <<s, a>>[1] = s /\ <<s, a>>[2] = a
      BY Zenon
    <3> QED
      BY Zenon, <2>0, <3>1, Regions DEF Moved, Passed, Destination, To, At
  <2>3. ASSUME NEW o \in Objects, NEW d \in Destination(o)
        PROVE  /\ mem[d] = <<o, d[2] - forwardee[o][2]>>
               /\ d \in UNION {{s} \X (0 .. top[s] - 1) : s \in Spaces}
    <3>1. PICK s \in Spaces : \E a \in live[s] : o = <<s, a>>
      BY Zenon, Regions
    <3>2. PICK a \in live[s] : o = <<s, a>>
      BY Zenon, <3>1
    <3>3. PICK k \in 0 .. BlockSize(s, a) - 1 : d = <<To(s, a), At(s, a) + k>>
      <4>1. d \in {<<To(s, a), At(s, a) + k>> : k \in 0 .. BlockSize(s, a) - 1}
        BY Zenon, <2>2, <3>2
      <4> QED
        BY Zenon, <4>1
    <3>4. /\ To(s, a) \in Spaces /\ At(s, a) \in Nat /\ BlockSize(s, a) \in Nat
          /\ k \in Nat /\ k < BlockSize(s, a)
      BY Zenon, <2>0, ObjectWords
    <3>5. At(s, a) + BlockSize(s, a) <= Level(To(s, a))
      BY Zenon, <2>2 DEF PlacedInv
    <3>6. mem[<<To(s, a), At(s, a) + k>>] = <<<<s, a>>, k>>
      BY Zenon, <2>2 DEF MemInv
    <3>7. d[2] - forwardee[o][2] = k
      BY <2>2, <3>2, <3>3, <3>4
    <3>8. At(s, a) + k \in 0 .. top[To(s, a)] - 1
      BY <2>1, <3>4, <3>5
    <3>9. d \in {To(s, a)} \X (0 .. top[To(s, a)] - 1)
      BY Zenon, <3>3, <3>8
    <3> QED
      BY Zenon, <3>2, <3>3, <3>4, <3>6, <3>7, <3>9
  <2>4. ASSUME NEW r \in Spaces, NEW d \in {r} \X (0 .. top[r] - 1)
        PROVE  \E o \in Objects : d \in Destination(o)
    <3>1. PICK k \in 0 .. top[r] - 1 : d = <<r, k>>
      OBVIOUS
    <3>2. k \in Nat /\ k < Level(r) /\ Entered(r)
      BY <2>1
    <3>3. PICK s \in Spaces : \E a \in live[s] : /\ To(s, a) = r /\ At(s, a) <= k
                                                /\ k < At(s, a) + BlockSize(s, a)
      BY Zenon, <3>2 DEF CoverInv
    <3>4. PICK a \in live[s] : To(s, a) = r /\ At(s, a) <= k /\ k < At(s, a) + BlockSize(s, a)
      BY Zenon, <3>3
    <3>5. At(s, a) \in Nat /\ BlockSize(s, a) \in Nat
      <4>1. a \in starts[s]
        BY Zenon DEF LayoutInv
      <4> QED
        BY Zenon, <2>2, <4>1, Blocks DEF PlacedInv
    <3>6. k - At(s, a) \in 0 .. BlockSize(s, a) - 1 /\ At(s, a) + (k - At(s, a)) = k
      BY <3>2, <3>4, <3>5
    <3>7. d = <<To(s, a), At(s, a) + (k - At(s, a))>>
      BY Zenon, <3>1, <3>4, <3>6
    <3>8. d \in {<<To(s, a), At(s, a) + j>> : j \in 0 .. BlockSize(s, a) - 1}
      BY Zenon, <3>6, <3>7
    <3>9. <<s, a>> \in Objects /\ d \in Destination(<<s, a>>)
      BY Zenon, <2>2, <3>8
    <3> QED
      BY Zenon, <3>9
  <2>5. UNION {Destination(o) : o \in Objects} = UNION {{s} \X (0 .. top[s] - 1) : s \in Spaces}
    BY Zenon, <2>3, <2>4
  <2>6. \A e \in TransEdens : top[e] = 0
    <3>1. \A e \in TransEdens : e \in Spaces
      BY SpaceOrder
    <3> QED
      BY Zenon, <2>1, <3>1 DEF TopInv
  <2> QED
    BY Zenon, <2>3, <2>5, <2>6 DEF HeapCompacted
<1>2. CInv => HeapCompacted
  BY Zenon, <1>1 DEF HeapCompacted
<1> QED
  BY <1>2, CompactionInvariant, PTL
=============================================================================
