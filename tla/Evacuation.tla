----------------------------- MODULE Evacuation -----------------------------
(***************************************************************************)
(* The collection of one transaction eden (TransNewGeneration::            *)
(* collectTransEden): what the program can reach in the eden is promoted   *)
(* to the old generation and every reference to it is updated.  The roots  *)
(* of the collection are the references outside the heap, the local young  *)
(* generation, the other edens, and the old objects on dirty cards.        *)
(*                                                                         *)
(* The heap is a range of addresses, one object at each: the local young   *)
(* generation, the edens, the old generation, in the order in which the    *)
(* code compares them.  Addresses 1..NRoots are the references outside the *)
(* heap.  An object has one field and a mark word that may hold an         *)
(* identity hash.  One step of a collection is one call of do_oop.         *)
(* HandlePromotionFailure has its default: whether a promotion finds room  *)
(* for the object is left open, since objects differ in size.              *)
(***************************************************************************)
EXTENDS Naturals, Sequences, FiniteSets, FiniteSetsExt

CONSTANTS
  NRoots,                  \* references outside the heap
  NYoung, NEden, NOld,     \* objects that fit the young generation, an eden, the old one
  MAX_TRANSEDEN,           \* number of edens
  MaxSteps,                \* bound: allocations and steps of the program
  FullCollectionFirst      \* a full collection comes between a failed promotion and the
                           \* next collection of an eden

ASSUME SizesAssumption ==
  /\ {NRoots, NYoung, NEden, NOld, MAX_TRANSEDEN, MaxSteps} \subseteq Nat
  /\ FullCollectionFirst \in BOOLEAN

NULL == 0
NoEden == MAX_TRANSEDEN
Roots == 1 .. NRoots
Young == (NRoots + 1) .. (NRoots + NYoung)
EdenBottom(e) == NRoots + NYoung + e * NEden
Eden(e) == (EdenBottom(e) + 1) .. (EdenBottom(e) + NEden)
Edens == 0 .. MAX_TRANSEDEN - 1
TransNew == UNION {Eden(e) : e \in Edens}
OldBottom == NRoots + NYoung + MAX_TRANSEDEN * NEden
Old == (OldBottom + 1) .. (OldBottom + NOld)
Heap == Young \cup TransNew \cup Old

VARIABLES
  steps,      \* number of allocations and steps so far
  ref,        \* the reference at each address: NULL or an address of the heap
  used,       \* the addresses below the top of their space
  hashed,     \* objects whose mark word holds a hash
  card,       \* old objects on dirty cards
  state,      \* state of each eden
  id,         \* the eden being collected
  scan,       \* what gen_process_strong_roots and evacuate_followers have left to scan
  stack,      \* _promo_failure_scan_stack
  forwardee,  \* the forwarding pointers
  preserved,  \* _objs_with_preserved_marks
  promotion_failed,
  before      \* history: the object graph when the collection began

vars == <<steps, ref, used, hashed, card, state, id, scan, stack, forwardee, preserved,
          promotion_failed, before>>
gc == <<id, scan, stack, forwardee, preserved, promotion_failed, before>>

Init ==
  /\ steps = 0
  /\ ref = [a \in Roots \cup Heap |-> NULL]
  /\ used = {} /\ hashed = {} /\ card = {}
  /\ state = [e \in Edens |-> "Assigned"]
  /\ id = NoEden /\ scan = {} /\ stack = <<>>
  /\ forwardee = <<>> /\ preserved = {} /\ promotion_failed = FALSE /\ before = <<>>

----------------------------------------------------------------------------
(* The object graph, as the program sees it *)

Depth == MaxSteps

\* The objects met on the way from root r over the fields f, up to a depth.
Walk(f, r) ==
  LET walk[k \in 0 .. Depth] ==
        IF k = 0 THEN f[r]
        ELSE IF walk[k - 1] = NULL THEN NULL ELSE f[walk[k - 1]]
  IN  walk

\* The object reached from root r over i fields.
At(r, i) == Walk(ref, r)[i]

\* The objects within reach.
Reachable == {At(r, i) : r \in Roots, i \in 0 .. Depth} \ {NULL}

\* The graph without its addresses: for each path that leads to an object, the paths that
\* lead to the same object, and whether it is an object of the region with a hash.
Paths == Roots \X (0 .. Depth)
Graph(region) ==
  LET at == [p \in Paths |-> At(p[1], p[2])]
  IN  [p \in {q \in Paths : at[q] # NULL} |->
         [same |-> {q \in Paths : at[q] = at[p]}, hash |-> at[p] \in region \cap hashed]]

----------------------------------------------------------------------------
(* The program *)

Mutating == id = NoEden

\* Allocation at the top of a space, r = new Node(r): the new object refers to what root r
\* referred to.  Its mark word gets an identity hash.
Allocate(space, r) ==
  /\ Mutating /\ steps < MaxSteps
  /\ steps' = steps + 1
  /\ space \ used # {}
  /\ LET a == Min(space \ used) IN
       /\ used' = used \cup {a}
       /\ ref' = [ref EXCEPT ![a] = ref[r], ![r] = a]
       /\ hashed' = hashed \cup {a}
       /\ card' = IF a \in Old THEN card \cup {a} ELSE card
  /\ UNCHANGED <<state, gc>>

\* A store to a root or to a field; the post-barrier dirties the card of the field.
Store(a, b) ==
  /\ Mutating /\ steps < MaxSteps
  /\ steps' = steps + 1
  /\ a \in Roots \cup Reachable
  /\ b \in Reachable \cup {NULL}
  /\ ref[a] # b
  /\ ref' = [ref EXCEPT ![a] = b]
  /\ card' = IF a \in Old THEN card \cup {a} ELSE card
  /\ UNCHANGED <<used, hashed, state, gc>>

\* The transaction that owns the eden ends (set_transEden_collectable).
EndTransaction(e) ==
  /\ Mutating
  /\ state[e] = "Assigned"
  /\ state' = [state EXCEPT ![e] = "Collectable"]
  /\ UNCHANGED <<steps, ref, used, hashed, card, gc>>

----------------------------------------------------------------------------
(* The collection, at a safepoint *)

\* space_iterate_with_some_excluded: edens in state Collecting are no roots.
NotExcluded(st) == UNION {Eden(e) : e \in {d \in Edens : st[d] # "Collecting"}}

\* Mutant of StrongRoots: the other edens are not scanned.
StrongRootsYoungOnly(st) == Roots \cup (used \cap Young) \cup (used \cap card)

\* gen_process_strong_roots: the fields that are scanned.
StrongRoots(st) ==
  Roots \cup (used \cap (Young \cup NotExcluded(st))) \cup (used \cap card)

\* The first Collectable eden is collected.  (An attempt that collection_attempt_is_safe
\* refuses changes nothing in the heap.)
collectTransEden(e) ==
  /\ Mutating
  /\ state[e] = "Collectable"
  /\ \A d \in Edens : d < e => state[d] # "Collectable"
  /\ FullCollectionFirst => \A d \in Edens : state[d] # "Collecting"
  /\ state' = [state EXCEPT ![e] = "Collecting"]
  /\ id' = e
  /\ scan' = StrongRoots(state')
  /\ promotion_failed' = FALSE
  /\ before' = Graph(Eden(e))
  /\ UNCHANGED <<steps, ref, used, hashed, card, stack, forwardee, preserved>>

\* The fields that refer into the eden; the stack of failed promotions is drained first.
IntoEden == {a \in scan : ref[a] \in Eden(id)}
MoreToScan == stack # <<>> \/ scan # {}
NextField == IF stack # <<>> THEN Head(stack) ELSE Min(IntoEden)
Scanned(a) == IF stack # <<>> THEN stack' = Tail(stack) /\ UNCHANGED scan
                              ELSE scan' = scan \ {a} /\ UNCHANGED stack

\* do_barrier, for fields scanned with a barrier: a reference into a younger generation
\* dirties the card of an old object.
do_barrier(a, b) ==
  card' = IF a \in Old /\ b # NULL /\ b <= OldBottom THEN card \cup {a} ELSE card

\* Mutant of SkipFields: the barrier only for objects that have moved.
SkipFieldsNoBarrier ==
  /\ id # NoEden /\ stack = <<>> /\ scan # IntoEden
  /\ scan' = IntoEden
  /\ UNCHANGED <<steps, ref, used, hashed, card, state, id, stack, forwardee, preserved,
                 promotion_failed, before>>

\* Fields that do not refer into the eden are left alone (several calls in one step).
SkipFields ==
  /\ id # NoEden /\ stack = <<>> /\ scan # IntoEden
  /\ scan' = IntoEden
  /\ card' = card \cup {a \in (scan \cap Old) \ IntoEden : ref[a] \in Young \cup TransNew}
  /\ UNCHANGED <<steps, ref, used, hashed, state, id, stack, forwardee, preserved,
                 promotion_failed, before>>

\* A field of an object that failed to be promoted, which does not refer into the eden.
SkipFailed ==
  /\ id # NoEden /\ stack # <<>> /\ ref[Head(stack)] \notin Eden(id)
  /\ stack' = Tail(stack)
  /\ UNCHANGED <<steps, ref, used, hashed, card, state, id, scan, forwardee, preserved,
                 promotion_failed, before>>

\* An object that has been forwarded.
UpdateField ==
  /\ id # NoEden /\ MoreToScan
  /\ stack = <<>> => scan # {} /\ scan = IntoEden
  /\ LET a == NextField
         b == ref[a]
     IN  /\ b \in DOMAIN forwardee
         /\ ref' = [ref EXCEPT ![a] = forwardee[b]]
         /\ do_barrier(a, forwardee[b])
         /\ Scanned(a)
  /\ UNCHANGED <<steps, used, hashed, state, id, forwardee, preserved, promotion_failed, before>>

\* Mutant of Promote: the original does not become a forwarding pointer.
PromoteUnforwarded ==
  /\ id # NoEden /\ MoreToScan
  /\ stack = <<>> => scan # {} /\ scan = IntoEden
  /\ Old \ used # {}
  /\ LET a == NextField
         b == ref[a]
         n == Min(Old \ used)
     IN  /\ b \in Eden(id) \ DOMAIN forwardee
         /\ used' = used \cup {n}
         /\ ref' = [ref EXCEPT ![a] = n, ![n] = ref[b]]
         /\ hashed' = (hashed \ {b}) \cup (IF b \in hashed THEN {n} ELSE {})
         /\ IF stack # <<>> THEN stack' = Tail(stack) /\ scan' = scan \cup {n}
                            ELSE scan' = (scan \ {a}) \cup {n} /\ UNCHANGED stack
  /\ UNCHANGED <<steps, card, state, id, forwardee, preserved, promotion_failed,
                 before>>

\* copy_to_survivor_space, with room in the old generation: the copy keeps the mark, is
\* scanned by evacuate_followers, and the original becomes a forwarding pointer.
Promote ==
  /\ id # NoEden /\ MoreToScan
  /\ stack = <<>> => scan # {} /\ scan = IntoEden
  /\ Old \ used # {}
  /\ LET a == NextField
         b == ref[a]
         n == Min(Old \ used)
     IN  /\ b \in Eden(id) \ DOMAIN forwardee
         /\ used' = used \cup {n}
         /\ ref' = [ref EXCEPT ![a] = n, ![n] = ref[b]]
         /\ hashed' = (hashed \ {b}) \cup (IF b \in hashed THEN {n} ELSE {})
         /\ forwardee' = [x \in DOMAIN forwardee \cup {b} |-> IF x = b THEN n ELSE forwardee[x]]
         /\ IF stack # <<>> THEN stack' = Tail(stack) /\ scan' = scan \cup {n}
                            ELSE scan' = (scan \ {a}) \cup {n} /\ UNCHANGED stack
  /\ UNCHANGED <<steps, card, state, id, preserved, promotion_failed, before>>

\* handle_promotion_failure: the object stays, forwarded to itself; its mark is saved and
\* its field is put on the stack.
FailPromotion ==
  /\ id # NoEden /\ MoreToScan
  /\ stack = <<>> => scan # {} /\ scan = IntoEden
  /\ LET a == NextField
         b == ref[a]
     IN  /\ b \in Eden(id) \ DOMAIN forwardee
         /\ preserved' = preserved \cup ({b} \cap hashed)
         /\ hashed' = hashed \ {b}
         /\ forwardee' = [x \in DOMAIN forwardee \cup {b} |-> IF x = b THEN b ELSE forwardee[x]]
         /\ promotion_failed' = TRUE
         /\ do_barrier(a, b)
         /\ IF stack # <<>> THEN stack' = <<b>> \o Tail(stack) /\ UNCHANGED scan
                            ELSE stack' = <<b>> /\ scan' = scan \ {a}
  /\ UNCHANGED <<steps, ref, used, state, id, before>>

\* Everything is scanned: reset_transEden and clear.
FreeEden ==
  /\ id # NoEden /\ ~MoreToScan /\ ~promotion_failed
  /\ used' = used \ Eden(id)
  /\ hashed' = hashed \ Eden(id)
  /\ ref' = [a \in DOMAIN ref |-> IF a \in Eden(id) THEN NULL ELSE ref[a]]
  /\ state' = [state EXCEPT ![id] = "Assigned"]
  /\ id' = NoEden /\ forwardee' = <<>> /\ before' = <<>>
  /\ UNCHANGED <<steps, card, scan, stack, preserved, promotion_failed>>

\* Mutant of KeepEden: the list of preserved marks is not deleted.
KeepEdenAndMarks ==
  /\ id # NoEden /\ ~MoreToScan /\ promotion_failed
  /\ hashed' = (hashed \ TransNew) \cup preserved
  /\ id' = NoEden /\ forwardee' = <<>> /\ before' = <<>>
  /\ promotion_failed' = FALSE
  /\ UNCHANGED <<steps, ref, used, card, state, scan, stack, preserved>>

\* ... or, after a failure, remove_forwarding_pointers, which resets the mark of every
\* object of every eden and restores the preserved ones.  The state stays Collecting.
KeepEden ==
  /\ id # NoEden /\ ~MoreToScan /\ promotion_failed
  /\ hashed' = (hashed \ TransNew) \cup preserved
  /\ id' = NoEden /\ forwardee' = <<>> /\ preserved' = {} /\ before' = <<>>
  /\ promotion_failed' = FALSE
  /\ UNCHANGED <<steps, ref, used, card, state, scan, stack>>

----------------------------------------------------------------------------
Mutator ==
  \/ \E r \in Roots : \/ Allocate(Young, r) \/ Allocate(Old, r)
                      \/ \E e \in Edens : state[e] = "Assigned" /\ Allocate(Eden(e), r)
  \/ \E a \in DOMAIN ref, b \in Heap \cup {NULL} : Store(a, b)
  \/ \E e \in Edens : EndTransaction(e)

Collector ==
  SkipFields \/ SkipFailed \/ UpdateField \/ Promote \/ FailPromotion \/ FreeEden \/ KeepEden

Next == Mutator \/ (\E e \in Edens : collectTransEden(e)) \/ Collector

Spec == Init /\ [][Next]_vars

----------------------------------------------------------------------------
\* The types of the variables; the stack and the forwarding pointers belong to the eden
\* being collected, and nothing of a collection is left behind for the next one.
TypeOK ==
  /\ steps \in 0 .. MaxSteps
  /\ ref \in [Roots \cup Heap -> Heap \cup {NULL}]
  /\ used \subseteq Heap /\ hashed \subseteq used /\ card \subseteq Old
  /\ state \in [Edens -> {"Assigned", "Collectable", "Collecting"}]
  /\ id \in Edens \cup {NoEden}
  /\ scan \subseteq Roots \cup used
  /\ Mutating => scan = {} /\ stack = <<>> /\ forwardee = <<>>
  /\ ~Mutating => /\ \A i \in DOMAIN stack : stack[i] \in Eden(id)
                  /\ DOMAIN forwardee \subseteq Eden(id)
  /\ preserved \subseteq DOMAIN forwardee
  /\ promotion_failed \in BOOLEAN

\* The program never reaches memory that a collection has freed: gen_process_strong_roots
\* finds every reference into the eden, whichever space it is in.
NoDangling == Mutating => Reachable \subseteq used

\* Every old object that refers to a younger generation is on a dirty card, also the ones
\* that a collection has just promoted, whichever eden or generation they refer to.
RemSetComplete ==
  Mutating => \A a \in Old \cap used : ref[a] \in Young \cup TransNew => a \in card

\* A collection, failed promotions included, leaves the program the object graph it had: the
\* same paths lead to the same objects, no object is lost, split in two or merged with
\* another, and the objects of the collected eden keep their hash.
GraphPreserved ==
  [][(~Mutating /\ Mutating') =>
       LET after == Graph(Heap)' IN
         /\ DOMAIN after = DOMAIN before
         /\ \A p \in DOMAIN before : /\ after[p].same = before[p].same
                                     /\ before[p].hash => after[p].hash]_vars

=============================================================================
