---------------------- MODULE TransNewGenerationCounts ----------------------
(***************************************************************************)
(* The counts the allocation path decides on agree with the edens, and a   *)
(* collection of a transaction eden has an eden to collect.                *)
(***************************************************************************)
EXTENDS TransNewGenerationSafety, FiniteSetTheorems

\* How many members of D the function f maps into L.
Count(D, f, L) == Cardinality({y \in D : f[y] \in L})

\* What one value in or outside L adds to a count.
In(v, L) == IF v \in L THEN 1 ELSE 0

\* f and g differ at x at most.
SameBut(D, f, g, x) == \A y \in D \ {x} : g[y] = f[y]

InUse == {"Assigned", "Collectable", "Collecting"}

\* _assignedCount and _availableCount up to the thread that takes an eden.
PoolCount ==
  /\ assignedCount = Count(Edens, state, InUse) - Count(Threads, pc, {"take"})
  /\ availableCount = MAX_TRANSEDEN - Count(Edens, state, InUse)
                        + Count(Threads, pc, {"take", "taken"})

\* The Collectable edens that _collectableCount misses, beyond those whose
\* threads have yet to count them.  It grows when a collection is given up as
\* unsafe after the decrement.
Surplus == Count(Edens, state, {"Collectable"}) - Count(Threads, pc, {"endcount"})
             - collectableCount

\* A thread that passed the first gate, or that asks for a collection nobody
\* was quicker to do, has an eden to collect.
WorkInv ==
  /\ \A t \in Threads : pc[t] = "gate2" \/ (pc[t] = "vmop" /\ ~beaten[t])
                          => \E e \in Edens : state[e] = "Collectable"
  /\ \A t \in Threads : safepoint /\ requester = t => ~beaten[t]

-----------------------------------------------------------------------------
(* Counting *)

\* The count follows the one element whose value changes.
LEMMA CountMove ==
  ASSUME NEW D, IsFiniteSet(D), NEW f, NEW g, NEW L, NEW x \in D,
         SameBut(D, f, g, x)
  PROVE  Count(D, g, L) + In(f[x], L)
           = Count(D, f, L) + In(g[x], L)
<1> DEFINE R == {y \in D \ {x} : f[y] \in L}
           F == {y \in D : f[y] \in L}
           G == {y \in D : g[y] \in L}
<1>1. IsFiniteSet(R)
  BY Zenon, FS_Subset, R \subseteq D
<1>2. Cardinality(R) \in Nat /\ Cardinality(R \cup {x}) = Cardinality(R) + 1
  BY Zenon, <1>1, FS_CardinalityType, FS_AddElement, x \notin R
<1>3. F = IF f[x] \in L THEN R \cup {x} ELSE R
  OBVIOUS
<1>4. G = IF g[x] \in L THEN R \cup {x} ELSE R
  BY Zenon DEF SameBut
<1>5. Count(D, f, L) = Cardinality(F) /\ Count(D, g, L) = Cardinality(G)
  BY Zenon DEF Count
<1> HIDE DEF R, F, G
<1>6. Cardinality(F) = Cardinality(R) + In(f[x], L)
  BY <1>2, <1>3 DEF In
<1>7. Cardinality(G) = Cardinality(R) + In(g[x], L)
  BY <1>2, <1>4 DEF In
<1> QED
  BY <1>2, <1>5, <1>6, <1>7 DEF In

\* It is a natural number.
LEMMA CountNat ==
  ASSUME NEW D, IsFiniteSet(D), NEW f, NEW L
  PROVE  Count(D, f, L) \in Nat
<1>1. {y \in D : f[y] \in L} \subseteq D
  OBVIOUS
<1> QED
  BY Zenon, <1>1, FS_Subset, FS_CardinalityType DEF Count

\* It depends only on which elements are mapped into L.
LEMMA CountSame ==
  ASSUME NEW D, NEW f, NEW g, NEW L, \A y \in D : g[y] \in L <=> f[y] \in L
  PROVE  Count(D, g, L) = Count(D, f, L)
<1>1. {y \in D : g[y] \in L} = {y \in D : f[y] \in L}
  OBVIOUS
<1> QED
  BY Zenon, <1>1 DEF Count

\* It is 0 exactly when no element is.
LEMMA CountZero ==
  ASSUME NEW D, IsFiniteSet(D), NEW f, NEW L
  PROVE  Count(D, f, L) = 0 <=> \A y \in D : f[y] \notin L
<1> DEFINE F == {y \in D : f[y] \in L}
<1>1. IsFiniteSet(F)
  BY Zenon, FS_Subset, F \subseteq D
<1>2. Cardinality(F) = 0 <=> F = {}
  BY Zenon, <1>1, FS_EmptySet
<1> QED
  BY Zenon, <1>2 DEF Count

\* The edens are finitely many.
LEMMA FiniteEdens == IsFiniteSet(Edens)
BY FS_Interval, PoolAssumption DEF Edens

\* The counts of threads when one of them moves.
LEMMA ThreadMove ==
  ASSUME IsFiniteSet(Threads), Types, NEW t \in Threads, NEW l,
         pc' = [pc EXCEPT ![t] = l], NEW L
  PROVE  /\ Count(Threads, pc', L) + In(pc[t], L) = Count(Threads, pc, L) + In(l, L)
         /\ Count(Threads, pc', L) \in Nat /\ Count(Threads, pc, L) \in Nat
<1> DEFINE f == pc
           g == pc'
<1>1. g[t] = l /\ SameBut(Threads, f, g, t)
  BY Zenon DEF Types, SameBut
<1> HIDE DEF f, g
<1>2. Count(Threads, g, L) + In(f[t], L) = Count(Threads, f, L) + In(g[t], L)
  BY <1>1, CountMove
<1>3. Count(Threads, g, L) \in Nat /\ Count(Threads, f, L) \in Nat
  BY Zenon, CountNat
<1> QED
  BY Zenon, <1>1, <1>2, <1>3 DEF f, g

\* The counts of edens when one of them changes its state.
LEMMA EdenMove ==
  ASSUME Types, NEW e \in Edens, NEW s, state' = [state EXCEPT ![e] = s], NEW L
  PROVE  /\ Count(Edens, state', L) + In(state[e], L) = Count(Edens, state, L) + In(s, L)
         /\ Count(Edens, state', L) \in Nat /\ Count(Edens, state, L) \in Nat
<1> DEFINE f == state
           g == state'
<1>1. g[e] = s /\ SameBut(Edens, f, g, e)
  BY Zenon DEF Types, SameBut
<1> HIDE DEF f, g
<1>2. Count(Edens, g, L) + In(f[e], L) = Count(Edens, f, L) + In(g[e], L)
  BY <1>1, CountMove, FiniteEdens
<1>3. Count(Edens, g, L) \in Nat /\ Count(Edens, f, L) \in Nat
  BY Zenon, CountNat, FiniteEdens
<1> QED
  BY Zenon, <1>1, <1>2, <1>3 DEF f, g

-----------------------------------------------------------------------------
(* Which steps the counts see *)

Busy == {"take", "taken", "endcount"}

\* A step that leaves the counts, the edens and the half-done steps alone.
Quiet ==
  /\ UNCHANGED countVars
  /\ \A e \in Edens : state'[e] = state[e]
  /\ \A t \in Threads : pc[t] \in Busy \/ pc'[t] \in Busy => pc'[t] = pc[t]

CountStep(t) == \/ EndState(t) \/ EndCount(t) \/ Scan(t) \/ Take(t) \/ Taken(t)
                \/ CollectTransEden(t)

\* Every step of a thread but the six of CountStep is quiet.
LEMMA QuietThreadSteps ==
  ASSUME Types, SafeInv, NEW t \in Threads, Internal(t) \/ Application(t),
         ~CountStep(t)
  PROVE  Quiet
<1> USE DEF edenVars, countVars, Quiet, Busy, At, AtSafe, Goto, Types
<1>1. CASE Begin(t) \/ EndCheck(t) \/ EndReset(t)
  BY Zenon, <1>1 DEF Begin, EndCheck, EndReset
<1>2. CASE Retire(t)
  BY Zenon, <1>2 DEF Retire
<1>3. CASE GateCollectable(t) \/ GateAvailable(t) \/ Retry(t)
  BY <1>3 DEF GateCollectable, GateAvailable, Retry, Call
<1>4. CASE Lock(t) \/ SafepointBegin(t) \/ SkipOperation(t)
  BY Zenon, <1>4 DEF Lock, SafepointBegin, SkipOperation, Call
<1>5. CASE Cached(t)
  <2>1. /\ UNCHANGED <<state, countVars>> /\ pc[t] = "cached"
        /\ \/ pc' = [pc EXCEPT ![t] = "returned"]
           \/ pc' = [pc EXCEPT ![t] = "scan"]
    BY Zenon, <1>5 DEF Cached, CachedEden, SearchEden, Return
  <2> QED
    BY Zenon, <2>1
<1>6. CASE Returned(t)
  BY <1>6 DEF Returned, Call
<1>7. CASE Application(t)
  <2>1. CASE transCheckBeforeRun(t) \/ StartTransaction(t) \/ AllocInTlab(t)
             \/ Allocate(t)
    BY Zenon, <2>1 DEF transCheckBeforeRun, StartTransaction, AllocInTlab, Allocate
  <2>2. CASE Park(t) \/ AwaitEntry(t) \/ Exit(t)
    BY <2>2 DEF Park, AwaitEntry, Exit
  <2> QED
    BY Zenon, <1>7, <2>1, <2>2 DEF Application
<1> HIDE DEF Quiet
<1> QED
  BY Zenon, <1>1, <1>2, <1>3, <1>4, <1>5, <1>6, <1>7, ResetUnreachable
     DEF Internal, CountStep

\* A quiet step changes no count of edens or of threads.
LEMMA QuietKeepsCounts ==
  ASSUME Quiet
  PROVE  (PoolCount => PoolCount') /\ Surplus' = Surplus
<1>1. /\ Count(Edens, state', InUse) = Count(Edens, state, InUse)
      /\ Count(Edens, state', {"Collectable"}) = Count(Edens, state, {"Collectable"})
  BY CountSame DEF Quiet
<1>2. Count(Threads, pc', {"take"}) = Count(Threads, pc, {"take"})
  <2>1. \A t \in Threads : pc'[t] \in {"take"} <=> pc[t] \in {"take"}
    BY Zenon DEF Quiet, Busy
  <2> QED
    BY <2>1, CountSame
<1>3. Count(Threads, pc', {"take", "taken"}) = Count(Threads, pc, {"take", "taken"})
  <2>1. \A t \in Threads : pc'[t] \in {"take", "taken"} <=> pc[t] \in {"take", "taken"}
    BY Zenon DEF Quiet, Busy
  <2> QED
    BY Zenon, <2>1, CountSame
<1>4. Count(Threads, pc', {"endcount"}) = Count(Threads, pc, {"endcount"})
  <2>1. \A t \in Threads : pc'[t] \in {"endcount"} <=> pc[t] \in {"endcount"}
    BY Zenon DEF Quiet, Busy
  <2> QED
    BY Zenon, <2>1, CountSame
<1> QED
  BY Zenon, <1>1, <1>2, <1>3, <1>4 DEF Quiet, countVars, PoolCount, Surplus

-----------------------------------------------------------------------------
(* The steps the counts see *)

\* A step keeps PoolCount and, of the edens it publishes or takes away, counts
\* each one.
CountsKept == (PoolCount => PoolCount') /\ Surplus' = Surplus

\* A step by which the edens in use change by u, the Collectable ones by c,
\* and the threads at "take", at "take" or "taken", and at "endcount" by m, n
\* and k.
Delta(u, c, m, n, k) ==
  /\ Count(Edens, state', InUse) = Count(Edens, state, InUse) + u
  /\ Count(Edens, state', {"Collectable"}) = Count(Edens, state, {"Collectable"}) + c
  /\ Count(Threads, pc', {"take"}) = Count(Threads, pc, {"take"}) + m
  /\ Count(Threads, pc', {"take", "taken"}) = Count(Threads, pc, {"take", "taken"}) + n
  /\ Count(Threads, pc', {"endcount"}) = Count(Threads, pc, {"endcount"}) + k
  /\ Count(Edens, state, InUse) \in Nat
  /\ Count(Edens, state, {"Collectable"}) \in Nat
  /\ Count(Threads, pc, {"take"}) \in Nat
  /\ Count(Threads, pc, {"take", "taken"}) \in Nat
  /\ Count(Threads, pc, {"endcount"}) \in Nat

\* The counts are kept when the three integers change by as much.
LEMMA DeltaKeepsCounts ==
  ASSUME NEW u \in Int, NEW c \in Int, NEW m \in Int, NEW n \in Int, NEW k \in Int,
         Delta(u, c, m, n, k), TypeInv,
         assignedCount' = assignedCount + u - m,
         availableCount' = availableCount - u + n,
         collectableCount' = collectableCount + c - k
  PROVE  CountsKept
<1>1. collectableCount \in Int /\ MAX_TRANSEDEN \in Int
  BY PoolAssumption DEF TypeInv, TypeOK
<1>2. ASSUME PoolCount
      PROVE  PoolCount'
  BY <1>1, <1>2 DEF Delta, PoolCount
<1>3. Surplus' = Surplus
  BY <1>1 DEF Delta, Surplus
<1> QED
  BY Zenon, <1>2, <1>3 DEF CountsKept

\* The deltas of a step that moves one thread and changes one eden.
LEMMA DeltaOfMove ==
  ASSUME IsFiniteSet(Threads), Types, NEW t \in Threads, NEW l,
         pc' = [pc EXCEPT ![t] = l], NEW e \in Edens, NEW s,
         state' = [state EXCEPT ![e] = s]
  PROVE  Delta(In(s, InUse) - In(state[e], InUse),
               In(s, {"Collectable"}) - In(state[e], {"Collectable"}),
               In(l, {"take"}) - In(pc[t], {"take"}),
               In(l, {"take", "taken"}) - In(pc[t], {"take", "taken"}),
               In(l, {"endcount"}) - In(pc[t], {"endcount"}))
<1>1. \A v, L : In(v, L) \in Int
  BY DEF In
<1>2. /\ Count(Edens, state', InUse) + In(state[e], InUse)
           = Count(Edens, state, InUse) + In(s, InUse)
      /\ Count(Edens, state', InUse) \in Nat /\ Count(Edens, state, InUse) \in Nat
  BY Zenon, EdenMove
<1>3. /\ Count(Edens, state', {"Collectable"}) + In(state[e], {"Collectable"})
           = Count(Edens, state, {"Collectable"}) + In(s, {"Collectable"})
      /\ Count(Edens, state', {"Collectable"}) \in Nat
      /\ Count(Edens, state, {"Collectable"}) \in Nat
  BY Zenon, EdenMove
<1>4. /\ Count(Threads, pc', {"take"}) + In(pc[t], {"take"})
           = Count(Threads, pc, {"take"}) + In(l, {"take"})
      /\ Count(Threads, pc', {"take"}) \in Nat /\ Count(Threads, pc, {"take"}) \in Nat
  BY Zenon, ThreadMove
<1>5. /\ Count(Threads, pc', {"take", "taken"}) + In(pc[t], {"take", "taken"})
           = Count(Threads, pc, {"take", "taken"}) + In(l, {"take", "taken"})
      /\ Count(Threads, pc', {"take", "taken"}) \in Nat
      /\ Count(Threads, pc, {"take", "taken"}) \in Nat
  BY Zenon, ThreadMove
<1>6. /\ Count(Threads, pc', {"endcount"}) + In(pc[t], {"endcount"})
           = Count(Threads, pc, {"endcount"}) + In(l, {"endcount"})
      /\ Count(Threads, pc', {"endcount"}) \in Nat
      /\ Count(Threads, pc, {"endcount"}) \in Nat
  BY Zenon, ThreadMove
<1>7. Count(Edens, state', InUse)
        = Count(Edens, state, InUse) + (In(s, InUse) - In(state[e], InUse))
  BY <1>1, <1>2
<1>8. Count(Edens, state', {"Collectable"})
        = Count(Edens, state, {"Collectable"})
            + (In(s, {"Collectable"}) - In(state[e], {"Collectable"}))
  BY <1>1, <1>3
<1>9. Count(Threads, pc', {"take"})
        = Count(Threads, pc, {"take"}) + (In(l, {"take"}) - In(pc[t], {"take"}))
  BY <1>1, <1>4
<1>10. Count(Threads, pc', {"take", "taken"})
         = Count(Threads, pc, {"take", "taken"})
             + (In(l, {"take", "taken"}) - In(pc[t], {"take", "taken"}))
  BY <1>1, <1>5
<1>11. Count(Threads, pc', {"endcount"})
         = Count(Threads, pc, {"endcount"})
             + (In(l, {"endcount"}) - In(pc[t], {"endcount"}))
  BY <1>1, <1>6
<1> QED
  BY Zenon, <1>2, <1>3, <1>4, <1>5, <1>6, <1>7, <1>8, <1>9, <1>10, <1>11 DEF Delta

\* An eden is marked Assigned before either count moves.
LEMMA ScanCounts ==
  ASSUME IsFiniteSet(Threads), TypeInv, Types, NEW t \in Threads, Scan(t)
  PROVE  CountsKept
<1>1. CASE UNCHANGED state
  <2>1. Quiet
    BY Zenon, <1>1 DEF Scan, Return, Goto, At, Quiet, Busy, countVars, Types
  <2> QED
    BY Zenon, <2>1, QuietKeepsCounts DEF CountsKept
<1>2. CASE ~ UNCHANGED state
  <2> DEFINE e == idx[t]
  <2>1. /\ e \in Edens /\ state[e] = "Available" /\ pc[t] = "scan"
        /\ state' = [state EXCEPT ![e] = "Assigned"]
        /\ pc' = [pc EXCEPT ![t] = "take"]
        /\ UNCHANGED countVars
    BY Zenon, <1>2 DEF Scan, Goto, At, Types
  <2> HIDE DEF e
  <2>2. Delta(In("Assigned", InUse) - In("Available", InUse),
              In("Assigned", {"Collectable"}) - In("Available", {"Collectable"}),
              In("take", {"take"}) - In("scan", {"take"}),
              In("take", {"take", "taken"}) - In("scan", {"take", "taken"}),
              In("take", {"endcount"}) - In("scan", {"endcount"}))
    BY Zenon, <2>1, DeltaOfMove
  <2>3. Delta(1, 0, 1, 1, 0)
    BY <2>2 DEF In, InUse
  <2>4. /\ assignedCount' = assignedCount + 1 - 1
        /\ availableCount' = availableCount - 1 + 1
        /\ collectableCount' = collectableCount + 0 - 0
    BY <2>1 DEF countVars, TypeInv, TypeOK
  <2> QED
    BY <2>3, <2>4, DeltaKeepsCounts
<1> QED
  BY Zenon, <1>1, <1>2

\* The deltas of a step that moves one thread and leaves the edens alone.
LEMMA DeltaOfThread ==
  ASSUME IsFiniteSet(Threads), Types, NEW t \in Threads, NEW l,
         pc' = [pc EXCEPT ![t] = l], UNCHANGED state
  PROVE  Delta(0, 0, In(l, {"take"}) - In(pc[t], {"take"}),
               In(l, {"take", "taken"}) - In(pc[t], {"take", "taken"}),
               In(l, {"endcount"}) - In(pc[t], {"endcount"}))
<1>1. PICK e \in Edens : TRUE
  BY PoolAssumption, 0 \in Edens DEF Edens
<1>2. state' = [state EXCEPT ![e] = state[e]]
  BY Zenon DEF Types
<1>3. Delta(In(state[e], InUse) - In(state[e], InUse),
            In(state[e], {"Collectable"}) - In(state[e], {"Collectable"}),
            In(l, {"take"}) - In(pc[t], {"take"}),
            In(l, {"take", "taken"}) - In(pc[t], {"take", "taken"}),
            In(l, {"endcount"}) - In(pc[t], {"endcount"}))
  BY Zenon, <1>2, DeltaOfMove
<1>4. \A v, L : In(v, L) - In(v, L) = 0
  BY DEF In
<1> QED
  BY Zenon, <1>3, <1>4

\* _assignedCount counts the eden that "take" marked.
LEMMA TakeCounts ==
  ASSUME IsFiniteSet(Threads), TypeInv, Types, NEW t \in Threads, Take(t)
  PROVE  CountsKept
<1>1. /\ pc[t] = "take" /\ pc' = [pc EXCEPT ![t] = "taken"] /\ UNCHANGED state
  BY Zenon DEF Take, Goto, At
<1>2. Delta(0, 0, In("taken", {"take"}) - In("take", {"take"}),
            In("taken", {"take", "taken"}) - In("take", {"take", "taken"}),
            In("taken", {"endcount"}) - In("take", {"endcount"}))
  BY Zenon, <1>1, DeltaOfThread
<1>3. Delta(0, 0, -1, 0, 0)
  BY <1>2 DEF In
<1>4. /\ assignedCount' = assignedCount + 0 - (-1)
      /\ availableCount' = availableCount - 0 + 0
      /\ collectableCount' = collectableCount + 0 - 0
  BY DEF Take, TypeInv, TypeOK
<1> QED
  BY <1>3, <1>4, DeltaKeepsCounts

\* _availableCount follows.
LEMMA TakenCounts ==
  ASSUME IsFiniteSet(Threads), TypeInv, Types, NEW t \in Threads, Taken(t)
  PROVE  CountsKept
<1>1. /\ pc[t] = "taken" /\ pc' = [pc EXCEPT ![t] = "returned"] /\ UNCHANGED state
  BY Zenon DEF Taken, Return, Goto, At
<1>2. Delta(0, 0, In("returned", {"take"}) - In("taken", {"take"}),
            In("returned", {"take", "taken"}) - In("taken", {"take", "taken"}),
            In("returned", {"endcount"}) - In("taken", {"endcount"}))
  BY Zenon, <1>1, DeltaOfThread
<1>3. Delta(0, 0, 0, -1, 0)
  BY <1>2 DEF In
<1>4. /\ assignedCount' = assignedCount + 0 - 0
      /\ availableCount' = availableCount - 0 + (-1)
      /\ collectableCount' = collectableCount + 0 - 0
  BY DEF Taken, TypeInv, TypeOK
<1> QED
  BY <1>3, <1>4, DeltaKeepsCounts

\* An ended transaction's eden is published first, ...
LEMMA EndStateCounts ==
  ASSUME IsFiniteSet(Threads), TypeInv, Types, SafeInv, NEW t \in Threads, EndState(t)
  PROVE  CountsKept
<1> DEFINE e == transEdenID[t]
<1>1. /\ e \in Edens /\ state[e] = "Assigned" /\ pc[t] = "endstate"
  BY DEF Types, SafeInv, EndState, At, MatchInv, Matches, CacheInv, LifeInv,
         InTransaction
<1>2. /\ state' = [state EXCEPT ![e] = "Collectable"]
      /\ pc' = [pc EXCEPT ![t] = "endcount"]
      /\ UNCHANGED countVars
  BY Zenon DEF EndState, Goto
<1> HIDE DEF e
<1>3. Delta(In("Collectable", InUse) - In("Assigned", InUse),
            In("Collectable", {"Collectable"}) - In("Assigned", {"Collectable"}),
            In("endcount", {"take"}) - In("endstate", {"take"}),
            In("endcount", {"take", "taken"}) - In("endstate", {"take", "taken"}),
            In("endcount", {"endcount"}) - In("endstate", {"endcount"}))
  BY Zenon, <1>1, <1>2, DeltaOfMove
<1>4. Delta(0, 1, 0, 0, 1)
  BY <1>3 DEF In, InUse
<1>5. /\ assignedCount' = assignedCount + 0 - 0
      /\ availableCount' = availableCount - 0 + 0
      /\ collectableCount' = collectableCount + 1 - 1
  BY <1>2 DEF countVars, TypeInv, TypeOK
<1> QED
  BY <1>4, <1>5, DeltaKeepsCounts

\* ... then counted.
LEMMA EndCountCounts ==
  ASSUME IsFiniteSet(Threads), TypeInv, Types, NEW t \in Threads, EndCount(t)
  PROVE  CountsKept
<1>1. /\ pc[t] = "endcount" /\ pc' = [pc EXCEPT ![t] = "endreset"]
      /\ UNCHANGED state
  BY Zenon DEF EndCount, Goto, At, edenVars
<1>2. Delta(0, 0, In("endreset", {"take"}) - In("endcount", {"take"}),
            In("endreset", {"take", "taken"}) - In("endcount", {"take", "taken"}),
            In("endreset", {"endcount"}) - In("endcount", {"endcount"}))
  BY Zenon, <1>1, DeltaOfThread
<1>3. Delta(0, 0, 0, 0, -1)
  BY <1>2 DEF In
<1>4. /\ assignedCount' = assignedCount + 0 - 0
      /\ availableCount' = availableCount - 0 + 0
      /\ collectableCount' = collectableCount + 0 - (-1)
  BY DEF EndCount, TypeInv, TypeOK
<1> QED
  BY <1>3, <1>4, DeltaKeepsCounts

\* The surplus is what the edens and the threads leave of _collectableCount.
LEMMA DeltaSurplus ==
  ASSUME NEW c \in Int, NEW d \in Int, Delta(0, c, 0, 0, 0), TypeInv,
         UNCHANGED <<assignedCount, availableCount>>,
         collectableCount' = collectableCount + d
  PROVE  (PoolCount => PoolCount') /\ Surplus' = Surplus + c - d
<1>1. collectableCount \in Int /\ MAX_TRANSEDEN \in Int
  BY PoolAssumption DEF TypeInv, TypeOK
<1>2. ASSUME PoolCount
      PROVE  PoolCount'
  BY <1>1, <1>2 DEF Delta, PoolCount
<1>3. Surplus' = Surplus + c - d
  BY <1>1 DEF Delta, Surplus
<1> QED
  BY Zenon, <1>2, <1>3

\* A collection keeps the counts, unless it gives up after the decrement, or
\* fails and gives the decrement back.
LEMMA CollectCounts ==
  ASSUME IsFiniteSet(Threads), TypeInv, Types, SafeInv, NEW t \in Threads,
         CollectTransEden(t)
  PROVE  /\ PoolCount => PoolCount'
         /\ \/ Surplus' = Surplus
            \/ "unsafe" \in Env /\ Surplus' = Surplus + 1
            \/ "promotion_failure" \in Env /\ Surplus' = Surplus - 1
<1>1. pc[t] = "vmop" /\ pc' = [pc EXCEPT ![t] = "lock"]
  BY Zenon DEF CollectTransEden, Call, Goto, SafeInv, RequestInv
<1>2. ASSUME NEW e \in Edens, NEW s, state[e] = "Collectable",
             state' = [state EXCEPT ![e] = s]
      PROVE  Delta(In(s, InUse) - In("Collectable", InUse),
                   In(s, {"Collectable"}) - In("Collectable", {"Collectable"}),
                   In("lock", {"take"}) - In("vmop", {"take"}),
                   In("lock", {"take", "taken"}) - In("vmop", {"take", "taken"}),
                   In("lock", {"endcount"}) - In("vmop", {"endcount"}))
  BY Zenon, <1>1, <1>2, DeltaOfMove
<1>3. /\ assignedCount \in Int /\ availableCount \in Int /\ collectableCount \in Int
  BY Zenon DEF TypeInv, TypeOK
<1>4. CASE UNCHANGED <<state, countVars>>
  <2>1. Quiet
    BY Zenon, <1>1, <1>4 DEF Quiet, Busy, Types
  <2> QED
    BY Zenon, <2>1, QuietKeepsCounts
<1>5. ASSUME NEW e \in Edens, FirstCollectable(e),
             CollectByReset(e) \/ CollectByEvacuation(e)
      PROVE  CountsKept
  <2>1. /\ state[e] = "Collectable" /\ state' = [state EXCEPT ![e] = "Available"]
        /\ assignedCount' = assignedCount - 1
        /\ availableCount' = availableCount + 1
        /\ collectableCount' = collectableCount - 1
    BY Zenon, <1>5 DEF FirstCollectable, CollectByReset, CollectByEvacuation, ResetEden
  <2>2. Delta(-1, -1, 0, 0, 0)
    <3>1. Delta(In("Available", InUse) - In("Collectable", InUse),
                In("Available", {"Collectable"})
                  - In("Collectable", {"Collectable"}),
                In("lock", {"take"}) - In("vmop", {"take"}),
                In("lock", {"take", "taken"}) - In("vmop", {"take", "taken"}),
                In("lock", {"endcount"}) - In("vmop", {"endcount"}))
      BY Zenon, <1>2, <2>1
    <3> QED
      BY <3>1 DEF In, InUse
  <2>3. /\ assignedCount' = assignedCount + (-1) - 0
        /\ availableCount' = availableCount - (-1) + 0
        /\ collectableCount' = collectableCount + (-1) - 0
    BY <1>3, <2>1
  <2> QED
    BY <2>2, <2>3, DeltaKeepsCounts
<1>6. ASSUME NEW e \in Edens, FirstCollectable(e), CollectUnsafe(e)
      PROVE  /\ PoolCount => PoolCount'
             /\ "unsafe" \in Env /\ Surplus' = Surplus + 1
  <2>1. /\ UNCHANGED state /\ "unsafe" \in Env
        /\ UNCHANGED <<assignedCount, availableCount>>
        /\ collectableCount' = collectableCount + (-1)
    BY Zenon, <1>3, <1>6 DEF CollectUnsafe
  <2>2. Delta(0, 0, In("lock", {"take"}) - In("vmop", {"take"}),
              In("lock", {"take", "taken"}) - In("vmop", {"take", "taken"}),
              In("lock", {"endcount"}) - In("vmop", {"endcount"}))
    BY Zenon, <1>1, <2>1, DeltaOfThread
  <2>3. Delta(0, 0, 0, 0, 0)
    BY <2>2 DEF In
  <2>4. (PoolCount => PoolCount') /\ Surplus' = Surplus + 0 - (-1)
    BY <2>1, <2>3, DeltaSurplus
  <2>5. Surplus \in Int
    BY <1>3, <2>3 DEF Delta, Surplus
  <2> QED
    BY <2>1, <2>4, <2>5
<1>7. ASSUME NEW e \in Edens, FirstCollectable(e), CollectFails(e)
      PROVE  /\ PoolCount => PoolCount'
             /\ "promotion_failure" \in Env /\ Surplus' = Surplus - 1
  <2>1. /\ state[e] = "Collectable" /\ state' = [state EXCEPT ![e] = "Collecting"]
        /\ "promotion_failure" \in Env
        /\ UNCHANGED <<assignedCount, availableCount>>
        /\ collectableCount' = collectableCount + 0
    BY <1>3, <1>7 DEF FirstCollectable, CollectFails, countVars
  <2>2. Delta(0, -1, 0, 0, 0)
    <3>1. Delta(In("Collecting", InUse) - In("Collectable", InUse),
                In("Collecting", {"Collectable"})
                  - In("Collectable", {"Collectable"}),
                In("lock", {"take"}) - In("vmop", {"take"}),
                In("lock", {"take", "taken"}) - In("vmop", {"take", "taken"}),
                In("lock", {"endcount"}) - In("vmop", {"endcount"}))
      BY Zenon, <1>2, <2>1
    <3> QED
      BY <3>1 DEF In, InUse
  <2>3. (PoolCount => PoolCount') /\ Surplus' = Surplus + (-1) - 0
    BY <2>1, <2>2, DeltaSurplus
  <2>4. Surplus \in Int
    BY <1>3, <2>2 DEF Delta, Surplus
  <2> QED
    BY <2>1, <2>3, <2>4
<1> QED
  BY Zenon, <1>4, <1>5, <1>6, <1>7 DEF CollectTransEden, CountsKept

\* At a safepoint no thread is half-way through a count.
LEMMA NobodyBusy ==
  ASSUME IsFiniteSet(Threads), AllSafe
  PROVE  /\ Count(Threads, pc, {"take"}) = 0
         /\ Count(Threads, pc, {"take", "taken"}) = 0
         /\ Count(Threads, pc, {"endcount"}) = 0
BY Zenon, CountZero DEF AllSafe, SafePCs

\* Any other collection leaves the counts alone or resets the whole pool.
LEMMA OtherCollectionCounts ==
  ASSUME IsFiniteSet(Threads), Types, OtherCollection
  PROVE  (PoolCount => PoolCount') /\ Surplus' \in {Surplus, 0}
<1>1. CASE UNCHANGED <<state, countVars>>
  <2>1. Quiet
    BY Zenon, <1>1 DEF OtherCollection, Quiet
  <2> QED
    BY Zenon, <2>1, QuietKeepsCounts
<1>2. CASE /\ state' = [e \in Edens |-> "Available"]
           /\ assignedCount' = 0 /\ availableCount' = MAX_TRANSEDEN
           /\ collectableCount' = 0
  <2>1. UNCHANGED pc /\ AllSafe
    BY Zenon DEF OtherCollection
  <2> DEFINE g == state'
  <2>2. \A e \in Edens : g[e] \notin InUse /\ g[e] \notin {"Collectable"}
    BY Zenon, <1>2 DEF InUse
  <2> HIDE DEF g
  <2>3. Count(Edens, g, InUse) = 0 /\ Count(Edens, g, {"Collectable"}) = 0
    BY Zenon, <2>2, CountZero, FiniteEdens
  <2>4. Count(Edens, state', InUse) = 0 /\ Count(Edens, state', {"Collectable"}) = 0
    BY Zenon, <2>3 DEF g
  <2>5. /\ Count(Threads, pc', {"take"}) = 0
        /\ Count(Threads, pc', {"take", "taken"}) = 0
        /\ Count(Threads, pc', {"endcount"}) = 0
    BY Zenon, <2>1, NobodyBusy
  <2>6. PoolCount'
    BY <1>2, <2>4, <2>5, PoolAssumption DEF PoolCount
  <2>7. Surplus' = 0
    BY <1>2, <2>4, <2>5 DEF Surplus
  <2> QED
    BY Zenon, <2>6, <2>7
<1> QED
  BY Zenon, <1>1, <1>2 DEF OtherCollection

\* What every step does to the counts.
LEMMA CountsStep ==
  ASSUME IsFiniteSet(Threads), IInv, [Next]_vars
  PROVE  /\ PoolCount => PoolCount'
         /\ \/ Surplus' \in {Surplus, 0}
            \/ "unsafe" \in Env /\ Surplus' = Surplus + 1
            \/ "promotion_failure" \in Env /\ Surplus' = Surplus - 1
<1>1. TypeInv /\ Types /\ SafeInv
  BY Zenon, TypesFromTypeInv DEF IInv
<1>2. ASSUME NEW t \in Threads, Internal(t) \/ Application(t), ~CollectTransEden(t)
      PROVE  CountsKept
  <2>1. CASE ~CountStep(t)
    BY Zenon, <1>1, <1>2, <2>1, QuietThreadSteps, QuietKeepsCounts DEF CountsKept
  <2> QED
    BY SMTT(20), <1>1, <1>2, <2>1, ScanCounts, TakeCounts, TakenCounts, EndStateCounts,
       EndCountCounts DEF CountStep
<1>3. CASE SafepointBeginGC \/ UNCHANGED vars
  <2>1. Quiet
    BY Zenon, <1>3 DEF SafepointBeginGC, vars, edenVars, Quiet
  <2> QED
    BY Zenon, <2>1, QuietKeepsCounts
<1> QED
  BY Zenon, <1>1, <1>2, <1>3, CollectCounts, OtherCollectionCounts DEF Next, CountsKept

-----------------------------------------------------------------------------
(* A collection has an eden to collect *)

\* A step that keeps the Collectable edens, brings no thread to the second
\* gate or to a collection, and starts no safepoint.
Idle ==
  /\ \A e \in Edens : state[e] = "Collectable" => state'[e] = "Collectable"
  /\ \A t \in Threads : pc'[t] \in {"gate2", "vmop"} => pc'[t] = pc[t]
  /\ UNCHANGED <<beaten, vmVars>>

\* Such a step keeps WorkInv.
LEMMA IdleKeepsWork ==
  ASSUME WorkInv, Idle
  PROVE  WorkInv'
BY Zenon DEF WorkInv, Idle, vmVars

\* The steps that are not idle.
WorkStep(t) == \/ GateCollectable(t) \/ GateAvailable(t) \/ SafepointBegin(t)
               \/ SkipOperation(t) \/ CollectTransEden(t)

\* The other steps of a thread are.
LEMMA IdleThreadSteps ==
  ASSUME Types, SafeInv, NEW t \in Threads, Internal(t) \/ Application(t),
         ~WorkStep(t)
  PROVE  Idle
<1> USE DEF edenVars, vmVars, Idle, At, AtSafe, Goto, Types
<1>1. CASE Begin(t) \/ EndCheck(t) \/ EndReset(t)
  BY SMTT(20), <1>1 DEF Begin, EndCheck, EndReset
<1>2. CASE Retire(t)
  BY SMTT(20), <1>2 DEF Retire
<1>3. CASE Retry(t) \/ Lock(t) \/ EndCount(t)
  BY SMTT(20), <1>3 DEF Retry, Lock, EndCount, Call
<1>4. CASE EndState(t)
  BY Zenon, <1>4 DEF EndState
<1>5. CASE Cached(t)
  <2>1. /\ UNCHANGED <<state, beaten, vmVars>> /\ pc[t] = "cached"
        /\ \/ pc' = [pc EXCEPT ![t] = "returned"]
           \/ pc' = [pc EXCEPT ![t] = "scan"]
    BY Zenon, <1>5 DEF Cached, CachedEden, SearchEden, Return
  <2> QED
    BY Zenon, <2>1
<1>6. CASE Returned(t)
  BY <1>6 DEF Returned, Call
<1>7. CASE Application(t)
  <2>1. CASE transCheckBeforeRun(t) \/ StartTransaction(t) \/ AllocInTlab(t)
             \/ Allocate(t)
    BY SMTT(20), <2>1 DEF transCheckBeforeRun, StartTransaction, AllocInTlab, Allocate
  <2>2. CASE Park(t) \/ AwaitEntry(t) \/ Exit(t)
    BY SMTT(20), <2>2 DEF Park, AwaitEntry, Exit
  <2> QED
    BY Zenon, <1>7, <2>1, <2>2 DEF Application
<1>8. CASE Scan(t)
  BY SMTT(20), <1>8 DEF Scan, Return
<1>9. CASE Take(t) \/ Taken(t)
  BY Zenon, <1>9 DEF Take, Taken, Return
<1> HIDE DEF Idle
<1> QED
  BY Zenon, <1>1, <1>2, <1>3, <1>4, <1>5, <1>6, <1>7, <1>8, <1>9, ResetUnreachable
     DEF Internal, WorkStep

\* The gate read a positive count, and the count is never too large.
LEMMA PositiveCount ==
  ASSUME IsFiniteSet(Threads), TypeInv, Surplus >= 0, collectableCount >= 1
  PROVE  \E e \in Edens : state[e] = "Collectable"
<1>1. /\ Count(Edens, state, {"Collectable"}) \in Nat
      /\ Count(Threads, pc, {"endcount"}) \in Nat
      /\ collectableCount \in Int
  BY Zenon, CountNat, FiniteEdens DEF TypeInv, TypeOK
<1>2. Count(Edens, state, {"Collectable"}) # 0
  BY <1>1 DEF Surplus
<1> QED
  BY SMTT(20), <1>2, CountZero, FiniteEdens

\* Once a thread has passed the gate, only a safepoint takes the Collectable
\* edens away, and the safepoint defeats every request but its own.
LEMMA WorkKept ==
  ASSUME IsFiniteSet(Threads), IInv, Surplus >= 0, WorkInv, [Next]_vars
  PROVE  WorkInv'
<1>1. TypeInv /\ Types /\ SafeInv
  BY Zenon, TypesFromTypeInv DEF IInv
<1>2. ASSUME NEW t \in Threads, WorkStep(t)
      PROVE  WorkInv'
  <2> USE DEF At, AtSafe, Goto, edenVars, vmVars
  <2>1. CASE GateCollectable(t)
    <3>1. CASE collectableCount >= 1
      <4>1. \E e \in Edens : state'[e] = "Collectable"
        BY Zenon, <1>1, <2>1, <3>1, PositiveCount DEF GateCollectable
      <4> QED
        BY Zenon, <2>1, <4>1 DEF GateCollectable, WorkInv
    <3>2. CASE ~(collectableCount >= 1)
      <4>1. Idle
        BY SMTT(20), <1>1, <2>1, <3>2 DEF GateCollectable, Call, Idle, Types
      <4> QED
        BY SMTT(20), <4>1, IdleKeepsWork
    <3> QED
      BY SMTT(20), <3>1, <3>2
  <2>2. CASE GateAvailable(t)
    <3>1. \E e \in Edens : state'[e] = "Collectable"
      BY Zenon, <2>2 DEF GateAvailable, WorkInv
    <3> QED
      BY Zenon, <2>2, <3>1 DEF GateAvailable, WorkInv
  <2>3. CASE SafepointBegin(t)
    BY SMTT(20), <1>1, <2>3 DEF SafepointBegin, WorkInv
  <2>4. CASE SkipOperation(t)
    BY SMTT(20), <1>1, <2>4 DEF SkipOperation, Call, WorkInv, Types
  <2>5. CASE CollectTransEden(t)
    <3>1. safepoint' = FALSE /\ pc' = [pc EXCEPT ![t] = "lock"] /\ AllSafe
      BY SMTT(20), <2>5 DEF CollectTransEden, Resume, Call
    <3>2. CASE beaten' = [u \in Threads |-> pc[u] = "vmop" /\ u # t]
      <4>1. \A u \in Threads : pc'[u] # "gate2" /\ (pc'[u] = "vmop" => beaten'[u])
        BY Zenon, <1>1, <3>1, <3>2 DEF AllSafe, SafePCs, Types
      <4> QED
        BY Zenon, <3>1, <4>1 DEF WorkInv
    <3>3. CASE UNCHANGED <<beaten, state>>
      BY Zenon, <1>1, <3>1, <3>3 DEF WorkInv, Types
    <3> QED
      BY SMTT(20), <2>5, <3>2, <3>3 DEF CollectTransEden, Collection
  <2> QED
    BY SMTT(20), <1>2, <2>1, <2>2, <2>3, <2>4, <2>5 DEF WorkStep
<1>3. ASSUME NEW t \in Threads, Internal(t) \/ Application(t), ~WorkStep(t)
      PROVE  WorkInv'
  BY Zenon, <1>1, <1>3, IdleThreadSteps, IdleKeepsWork
<1>4. CASE SafepointBeginGC
  BY SMTT(20), <1>4, NobodyAssumption DEF SafepointBeginGC, edenVars, WorkInv
<1>5. CASE OtherCollection
  <2>1. /\ safepoint' = FALSE /\ UNCHANGED pc /\ AllSafe
        /\ beaten' = [u \in Threads |-> pc[u] = "vmop" /\ u # NoThread]
    BY Zenon, <1>5 DEF OtherCollection, Resume, Collection
  <2>2. \A u \in Threads : pc'[u] # "gate2" /\ (pc'[u] = "vmop" => beaten'[u])
    BY Zenon, <1>1, <2>1, NobodyAssumption DEF AllSafe, SafePCs, Types
  <2> QED
    BY Zenon, <2>1, <2>2 DEF WorkInv
<1>6. CASE UNCHANGED vars
  BY Zenon, <1>6 DEF vars, vmVars, edenVars, WorkInv
<1> QED
  BY Zenon, <1>2, <1>3, <1>4, <1>5, <1>6 DEF Next

-----------------------------------------------------------------------------
(* What the counts are worth *)

\* At the start every eden is on offer and every count says so.
LEMMA CountsInit ==
  ASSUME IsFiniteSet(Threads), Init
  PROVE  PoolCount /\ Surplus = 0 /\ WorkInv
<1>1. Count(Edens, state, InUse) = 0 /\ Count(Edens, state, {"Collectable"}) = 0
  BY Zenon, CountZero, FiniteEdens DEF Init, InUse
<1>2. /\ Count(Threads, pc, {"take"}) = 0
      /\ Count(Threads, pc, {"take", "taken"}) = 0
      /\ Count(Threads, pc, {"endcount"}) = 0
  BY Zenon, CountZero DEF Init
<1>3. PoolCount
  BY SMTT(20), <1>1, <1>2, PoolAssumption DEF Init, PoolCount
<1>4. Surplus = 0
  BY <1>1, <1>2 DEF Init, Surplus
<1>5. WorkInv
  BY Zenon DEF Init, WorkInv
<1> QED
  BY Zenon, <1>3, <1>4, <1>5

\* No thread is inside collectResettableTransEden.
LEMMA NobodyResets ==
  ASSUME SafeInv, NEW L \in SUBSET ResetPCs
  PROVE  Cardinality(ThreadsAt(L)) = 0
<1>1. ThreadsAt(L) = {}
  BY Zenon DEF SafeInv, LifeInv, ThreadsAt
<1> QED
  BY Zenon, <1>1, FS_EmptySet

\* _assignedCount and _availableCount agree with the edens, up to the thread
\* that is taking one, in every interleaving: the gate of the allocation path
\* and getTransEdenToAllocate may rely on them.
THEOREM CountsAgree ==
  ASSUME NonResettable, IsFiniteSet(Threads)
  PROVE  Spec => []PoolAccounting
<1>1. ASSUME IInv, PoolCount
      PROVE  PoolAccounting
  <2>1. Types /\ SafeInv
    BY Zenon, <1>1, TypesFromTypeInv DEF IInv
  <2>2. Edens \ EdensIn({"Available"}) = {e \in Edens : state[e] \in InUse}
    BY Zenon, <2>1 DEF Types, EdenStates, EdensIn, InUse
  <2>3. Cardinality(Edens \ EdensIn({"Available"})) = Count(Edens, state, InUse)
    BY Zenon, <2>2 DEF Count
  <2>4. /\ Cardinality(ThreadsAt({"take"})) = Count(Threads, pc, {"take"})
        /\ Cardinality(ThreadsAt({"take", "taken"}))
             = Count(Threads, pc, {"take", "taken"})
    BY Zenon DEF Count, ThreadsAt
  <2>5. /\ Cardinality(ThreadsAt({"rtrans", "rassigned"})) = 0
        /\ Cardinality(ThreadsAt({"rtrans", "rassigned", "ravail"})) = 0
    BY Zenon, <2>1, NobodyResets DEF ResetPCs
  <2>6. /\ Count(Edens, state, InUse) \in Nat /\ Count(Threads, pc, {"take"}) \in Nat
        /\ Count(Threads, pc, {"take", "taken"}) \in Nat
    BY Zenon, CountNat, FiniteEdens
  <2> QED
    BY SMTT(20), <1>1, <2>3, <2>4, <2>5, <2>6, PoolAssumption DEF PoolCount, PoolAccounting
<1>2. Init => PoolCount
  BY Zenon, CountsInit
<1>3. IInv /\ PoolCount /\ [Next]_vars => PoolCount'
  BY Zenon, CountsStep
<1> QED
  BY <1>1, <1>2, <1>3, Invariance, PTL DEF Spec

\* _collectableCount is the number of edens that wait to be collected, if no
\* collection is given up as unsafe or fails to promote: the first path
\* decrements the count of an eden that stays Collectable, the second gives
\* back the count of an eden that stays Collecting.
THEOREM CollectableCountAgrees ==
  ASSUME NonResettable, IsFiniteSet(Threads),
         "unsafe" \notin Env, "promotion_failure" \notin Env
  PROVE  Spec => []CollectableAccounting
<1>1. ASSUME IInv, Surplus = 0
      PROVE  CollectableAccounting
  <2>1. SafeInv /\ collectableCount \in Int
    BY Zenon, <1>1 DEF IInv, TypeInv, TypeOK
  <2>2. Cardinality(EdensIn({"Collectable"})) = Count(Edens, state, {"Collectable"})
    BY Zenon DEF Count, EdensIn
  <2>3. ThreadsAt({"endcount", "rstate"}) = {t \in Threads : pc[t] \in {"endcount"}}
    BY Zenon, <2>1 DEF SafeInv, LifeInv, ResetPCs, ThreadsAt
  <2>4. Cardinality(ThreadsAt({"endcount", "rstate"}))
          = Count(Threads, pc, {"endcount"})
    BY Zenon, <2>3 DEF Count
  <2>5. /\ Count(Edens, state, {"Collectable"}) \in Nat
        /\ Count(Threads, pc, {"endcount"}) \in Nat
    BY Zenon, CountNat, FiniteEdens
  <2> QED
    BY SMTT(20), <1>1, <2>1, <2>2, <2>4, <2>5 DEF Surplus, CollectableAccounting
<1>2. Init => Surplus = 0
  BY Zenon, CountsInit
<1>3. IInv /\ Surplus = 0 /\ [Next]_vars => (Surplus = 0)'
  BY Zenon, CountsStep
<1> QED
  BY <1>1, <1>2, <1>3, Invariance, PTL DEF Spec

\* A collection of a transaction eden that stops the world finds an eden to
\* collect, if no promotion fails: the count the gate read is never too large,
\* and an operation whose eden was collected meanwhile is skipped.
THEOREM CollectionsFindAnEden ==
  ASSUME NonResettable, IsFiniteSet(Threads), "promotion_failure" \notin Env
  PROVE  Spec => []CollectionHasWork
<1> DEFINE W == Surplus >= 0 /\ WorkInv
<1>1. IInv /\ W => CollectionHasWork
  <2> SUFFICES ASSUME IInv, W, safepoint, requester # NoThread
               PROVE  EdensIn({"Collectable"}) # {}
    BY Zenon DEF CollectionHasWork
  <2>1. requester \in Threads
    BY Zenon DEF IInv, TypeInv, TypeOK
  <2>2. pc[requester] = "vmop" /\ ~beaten[requester]
    BY Zenon, <2>1 DEF IInv, SafeInv, RequestInv, WorkInv
  <2>3. PICK e \in Edens : state[e] = "Collectable"
    BY Zenon, <2>1, <2>2 DEF WorkInv
  <2> QED
    BY Zenon, <2>3 DEF EdensIn
<1>2. Init => W
  BY CountsInit
<1>3. IInv /\ W /\ [Next]_vars => W'
  <2> SUFFICES ASSUME IInv, W, [Next]_vars
               PROVE  W'
    OBVIOUS
  <2>1. Surplus \in Int
    <3>1. collectableCount \in Int
      BY Zenon DEF IInv, TypeInv, TypeOK
    <3>2. /\ Count(Edens, state, {"Collectable"}) \in Nat
          /\ Count(Threads, pc, {"endcount"}) \in Nat
      BY Zenon, CountNat, FiniteEdens
    <3> QED
      BY <3>1, <3>2 DEF Surplus
  <2>2. \/ Surplus' \in {Surplus, 0} \/ Surplus' = Surplus + 1
    BY Zenon, CountsStep
  <2>3. Surplus' >= 0
    BY <2>1, <2>2
  <2>4. WorkInv'
    BY Zenon, WorkKept
  <2> QED
    BY Zenon, <2>3, <2>4
<1> HIDE DEF W
<1> QED
  BY <1>1, <1>2, <1>3, Invariance, PTL DEF Spec
=============================================================================
