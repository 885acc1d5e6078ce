----------------------------- MODULE Compaction -----------------------------
(***************************************************************************)
(* Phases 2 and 4 of a full collection (GenMarkSweep): every live object   *)
(* gets a destination, computed from the old generation to the youngest,   *)
(* then every object is moved.  The transaction generation in the middle   *)
(* is scanned but skipped as a destination.                                *)
(*                                                                         *)
(* Spaces are numbered in the order in which both phases visit them: the   *)
(* old space, the transaction edens, then eden and from of the local young *)
(* generation.  An address is a space and an offset in words from its      *)
(* bottom; a run of dead objects is one block.                             *)
(***************************************************************************)
EXTENDS Integers, FiniteSets, FiniteSetsExt

CONSTANTS
  MAX_TRANSEDEN,                            \* number of transaction edens
  OldSize, EdenSize, YoungSize, FromSize,   \* capacities in words
  MaxSize,   \* bound: words of an object
  DeadWood,  \* the dead words MarkSweepDeadRatio allows: none in every
             \* MarkSweepAlwaysCompactCount-th collection
  Overfull   \* whether what survives in the old generation and in the
             \* transaction edens may be more than fits the old generation

ASSUME HeapAssumption ==
  /\ {MAX_TRANSEDEN, OldSize, EdenSize, YoungSize, FromSize, MaxSize}
       \subseteq Nat \ {0}
  /\ DeadWood \subseteq Nat /\ DeadWood # {}
  /\ Overfull \in BOOLEAN

OldSpace == 1
TransEdens == 2 .. MAX_TRANSEDEN + 1
YoungEden == MAX_TRANSEDEN + 2
From == MAX_TRANSEDEN + 3
Spaces == OldSpace .. From
NULL == 0

Capacity(s) == CASE s = OldSpace -> OldSize
                 [] s \in TransEdens -> EdenSize
                 [] s = YoungEden -> YoungSize
                 [] s = From -> FromSize

Addresses == UNION {{s} \X (0 .. Capacity(s) - 1) : s \in Spaces}
NoAddress == <<NULL, 0>>
Garbage == <<NoAddress, 0>>

VARIABLES
  used,            \* top of each space when the collection starts
  starts,          \* offsets at which a block starts
  live,            \* those of them that are marked
  phase,           \* "enter" a space, "forward" its objects; "compact"
  scan, q,         \* the space being visited and the offset reached
  cp,              \* CompactPoint: the space being compacted into
  compact_top,     \* local variable of SCAN_AND_FORWARD
  allowed,         \* allowed_deadspace
  compaction_top,  \* field of a space
  forwardee,       \* where an object is to go; its own address if it stays
  top,             \* field of a space
  mem              \* what an address holds: the k-th word of an object

layoutVars == <<used, starts, live>>
scanVars == <<phase, scan, q>>
cpVars == <<cp, compact_top, allowed, compaction_top>>
vars == <<layoutVars, scanVars, cpVars, forwardee, top, mem>>

BlockEnd(s, a) == Min({c \in starts[s] \cup {used[s]} : c > a})
BlockSize(s, a) == BlockEnd(s, a) - a

\* The live objects, named by their addresses, and the words they occupy.
Objects == UNION {{s} \X live[s] : s \in Spaces}
Region(o) == {<<o[1], o[2] + k>> : k \in 0 .. BlockSize(o[1], o[2]) - 1}
Destination(o) ==
  {<<forwardee[o][1], forwardee[o][2] + k>> : k \in 0 .. BlockSize(o[1], o[2]) - 1}
Forwarded == {o \in Objects : forwardee[o] # NoAddress}
SurvivorsOf(S) == UNION {Region(o) : o \in {p \in Objects : p[1] \in S}}

\* The ways to fill a space of n words with objects and runs of dead ones.
Layouts(n) ==
  LET Layout == [used : 0 .. n, starts : SUBSET (0 .. n - 1), live : SUBSET (0 .. n - 1)]
      End(l, a) == Min({c \in l.starts \cup {l.used} : c > a})
  IN  {l \in Layout :
         /\ l.starts \subseteq 0 .. l.used - 1
         /\ l.used > 0 => 0 \in l.starts
         /\ l.live \subseteq l.starts
         /\ \A a \in l.live : End(l, a) - a <= MaxSize
         /\ \A a \in l.starts \ l.live : End(l, a) \notin l.starts \ l.live}

Init ==
  /\ \E old \in Layouts(OldSize), edens \in [TransEdens -> Layouts(EdenSize)],
        young \in Layouts(YoungSize), from \in Layouts(FromSize) :
       LET layout == [s \in Spaces |-> CASE s = OldSpace -> old
                                         [] s \in TransEdens -> edens[s]
                                         [] s = YoungEden -> young
                                         [] s = From -> from]
       IN  /\ used = [s \in Spaces |-> layout[s].used]
           /\ starts = [s \in Spaces |-> layout[s].starts]
           /\ live = [s \in Spaces |-> layout[s].live]
  /\ ~Overfull =>
       \A d \in DeadWood :
         Cardinality(SurvivorsOf({OldSpace} \cup TransEdens)) + d <= OldSize
  /\ phase = "enter"
  /\ scan = OldSpace
  /\ q = 0
  /\ cp = NULL
  /\ compact_top = 0
  /\ allowed = 0
  /\ compaction_top = used
  /\ forwardee = [a \in Addresses |-> NoAddress]
  /\ top = used
  /\ mem = [a \in Addresses |->
              IF \E o \in Objects : a \in Region(o)
                THEN LET o == CHOOSE p \in Objects : a \in Region(p)
                     IN  <<o, a[2] - o[2]>>
                ELSE Garbage]

-----------------------------------------------------------------------------
(* Phase 2: prepare_for_compaction *)

\* The head of SCAN_AND_FORWARD, for the next space in
\* GenCollectedHeap::prepare_for_compaction.
EnterSpace ==
  /\ phase = "enter"
  /\ cp' = IF cp = NULL THEN scan ELSE cp
  /\ compaction_top' = [compaction_top EXCEPT ![scan] = 0]
  /\ compact_top' = compaction_top'[cp']
  /\ allowed' \in IF scan = OldSpace THEN DeadWood ELSE {0}
  /\ phase' = "forward"
  /\ q' = 0
  /\ UNCHANGED <<layoutVars, scan, forwardee, top, mem>>

\* The spaces of a generation are chained by next_compaction_space.
Generation(s) == CASE s = OldSpace -> {OldSpace}
                   [] s \in TransEdens -> TransEdens
                   [] s \in {YoungEden, From} -> {YoungEden, From}

next_compaction_space(s) ==
  IF s + 1 \in Generation(s) THEN s + 1 ELSE NULL

\* Mutant of NextSpace: the young generation is entered at its last space.
NextSpaceFrom(s) ==
  CASE next_compaction_space(s) # NULL -> next_compaction_space(s)
    [] s = From -> NULL
    [] OTHER -> From

\* Mutant of NextSpace: the search stops at the end of a generation.
NextSpaceInGeneration(s) == next_compaction_space(s)

\* Where forward goes when the space s is full; the transaction generation is
\* never a destination.
NextSpace(s) ==
  CASE next_compaction_space(s) # NULL -> next_compaction_space(s)
    [] s = From -> NULL
    [] OTHER -> YoungEden

\* Mutant of Fits: off by one word.
FitsAlmost(n) == n <= Capacity(cp) - compact_top + 1

Fits(n) == n <= Capacity(cp) - compact_top

\* Mutant of SwitchSpace: the top of the space that is full is not saved.
SwitchSpaceUnsaved ==
  /\ phase = "forward"
  /\ q \in live[scan]
  /\ ~Fits(BlockSize(scan, q))
  /\ NextSpace(cp) # NULL
  /\ cp' = NextSpace(cp)
  /\ compact_top' = 0
  /\ compaction_top' = [compaction_top EXCEPT ![cp'] = 0]
  /\ UNCHANGED <<layoutVars, scanVars, allowed, forwardee, top, mem>>

\* One turn of the loop of CompactibleSpace::forward.
SwitchSpace ==
  /\ phase = "forward"
  /\ q \in live[scan]
  /\ ~Fits(BlockSize(scan, q))
  /\ LET s == NextSpace(cp)
     IN  IF s = NULL
           THEN /\ phase' = "failed"
                /\ compaction_top' = [compaction_top EXCEPT ![cp] = compact_top]
                /\ UNCHANGED <<cp, compact_top>>
           ELSE /\ compaction_top' = [compaction_top EXCEPT ![cp] = compact_top,
                                                            ![s] = 0]
                /\ cp' = s
                /\ compact_top' = 0
                /\ UNCHANGED phase
  /\ UNCHANGED <<layoutVars, scan, q, allowed, forwardee, top, mem>>

\* The rest of forward: the object at q gets its new address.
Forward ==
  /\ phase = "forward"
  /\ q \in live[scan]
  /\ Fits(BlockSize(scan, q))
  /\ forwardee' = [forwardee EXCEPT ![<<scan, q>>] = <<cp, compact_top>>]
  /\ compact_top' = compact_top + BlockSize(scan, q)
  /\ q' = BlockEnd(scan, q)
  /\ UNCHANGED <<layoutVars, phase, scan, cp, allowed, compaction_top, top, mem>>

\* A dead run that would not move is kept as one object (insert_deadspace) as
\* long as dead wood is allowed; any other is left behind.
SkipDead ==
  /\ phase = "forward"
  /\ q \in starts[scan] \ live[scan]
  /\ LET n == BlockSize(scan, q)
         stays == allowed > 0 /\ <<scan, q>> = <<cp, compact_top>>
     IN  IF stays /\ allowed >= n
           THEN /\ allowed' = allowed - n
                /\ live' = [live EXCEPT ![scan] = @ \cup {q}]
                /\ mem' = [a \in Addresses |->
                             IF a[1] = scan /\ a[2] \in q .. q + n - 1
                               THEN <<<<scan, q>>, a[2] - q>> ELSE mem[a]]
                /\ forwardee' = [forwardee EXCEPT ![<<scan, q>>] = <<scan, q>>]
                /\ compact_top' = compact_top + n
           ELSE /\ allowed' = IF stays THEN 0 ELSE allowed
                /\ UNCHANGED <<live, mem, forwardee, compact_top>>
  /\ q' = BlockEnd(scan, q)
  /\ UNCHANGED <<used, starts, phase, scan, cp, compaction_top, top>>

\* The tail of SCAN_AND_FORWARD; after the last space phase 4 begins.
LeaveSpace ==
  /\ phase = "forward"
  /\ q = used[scan]
  /\ compaction_top' = [compaction_top EXCEPT ![cp] = compact_top]
  /\ IF scan = From
       THEN phase' = "compact" /\ scan' = OldSpace
       ELSE phase' = "enter" /\ scan' = scan + 1
  /\ q' = 0
  /\ UNCHANGED <<layoutVars, cp, compact_top, allowed, forwardee, top, mem>>

-----------------------------------------------------------------------------
(* Phase 4: SCAN_AND_COMPACT, old_to_young *)

\* Copy::aligned_conjoint_words(q, forwardee, size), unless it stays.
CompactBlock ==
  /\ phase = "compact"
  /\ q \in starts[scan]
  /\ LET o == <<scan, q>>
         d == forwardee[o]
     IN  mem' = IF q \in live[scan] /\ d # o
                  THEN [a \in Addresses |->
                          IF a \in Destination(o)
                            THEN mem[<<scan, q + (a[2] - d[2])>>] ELSE mem[a]]
                  ELSE mem
  /\ q' = BlockEnd(scan, q)
  /\ UNCHANGED <<layoutVars, phase, scan, cpVars, forwardee, top>>

\* reset_after_compaction.
ResetSpace ==
  /\ phase = "compact"
  /\ q = used[scan]
  /\ top' = [top EXCEPT ![scan] = compaction_top[scan]]
  /\ IF scan = From
       THEN phase' = "done" /\ UNCHANGED scan
       ELSE UNCHANGED phase /\ scan' = scan + 1
  /\ q' = 0
  /\ UNCHANGED <<layoutVars, cpVars, forwardee, mem>>

\* The collection is over, or has run out of spaces.
Terminated ==
  /\ phase \in {"done", "failed"}
  /\ UNCHANGED vars

Next ==
  \/ EnterSpace \/ SwitchSpace \/ Forward \/ SkipDead \/ LeaveSpace
  \/ CompactBlock \/ ResetSpace \/ Terminated

\* One thread, the VM thread, runs the collection to its end.
Spec == Init /\ [][Next]_vars /\ WF_vars(Next)

-----------------------------------------------------------------------------
(* Properties *)

\* Offsets stay inside their spaces, and marks on blocks.
TypeOK ==
  /\ phase \in {"enter", "forward", "compact", "done", "failed"}
  /\ scan \in Spaces /\ cp \in Spaces \cup {NULL}
  /\ q \in 0 .. used[scan]
  /\ cp # NULL => compact_top \in 0 .. Capacity(cp)
  /\ allowed \in Nat
  /\ \A s \in Spaces : /\ {used[s], top[s], compaction_top[s]} \subseteq 0 .. Capacity(s)
                       /\ live[s] \subseteq starts[s]
  /\ forwardee \in [Addresses -> Addresses \cup {NoAddress}]
  /\ mem \in [Addresses -> (Addresses \cup {NoAddress}) \X Nat]

\* "We're sure to be here before any objects are compacted into this space":
\* SCAN_AND_FORWARD may set compaction_top to the bottom.
ScannedBeforeUse ==
  phase = "enter" => \A o \in Forwarded : forwardee[o][1] # scan

NotYetMoved(o) ==
  /\ phase # "done"
  /\ phase = "compact" => o[1] > scan \/ (o[1] = scan /\ o[2] >= q)

\* No object is copied over one that has not been copied yet.
NothingOverwritten ==
  \A o \in Objects :
    NotYetMoved(o) => \A a \in Region(o) : mem[a] = <<o, a[2] - o[2]>>

\* When it is over, each object lies complete at its new address, and below the
\* top of each space there is nothing else.  The transaction edens are empty:
\* reset_transEdens may hand them out again.
HeapCompacted ==
  phase = "done" =>
    /\ \A o \in Objects : \A a \in Destination(o) :
         mem[a] = <<o, a[2] - forwardee[o][2]>>
    /\ UNION {Destination(o) : o \in Objects}
         = UNION {{s} \X (0 .. top[s] - 1) : s \in Spaces}
    /\ \A e \in TransEdens : top[e] = 0

\* "compaction must succeed": forward always finds a space.
CompactionSucceeds == <>(phase = "done")
=============================================================================
