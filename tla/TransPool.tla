----------------------------- MODULE TransPool ------------------------------
(***************************************************************************)
(* What the pool of transaction edens promises, whatever the locks, counts *)
(* and safepoints behind it: an eden is held by one transaction at a time, *)
(* holds objects of that transaction only, and keeps them until the        *)
(* transaction has ended or a collection of the whole heap has moved them. *)
(***************************************************************************)
CONSTANTS Edens, TransIDs, NoTrans

VARIABLES
  owner,   \* the transaction an eden belongs to, or NoTrans
  ended,   \* whether that transaction has ended
  heap     \* the transactions with objects in the eden

poolVars == <<owner, ended, heap>>

PoolInit ==
  /\ owner = [e \in Edens |-> NoTrans]
  /\ ended = [e \in Edens |-> FALSE]
  /\ heap = [e \in Edens |-> {}]

\* A transaction that holds no eden gets a free one.
Acquire(e, x) ==
  /\ owner[e] = NoTrans
  /\ \A f \in Edens : owner[f] # x
  /\ owner' = [owner EXCEPT ![e] = x]
  /\ UNCHANGED <<ended, heap>>

\* The owner allocates.
Fill(e) ==
  /\ owner[e] # NoTrans
  /\ ~ended[e]
  /\ heap' = [heap EXCEPT ![e] = {owner[e]}]
  /\ UNCHANGED <<owner, ended>>

Finish(e) ==
  /\ owner[e] # NoTrans
  /\ ~ended[e]
  /\ ended' = [ended EXCEPT ![e] = TRUE]
  /\ UNCHANGED <<owner, heap>>

\* The eden of an ended transaction becomes free and empty in one step.
Reclaim(e) ==
  /\ ended[e]
  /\ owner' = [owner EXCEPT ![e] = NoTrans]
  /\ ended' = [ended EXCEPT ![e] = FALSE]
  /\ heap' = [heap EXCEPT ![e] = {}]

\* A collection of the whole heap empties every eden; it may also take every
\* eden away from its transaction.
Compact ==
  /\ heap' = [e \in Edens |-> {}]
  /\ \/ UNCHANGED <<owner, ended>>
     \/ /\ owner' = [e \in Edens |-> NoTrans]
        /\ ended' = [e \in Edens |-> FALSE]

PoolNext ==
  \/ \E e \in Edens : \/ \E x \in TransIDs : Acquire(e, x)
                      \/ Fill(e) \/ Finish(e) \/ Reclaim(e)
  \/ Compact

PoolSpec == PoolInit /\ [][PoolNext]_poolVars
=============================================================================
