---------------------------- MODULE AtomicHistory ----------------------------
(***************************************************************************)
(* What the history-preserving store promises its clients: transactions   *)
(* commit one at a time, each under a tid newer than every committed one, *)
(* and each object a transaction writes gets a new revision whose prev_tid *)
(* is the object's current revision, which the new revision replaces.      *)
(***************************************************************************)
EXTENDS Naturals

CONSTANTS Oid, Val, MaxTid

VARIABLES
    aState,     \* committed revisions [zoid, tid, prev, state]
    aCurrent    \* oid -> tid of its current revision, 0 when it has none

Tid == 1..MaxTid

Init ==
    /\ aState = {}
    /\ aCurrent = [o \in Oid |-> 0]

\* A transaction commits the states val of the objects W under tid t.
Commit(t, W, val) ==
    /\ \A r \in aState : r.tid < t
    /\ aState' = aState \cup
           {[zoid |-> o, tid |-> t, prev |-> aCurrent[o], state |-> val[o]] :
              o \in W}
    /\ aCurrent' = [o \in Oid |-> IF o \in W THEN t ELSE aCurrent[o]]

Next == \E t \in Tid, W \in SUBSET Oid, val \in [Oid -> Val] : Commit(t, W, val)

Spec == Init /\ [][Next]_<<aState, aCurrent>>
=============================================================================
