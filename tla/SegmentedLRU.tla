---------------------------- MODULE SegmentedLRU ----------------------------
(***************************************************************************)
(* The client cache's segmented LRU: three SizedLRU rings (eden,           *)
(* probation, protected) of relstorage/cache/lru.py sharing one byte       *)
(* budget, with the admission and catch-up eviction policy of the cache.   *)
(*                                                                         *)
(* A ring is a sequence of keys, MRU first.  size[r] is the ring's cached  *)
(* ring_home.frequency that the C ring functions keep; overSize[r] is the  *)
(* SizedLRU.over_size flag.  mapped is the key set of the SizedMapping     *)
(* dict that indexes the rings.  Every call runs under the LocalClient     *)
(* mutex; a call that adds or reads an entry then runs the catch-up        *)
(* eviction loops, one step per iteration, before the next call (pc).      *)
(***************************************************************************)
EXTENDS Naturals, Sequences

CONSTANTS
    Key,            \* cache keys (oid, tid)
    Weight,         \* possible entry lengths, len(key) + len(value)
    EdenLimit,      \* per-ring byte limits
    ProbationLimit,
    ProtectedLimit,
    MaxFreq         \* model bound on an entry's hit count (unbounded in lru.py)

ASSUME LRUAssumption ==
    /\ Weight \subseteq Nat \ {0}
    /\ {EdenLimit, ProbationLimit, ProtectedLimit, MaxFreq} \subseteq Nat
    /\ MaxFreq >= 1

Rings == {"eden", "probation", "protected"}
Limit == [r \in Rings |-> CASE r = "eden"      -> EdenLimit
                            [] r = "probation" -> ProbationLimit
                            [] r = "protected" -> ProtectedLimit]
Budget == EdenLimit + ProbationLimit + ProtectedLimit

VARIABLES
    order,      \* order[r]: the keys of ring r, MRU first
    size,       \* size[r]: ring_home.frequency, the sum the C ring maintains
    overSize,   \* overSize[r]: SizedLRU.over_size
    weight,     \* weight[k]: the entry's cffi_ring_node.len
    freq,       \* freq[k]: the entry's frequency
    mapped,     \* the keys of the mapping
    pc          \* "ready", or the catch-up loop being run

vars == <<order, size, overSize, weight, freq, mapped, pc>>

-----------------------------------------------------------------------------
(* Ring primitives (lru.py and the C ring it wraps).                       *)

\* Whether the ring s has a node for key k.
InRing(s, k) == \E i \in DOMAIN s : s[i] = k

\* The ring an entry lives in (entry.__parent__).
RingOf(k) == CHOOSE r \in Rings : InRing(order[r], k)

\* Ring.delete: unlink k's node; the nodes on either side close up.
Unlink(s, k) ==
    LET p == CHOOSE i \in DOMAIN s : s[i] = k
    IN  [i \in 1..Len(s) - 1 |-> IF i < p THEN s[i] ELSE s[i + 1]]

\* The ring's least recently used entry (get_LRU).
LRU(r) == order[r][Len(order[r])]

\* The sum of the lengths of a ring's entries.
RingWeight(r) ==
    LET sum[i \in 0..Len(order[r])] ==
            IF i = 0 THEN 0 ELSE weight[order[r][i]] + sum[i - 1]
    IN  sum[Len(order[r])]

\* Unlink k from ring r and push it at the front of ring r.
ToFront(r, k) == <<k>> \o Unlink(order[r], k)

\* Mutant: the old parent's over_size is left as it was before the move.
TakeOwnershipStaleParent(src, dst, k) ==
    /\ order' = [order EXCEPT ![src] = Unlink(@, k), ![dst] = <<k>> \o @]
    /\ size' = [size EXCEPT ![src] = @ - weight[k], ![dst] = @ + weight[k]]
    /\ overSize' = [overSize EXCEPT ![dst] = size'[dst] > Limit[dst]]

\* take_ownership_of_entry_MRU: ring_move_to_head_from_foreign unlinks the
\* entry from its old parent, pushes it at the head of dst and returns
\* whether dst is over size; then the old parent's over_size is recomputed.
TakeOwnership(src, dst, k) ==
    /\ order' = [order EXCEPT ![src] = Unlink(@, k), ![dst] = <<k>> \o @]
    /\ size' = [size EXCEPT ![src] = @ - weight[k], ![dst] = @ + weight[k]]
    /\ overSize' = [overSize EXCEPT ![dst] = size'[dst] > Limit[dst],
                                    ![src] = size'[src] > Limit[src]]

\* SizedLRU.delete: unlink the entry, recompute over_size; the mapping
\* drops the key with it.
DeleteEntry(r, k) ==
    /\ order' = [order EXCEPT ![r] = Unlink(@, k)]
    /\ size' = [size EXCEPT ![r] = @ - weight[k]]
    /\ overSize' = [overSize EXCEPT ![r] = size'[r] > Limit[r]]
    /\ mapped' = mapped \ {k}

-----------------------------------------------------------------------------
Init ==
    /\ order = [r \in Rings |-> <<>>]
    /\ size = [r \in Rings |-> 0]
    /\ overSize = [r \in Rings |-> FALSE]
    /\ weight = [k \in Key |-> 0]
    /\ freq = [k \in Key |-> 0]
    /\ mapped = {}
    /\ pc = "ready"

\* A new key: add_MRU in eden (a SizedLRURingEntry with frequency 1), then
\* the catch-up loops.
Add(k, w) ==
    /\ pc = "ready"
    /\ k \notin mapped
    /\ order' = [order EXCEPT !["eden"] = <<k>> \o @]
    /\ size' = [size EXCEPT !["eden"] = @ + w]
    /\ overSize' = [overSize EXCEPT !["eden"] = size'["eden"] > EdenLimit]
    /\ weight' = [weight EXCEPT ![k] = w]
    /\ freq' = [freq EXCEPT ![k] = 1]
    /\ mapped' = mapped \cup {k}
    /\ pc' = "eden"

\* on_hit: count the hit and make the entry MRU; a hit in probation
\* promotes the entry to protected instead.  frequency is an unbounded
\* Python int; the model stops hitting an entry at MaxFreq.
Hit(k) ==
    /\ pc = "ready"
    /\ k \in mapped
    /\ freq[k] < MaxFreq
    /\ freq' = [freq EXCEPT ![k] = @ + 1]
    /\ IF RingOf(k) = "probation"
       THEN TakeOwnership("probation", "protected", k)
       ELSE /\ order' = [order EXCEPT ![RingOf(k)] = ToFront(RingOf(k), k)]
            /\ UNCHANGED <<size, overSize>>
    /\ pc' = "eden"
    /\ UNCHANGED <<weight, mapped>>

\* Mutant: old_size is read after set_value, so the ring's size never moves.
UpdateMRUStaleOldSize(k, w) ==
    LET r == RingOf(k) IN
    /\ pc = "ready"
    /\ k \in mapped
    /\ weight' = [weight EXCEPT ![k] = w]
    /\ order' = [order EXCEPT ![r] = ToFront(r, k)]
    /\ overSize' = [overSize EXCEPT ![r] = size[r] > Limit[r]]
    /\ UNCHANGED <<size, freq, mapped, pc>>

\* Mutant: the size delta is applied the wrong way round.
UpdateMRUSwappedDelta(k, w) ==
    LET r == RingOf(k) IN
    /\ pc = "ready"
    /\ k \in mapped
    /\ weight' = [weight EXCEPT ![k] = w]
    /\ order' = [order EXCEPT ![r] = ToFront(r, k)]
    /\ size' = [size EXCEPT ![r] = @ + weight[k] - w]
    /\ overSize' = [overSize EXCEPT ![r] = size'[r] > Limit[r]]
    /\ UNCHANGED <<freq, mapped, pc>>

\* update_MRU: old_size = entry.len; set_value; lru_update_mru moves the
\* entry to the head and adds new_size - old_size to the ring's size.
UpdateMRU(k, w) ==
    LET r == RingOf(k) IN
    /\ pc = "ready"
    /\ k \in mapped
    /\ weight' = [weight EXCEPT ![k] = w]
    /\ order' = [order EXCEPT ![r] = ToFront(r, k)]
    /\ size' = [size EXCEPT ![r] = @ + w - weight[k]]
    /\ overSize' = [overSize EXCEPT ![r] = size'[r] > Limit[r]]
    /\ UNCHANGED <<freq, mapped, pc>>

\* delete(entry) from whichever ring holds it.
Delete(k) ==
    /\ pc = "ready"
    /\ k \in mapped
    /\ DeleteEntry(RingOf(k), k)
    /\ UNCHANGED <<weight, freq, pc>>

-----------------------------------------------------------------------------
(* Catch-up eviction after an add or a read, one iteration per step.       *)

\* Room protected leaves unused, which probation may borrow.
Slack == IF size["protected"] < ProtectedLimit
         THEN ProtectedLimit - size["protected"] ELSE 0

\* What probation may hold: its own limit plus protected's slack.
ProbationMax == ProbationLimit + Slack

\* Eden is over its limit: its LRU entry must leave.
EdenSpilling == pc = "eden" /\ size["eden"] > EdenLimit

\* The eden LRU fits in probation: it moves to probation's head.
SpillEdenAdmit ==
    LET v == LRU("eden") IN
    /\ EdenSpilling
    /\ size["probation"] + weight[v] <= ProbationMax
    /\ TakeOwnership("eden", "probation", v)
    /\ UNCHANGED <<weight, freq, mapped, pc>>

\* Mutant: the victim leaves its ring but stays in the mapping.
SpillEdenContestWinKeepsVictim ==
    LET v == LRU("eden")
        victim == LRU("probation") IN
    /\ EdenSpilling
    /\ size["probation"] + weight[v] > ProbationMax
    /\ order["probation"] # <<>>
    /\ freq[v] > freq[victim]
    /\ order' = [order EXCEPT !["eden"] = Unlink(@, v),
                              !["probation"] = <<v>> \o Unlink(@, victim)]
    /\ size' = [size EXCEPT !["eden"] = @ - weight[v],
                            !["probation"] = @ - weight[victim] + weight[v]]
    /\ overSize' = [r \in Rings |-> size'[r] > Limit[r]]
    /\ UNCHANGED <<weight, freq, mapped, pc>>

\* Admission contest, won: the candidate is more frequent than probation's
\* LRU, which is evicted; the candidate takes probation's head.
SpillEdenContestWin ==
    LET v == LRU("eden")
        victim == LRU("probation") IN
    /\ EdenSpilling
    /\ size["probation"] + weight[v] > ProbationMax
    /\ order["probation"] # <<>>
    /\ freq[v] > freq[victim]
    /\ order' = [order EXCEPT !["eden"] = Unlink(@, v),
                              !["probation"] = <<v>> \o Unlink(@, victim)]
    /\ size' = [size EXCEPT !["eden"] = @ - weight[v],
                            !["probation"] = @ - weight[victim] + weight[v]]
    /\ overSize' = [r \in Rings |-> size'[r] > Limit[r]]
    /\ mapped' = mapped \ {victim}
    /\ UNCHANGED <<weight, freq, pc>>

\* Admission contest, lost (ties go to the incumbent, and an empty
\* probation has no incumbent to beat): the candidate is evicted.
SpillEdenContestLose ==
    LET v == LRU("eden") IN
    /\ EdenSpilling
    /\ size["probation"] + weight[v] > ProbationMax
    /\ order["probation"] = <<>> \/ freq[v] <= freq[LRU("probation")]
    /\ DeleteEntry("eden", v)
    /\ UNCHANGED <<weight, freq, pc>>

\* Eden is within its limit: go on to protected.
EdenDone ==
    /\ pc = "eden"
    /\ size["eden"] <= EdenLimit
    /\ pc' = "protected"
    /\ UNCHANGED <<order, size, overSize, weight, freq, mapped>>

\* Mutant: one demotion, whatever protected's size after it.
DemoteProtectedOnce ==
    /\ pc = "protected"
    /\ size["protected"] > ProtectedLimit
    /\ TakeOwnership("protected", "probation", LRU("protected"))
    /\ pc' = "probation"
    /\ UNCHANGED <<weight, freq, mapped>>

\* Mutant: make_MRU inside protected instead of a move to probation.
DemoteProtectedInPlace ==
    /\ pc = "protected"
    /\ size["protected"] > ProtectedLimit
    /\ order' = [order EXCEPT !["protected"] =
                     ToFront("protected", LRU("protected"))]
    /\ UNCHANGED <<size, overSize, weight, freq, mapped, pc>>

\* Protected is over its limit: its LRU is demoted to probation's head.
DemoteProtected ==
    /\ pc = "protected"
    /\ size["protected"] > ProtectedLimit
    /\ TakeOwnership("protected", "probation", LRU("protected"))
    /\ UNCHANGED <<weight, freq, mapped, pc>>

ProtectedDone ==
    /\ pc = "protected"
    /\ size["protected"] <= ProtectedLimit
    /\ pc' = "probation"
    /\ UNCHANGED <<order, size, overSize, weight, freq, mapped>>

\* Probation holds more than it may: its LRU is evicted.
TrimProbation ==
    /\ pc = "probation"
    /\ size["probation"] > ProbationMax
    /\ DeleteEntry("probation", LRU("probation"))
    /\ UNCHANGED <<weight, freq, pc>>

ProbationDone ==
    /\ pc = "probation"
    /\ size["probation"] <= ProbationMax
    /\ pc' = "ready"
    /\ UNCHANGED <<order, size, overSize, weight, freq, mapped>>

CatchUp ==
    \/ SpillEdenAdmit \/ SpillEdenContestWin \/ SpillEdenContestLose
    \/ EdenDone \/ DemoteProtected \/ ProtectedDone
    \/ TrimProbation \/ ProbationDone

Next ==
    \/ \E k \in Key, w \in Weight : Add(k, w) \/ UpdateMRU(k, w)
    \/ \E k \in Key : Hit(k) \/ Delete(k)
    \/ CatchUp

\* A call runs to its end once it has started: the catch-up loop is part of
\* the same synchronous call under the mutex.
Spec == Init /\ [][Next]_vars /\ WF_vars(CatchUp)

-----------------------------------------------------------------------------
(* Properties.                                                             *)

TypeOK ==
    /\ order \in [Rings -> Seq(Key)]
    /\ size \in [Rings -> Nat]
    /\ overSize \in [Rings -> BOOLEAN]
    /\ weight \in [Key -> {0} \cup Weight]
    /\ freq \in [Key -> Nat]
    /\ mapped \subseteq Key
    /\ pc \in {"ready", "eden", "protected", "probation"}

\* Every key of the mapping sits in exactly one ring, once, and every ring
\* entry is in the mapping: no eviction (contest, trim, delete) unlinks an
\* entry and leaves its key behind, or the reverse.
Membership ==
    \A k \in Key :
        /\ k \in mapped <=> \E r \in Rings : InRing(order[r], k)
        /\ \A r, s \in Rings : InRing(order[r], k) /\ InRing(order[s], k)
                               => r = s
        /\ \A r \in Rings : \A i, j \in DOMAIN order[r] :
              order[r][i] = order[r][j] => i = j

\* The size each ring keeps incrementally is the sum of its entries'
\* lengths, after every call and every catch-up step (update_MRU's
\* old/new sizes, the two rings of a foreign move).
SizeAccounting == \A r \in Rings : size[r] = RingWeight(r)

\* Between calls each ring's over_size flag says whether it is over its
\* limit: the flag of the ring an entry left is refreshed too.
OverSizeAccurate ==
    pc = "ready" => \A r \in Rings : overSize[r] = (size[r] > Limit[r])

\* After the catch-up loops of an add or a read, the three rings together
\* are within the byte budget.
BudgetAfterCatchUp ==
    [][pc = "probation" /\ pc' = "ready"
       => size'["eden"] + size'["probation"] + size'["protected"] <= Budget]_vars

\* Every call that starts catch-up eviction finishes it.
CatchUpTerminates == pc # "ready" ~> pc = "ready"
====
