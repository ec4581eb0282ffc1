-------------------------- MODULE SegmentedLRUProofs --------------------------
(***************************************************************************)
(* Proofs about SegmentedLRU for every set of keys, every set of weights   *)
(* and all ring limits.                                                    *)
(***************************************************************************)
EXTENDS SegmentedLRU, TLAPS

USE LRUAssumption

\* Every ring's over_size flag says whether the ring is over its limit, in
\* every state, during the catch-up loops too: each step that changes a
\* ring's size recomputes that ring's flag.
OverSizeFlags == \A r \in Rings : overSize[r] = (size[r] > Limit[r])

\* The invariant: size and overSize are per-ring, and the flags are right.
FlagsInv ==
    /\ DOMAIN size = Rings
    /\ DOMAIN overSize = Rings
    /\ OverSizeFlags

\* The ring limits.
LEMMA LimitValues ==
    /\ Limit["eden"] = EdenLimit
    /\ Limit["probation"] = ProbationLimit
    /\ Limit["protected"] = ProtectedLimit
    /\ \A r \in Rings : Limit[r] \in Nat
BY DEF Limit, Rings

\* A step that leaves size and overSize alone keeps the flags right.
LEMMA FlagsUnchanged ==
    ASSUME FlagsInv, size' = size, overSize' = overSize
    PROVE  FlagsInv'
BY DEF FlagsInv, OverSizeFlags

\* take_ownership_of_entry_MRU recomputes both rings' flags.
LEMMA TakeOwnershipFlags ==
    ASSUME FlagsInv, NEW src, NEW dst, NEW k, TakeOwnership(src, dst, k)
    PROVE  FlagsInv'
BY DEF FlagsInv, OverSizeFlags, TakeOwnership

\* SizedLRU.delete recomputes the ring's flag.
LEMMA DeleteEntryFlags ==
    ASSUME FlagsInv, NEW r, NEW k, DeleteEntry(r, k)
    PROVE  FlagsInv'
BY DEF FlagsInv, OverSizeFlags, DeleteEntry

LEMMA InitFlags ==
    ASSUME Init
    PROVE  FlagsInv
<1>1. \A r \in Rings : ~(0 > Limit[r])
    BY LimitValues
<1>2. \A r \in Rings : size[r] = 0 /\ overSize[r] = FALSE
    BY DEF Init
<1>3. DOMAIN size = Rings /\ DOMAIN overSize = Rings
    BY DEF Init
<1>4. ASSUME NEW r \in Rings PROVE overSize[r] = (size[r] > Limit[r])
    <2>1. size[r] = 0 /\ overSize[r] = FALSE /\ ~(0 > Limit[r])
        BY <1>1, <1>2
    <2>2. (size[r] > Limit[r]) \in BOOLEAN /\ ~(size[r] > Limit[r])
        BY <2>1
    <2>3. QED
        BY <2>1, <2>2, Zenon
<1>5. QED
    BY <1>3, <1>4 DEF FlagsInv, OverSizeFlags

LEMMA NextFlags ==
    ASSUME FlagsInv, [Next]_vars
    PROVE  FlagsInv'
<1>1. ASSUME NEW k \in Key, NEW w \in Weight, Add(k, w)
      PROVE  FlagsInv'
    BY <1>1, LimitValues DEF Add, FlagsInv, OverSizeFlags, Rings
<1>2. ASSUME NEW k \in Key, NEW w \in Weight, UpdateMRU(k, w)
      PROVE  FlagsInv'
    BY <1>2 DEF UpdateMRU, FlagsInv, OverSizeFlags
<1>3. ASSUME NEW k \in Key, Hit(k)
      PROVE  FlagsInv'
    <2>1. CASE RingOf(k) = "probation"
        BY <1>3, <2>1, TakeOwnershipFlags DEF Hit
    <2>2. CASE RingOf(k) # "probation"
        BY <1>3, <2>2, FlagsUnchanged DEF Hit
    <2>3. QED
        BY <2>1, <2>2
<1>4. ASSUME NEW k \in Key, Delete(k)
      PROVE  FlagsInv'
    BY <1>4, DeleteEntryFlags DEF Delete
<1>5. CASE SpillEdenAdmit \/ DemoteProtected
    BY <1>5, TakeOwnershipFlags DEF SpillEdenAdmit, DemoteProtected
<1>6. CASE SpillEdenContestWin
    BY <1>6 DEF SpillEdenContestWin, FlagsInv, OverSizeFlags
<1>7. CASE SpillEdenContestLose \/ TrimProbation
    BY <1>7, DeleteEntryFlags DEF SpillEdenContestLose, TrimProbation
<1>8. CASE EdenDone \/ ProtectedDone \/ ProbationDone \/ UNCHANGED vars
    BY <1>8, FlagsUnchanged DEF EdenDone, ProtectedDone, ProbationDone, vars
<1>9. QED
    BY <1>1, <1>2, <1>3, <1>4, <1>5, <1>6, <1>7, <1>8 DEF Next, CatchUp

\* Between calls, every ring's SizedLRU.over_size flag says whether the ring
\* is over its limit: add_MRU, update_MRU, delete and a foreign move (which
\* refreshes the old parent's flag too) each recompute the flags of the
\* rings whose size they change.
THEOREM OverSizeAlwaysAccurate == Spec => []OverSizeAccurate
<1>1. FlagsInv => OverSizeAccurate
    BY DEF FlagsInv, OverSizeFlags, OverSizeAccurate
<1>2. Spec => []FlagsInv
    BY InitFlags, NextFlags, PTL DEF Spec
<1>3. QED
    BY <1>1, <1>2, PTL

(***************************************************************************)
(* The rings.  A ring's size is the sum of its entries' lengths.  The sum  *)
(* is carried as an explicit prefix-sum function ps satisfying the sum's   *)
(* equation: each step builds the new prefix sums from the old ones by a   *)
(* shift or a splice, where reasoning about RingWeight's recursive         *)
(* definition would need induction along the ring.                         *)
(***************************************************************************)
\* No key has two nodes in ring s.
NoDup(s) == \A i, j \in DOMAIN s : s[i] = s[j] => i = j

\* ps is the prefix-sum function of ring s under lengths wt.
PrefixSums(ps, s, wt) ==
    /\ ps \in [0..Len(s) -> Nat]
    /\ ps[0] = 0
    /\ \A i \in 1..Len(s) : ps[i] = ps[i - 1] + wt[s[i]]
    /\ \A i, j \in 0..Len(s) : i <= j => ps[i] <= ps[j]

\* The lengths of ring s's entries add up to n.
Summed(s, wt, n) == \E ps : PrefixSums(ps, s, wt) /\ ps[Len(s)] = n

\* Pushing k at the head of a ring.
LEMMA PushSeq ==
    ASSUME NEW s \in Seq(Key), NEW k \in Key
    PROVE  /\ <<k>> \o s \in Seq(Key)
           /\ Len(<<k>> \o s) = Len(s) + 1
           /\ (<<k>> \o s)[1] = k
           /\ \A i \in 2..Len(s) + 1 : (<<k>> \o s)[i] = s[i - 1]
           /\ \A j : InRing(<<k>> \o s, j) <=> j = k \/ InRing(s, j)
           /\ ~InRing(s, k) /\ NoDup(s) => NoDup(<<k>> \o s)
<1>1. /\ <<k>> \o s \in Seq(Key)
      /\ Len(<<k>> \o s) = Len(s) + 1
      /\ (<<k>> \o s)[1] = k
      /\ \A i \in 2..Len(s) + 1 : (<<k>> \o s)[i] = s[i - 1]
    OBVIOUS
<1>2. DOMAIN (<<k>> \o s) = 1..Len(s) + 1 /\ DOMAIN s = 1..Len(s)
    BY <1>1
<1>3. \A j : InRing(<<k>> \o s, j) <=> j = k \/ InRing(s, j)
    <2> SUFFICES ASSUME NEW j
                 PROVE  InRing(<<k>> \o s, j) <=> j = k \/ InRing(s, j)
        OBVIOUS
    <2>1. InRing(<<k>> \o s, j) => j = k \/ InRing(s, j)
        BY <1>1, <1>2 DEF InRing
    <2>2. j = k => InRing(<<k>> \o s, j)
        BY <1>1, <1>2 DEF InRing
    <2>3. InRing(s, j) => InRing(<<k>> \o s, j)
        <3> SUFFICES ASSUME NEW i \in DOMAIN s, s[i] = j
                     PROVE  InRing(<<k>> \o s, j)
            BY DEF InRing
        <3>1. i + 1 \in DOMAIN (<<k>> \o s) /\ (<<k>> \o s)[i + 1] = j
            BY <1>1, <1>2
        <3>2. QED
            BY <3>1 DEF InRing
    <2>4. QED
        BY <2>1, <2>2, <2>3
<1>4. ~InRing(s, k) /\ NoDup(s) => NoDup(<<k>> \o s)
    BY <1>1, <1>2 DEF InRing, NoDup
<1>5. QED
    BY <1>1, <1>3, <1>4

\* Unlinking the node of k, which s holds once, at position p.
LEMMA UnlinkSeq ==
    ASSUME NEW s \in Seq(Key), NoDup(s), NEW p \in DOMAIN s
    PROVE  LET u == Unlink(s, s[p]) IN
           /\ u \in Seq(Key)
           /\ Len(u) = Len(s) - 1
           /\ \A i \in 1..Len(s) - 1 : u[i] = IF i < p THEN s[i] ELSE s[i + 1]
           /\ \A j : InRing(u, j) <=> InRing(s, j) /\ j # s[p]
           /\ NoDup(u)
<1> DEFINE u == Unlink(s, s[p])
<1>1. (CHOOSE i \in DOMAIN s : s[i] = s[p]) = p
    BY DEF NoDup
<1>2. u = [i \in 1..Len(s) - 1 |-> IF i < p THEN s[i] ELSE s[i + 1]]
    BY <1>1 DEF u, Unlink
<1>3. DOMAIN s = 1..Len(s) /\ Len(s) \in Nat /\ p \in 1..Len(s)
    OBVIOUS
<1>4. u \in Seq(Key) /\ Len(u) = Len(s) - 1
    BY <1>2, <1>3
<1>5. \A j : InRing(u, j) <=> InRing(s, j) /\ j # s[p]
    <2> SUFFICES ASSUME NEW j
                 PROVE  InRing(u, j) <=> InRing(s, j) /\ j # s[p]
        OBVIOUS
    <2>1. InRing(u, j) => InRing(s, j) /\ j # s[p]
        <3> SUFFICES ASSUME NEW i \in 1..Len(s) - 1, u[i] = j
                     PROVE  InRing(s, j) /\ j # s[p]
            BY <1>2, <1>3 DEF InRing
        <3>1. CASE i < p
            BY <1>2, <1>3, <3>1 DEF InRing, NoDup
        <3>2. CASE ~(i < p)
            BY <1>2, <1>3, <3>2 DEF InRing, NoDup
        <3>3. QED
            BY <3>1, <3>2
    <2>2. InRing(s, j) /\ j # s[p] => InRing(u, j)
        <3> SUFFICES ASSUME NEW i \in DOMAIN s, s[i] = j, j # s[p]
                     PROVE  InRing(u, j)
            BY DEF InRing
        <3>1. CASE i < p
            <4>1. i \in DOMAIN u /\ u[i] = j
                BY <1>2, <1>3, <3>1
            <4>2. QED
                BY <4>1 DEF InRing
        <3>2. CASE ~(i < p)
            <4>1. i # p /\ i - 1 \in DOMAIN u /\ u[i - 1] = j
                BY <1>2, <1>3, <3>2
            <4>2. QED
                BY <4>1 DEF InRing
        <3>3. QED
            BY <3>1, <3>2
    <2>3. QED
        BY <2>1, <2>2
<1>6. NoDup(u)
    BY <1>2, <1>3 DEF NoDup
<1>7. QED
    BY <1>2, <1>4, <1>5, <1>6

\* An empty ring sums to 0; a ring's sum is a natural number, and a ring
\* whose sum is positive has an entry.
LEMMA SummedFacts ==
    ASSUME NEW s \in Seq(Key), NEW wt, NEW n
    PROVE  /\ Summed(<<>>, wt, 0)
           /\ Summed(s, wt, n) => n \in Nat /\ (n > 0 => s # <<>>)
<1>1. Summed(<<>>, wt, 0)
    <2>1. PrefixSums([i \in 0..0 |-> 0], <<>>, wt)
        BY DEF PrefixSums
    <2>2. QED
        BY <2>1 DEF Summed
<1>2. ASSUME Summed(s, wt, n) PROVE n \in Nat /\ (n > 0 => s # <<>>)
    <2>1. PICK ps : PrefixSums(ps, s, wt) /\ ps[Len(s)] = n
        BY <1>2 DEF Summed
    <2>2. QED
        BY <2>1 DEF PrefixSums
<1>3. QED
    BY <1>1, <1>2

\* An empty ring sums to 0, whatever the lengths.
LEMMA SummedEmpty ==
    ASSUME NEW wt
    PROVE  Summed(<<>>, wt, 0)
<1>1. PrefixSums([i \in 0..0 |-> 0], <<>>, wt)
    BY DEF PrefixSums
<1>2. QED
    BY <1>1 DEF Summed

\* One step of a prefix-sum witness, at a given index.
LEMMA PSAt ==
    ASSUME NEW s \in Seq(Key), NEW wt \in [Key -> Nat], NEW ps,
           PrefixSums(ps, s, wt), NEW i \in 1..Len(s)
    PROVE  /\ ps[i] = ps[i - 1] + wt[s[i]]
           /\ ps[i] \in Nat /\ ps[i - 1] \in Nat /\ wt[s[i]] \in Nat
<1>1. i - 1 \in 0..Len(s) /\ i \in 0..Len(s) /\ s[i] \in Key
    OBVIOUS
<1>2. ps \in [0..Len(s) -> Nat]
    BY DEF PrefixSums
<1>3. ps[i] = ps[i - 1] + wt[s[i]]
    BY DEF PrefixSums
<1>4. ps[i] \in Nat /\ ps[i - 1] \in Nat
    BY <1>1, <1>2
<1>5. wt[s[i]] \in Nat
    BY <1>1
<1>6. QED
    BY <1>3, <1>4, <1>5

\* A prefix-sum witness is monotone, at two given indices.
LEMMA PSLe ==
    ASSUME NEW s \in Seq(Key), NEW wt \in [Key -> Nat], NEW ps,
           PrefixSums(ps, s, wt), NEW i \in 0..Len(s), NEW j \in 0..Len(s), i <= j
    PROVE  ps[i] <= ps[j] /\ ps[i] \in Nat /\ ps[j] \in Nat
<1>1. ps \in [0..Len(s) -> Nat]
    BY DEF PrefixSums
<1>2. ps[i] <= ps[j]
    BY DEF PrefixSums
<1>3. QED
    BY <1>1, <1>2

\* Pushing k at a ring's head adds k's length to the ring's sum.
LEMMA SummedPush ==
    ASSUME NEW s \in Seq(Key), NEW k \in Key, NEW wt \in [Key -> Nat],
           NEW n, Summed(s, wt, n)
    PROVE  Summed(<<k>> \o s, wt, wt[k] + n)
<1>1. PICK ps : PrefixSums(ps, s, wt) /\ ps[Len(s)] = n
    BY DEF Summed
<1> DEFINE t == <<k>> \o s
           qs == [i \in 0..Len(s) + 1 |-> IF i = 0 THEN 0 ELSE wt[k] + ps[i - 1]]
<1>2. /\ Len(t) = Len(s) + 1 /\ t[1] = k
      /\ \A i \in 2..Len(s) + 1 : t[i] = s[i - 1]
    BY PushSeq DEF t
<1>3. /\ ps \in [0..Len(s) -> Nat] /\ ps[0] = 0
      /\ \A i \in 1..Len(s) : ps[i] = ps[i - 1] + wt[s[i]]
      /\ \A i, j \in 0..Len(s) : i <= j => ps[i] <= ps[j]
    BY <1>1 DEF PrefixSums
<1>0. Len(s) \in Nat /\ wt[k] \in Nat
    OBVIOUS
<1>4. qs \in [0..Len(t) -> Nat] /\ qs[0] = 0
    BY <1>0, <1>2, <1>3 DEF qs
<1>5. \A i \in 1..Len(t) : qs[i] = qs[i - 1] + wt[t[i]]
    <2> SUFFICES ASSUME NEW i \in 1..Len(s) + 1
                 PROVE  qs[i] = qs[i - 1] + wt[t[i]]
        BY <1>2
    <2>1. CASE i = 1
        BY <1>0, <1>2, <1>3, <2>1 DEF qs
    <2>2. CASE i > 1
        <3>1. i - 1 \in 1..Len(s) /\ t[i] = s[i - 1]
            BY <1>0, <1>2, <2>2
        <3>2. qs[i] = wt[k] + ps[i - 1] /\ qs[i - 1] = wt[k] + ps[i - 2]
            BY <1>0, <2>2 DEF qs
        <3>3. ps[i - 1] = ps[i - 2] + wt[s[i - 1]]
            <4>1. ps[i - 1] = ps[(i - 1) - 1] + wt[s[i - 1]]
                BY <1>3, <3>1
            <4>2. (i - 1) - 1 = i - 2
                BY <1>0, <2>2
            <4>3. QED
                BY <4>1, <4>2
        <3>4. ps[i - 2] \in Nat /\ wt[s[i - 1]] \in Nat
            <4>1. i - 2 \in 0..Len(s) /\ s[i - 1] \in Key
                BY <1>0, <3>1
            <4>2. QED
                BY <1>3, <4>1
        <3>5. QED
            BY <1>0, <3>1, <3>2, <3>3, <3>4
    <2>3. QED
        BY <2>1, <2>2, <1>0
<1>6. \A i, j \in 0..Len(t) : i <= j => qs[i] <= qs[j]
    <2> SUFFICES ASSUME NEW i \in 0..Len(s) + 1, NEW j \in 0..Len(s) + 1, i <= j
                 PROVE  qs[i] <= qs[j]
        BY <1>2
    <2>1. CASE i = 0
        <3>1. qs[i] = 0 /\ qs[j] \in Nat
            BY <1>4, <2>1
        <3>2. QED
            BY <3>1
    <2>2. CASE i > 0
        <3>1. qs[i] = wt[k] + ps[i - 1] /\ qs[j] = wt[k] + ps[j - 1]
            BY <1>0, <2>2 DEF qs
        <3>2. ps[i - 1] <= ps[j - 1] /\ ps[i - 1] \in Nat /\ ps[j - 1] \in Nat
            <4>1. i - 1 \in 0..Len(s) /\ j - 1 \in 0..Len(s) /\ i - 1 <= j - 1
                BY <1>0, <2>2
            <4>2. QED
                BY <1>1, <4>1, PSLe
        <3>3. QED
            BY <1>0, <3>1, <3>2
    <2>3. QED
        BY <2>1, <2>2, <1>0
<1>7. qs[Len(t)] = wt[k] + n
    BY <1>0, <1>1, <1>2 DEF qs
<1>8. QED
    BY <1>4, <1>5, <1>6, <1>7 DEF Summed, PrefixSums, t

\* Unlinking k's node takes k's length off the ring's sum.
LEMMA SummedUnlink ==
    ASSUME NEW s \in Seq(Key), NoDup(s), NEW p \in DOMAIN s,
           NEW wt \in [Key -> Nat], NEW n, Summed(s, wt, n)
    PROVE  Summed(Unlink(s, s[p]), wt, n - wt[s[p]])
<1>1. PICK ps : PrefixSums(ps, s, wt) /\ ps[Len(s)] = n
    BY DEF Summed
<1> DEFINE u == Unlink(s, s[p])
           w == wt[s[p]]
           qs == [i \in 0..Len(s) - 1 |-> IF i < p THEN ps[i] ELSE ps[i + 1] - w]
<1> HIDE DEF u, w, qs
<1>2. /\ Len(u) = Len(s) - 1
      /\ \A i \in 1..Len(s) - 1 : u[i] = IF i < p THEN s[i] ELSE s[i + 1]
    BY UnlinkSeq DEF u
<1>3. Len(s) \in Nat /\ p \in 1..Len(s)
    OBVIOUS
<1>4. ps \in [0..Len(s) -> Nat]
    BY <1>1 DEF PrefixSums
<1>5. \A i \in 1..Len(s) : ps[i] = ps[i - 1] + wt[s[i]]
    BY <1>1 DEF PrefixSums
<1>6. \A i, j \in 0..Len(s) : i <= j => ps[i] <= ps[j]
    BY <1>1 DEF PrefixSums
<1>7. ps[0] = 0
    BY <1>1 DEF PrefixSums
<1>8. w \in Nat /\ ps[p] = ps[p - 1] + w /\ ps[p] \in Nat /\ ps[p - 1] \in Nat
    <2>1. s[p] \in Key /\ p \in 0..Len(s) /\ p - 1 \in 0..Len(s)
        BY <1>3
    <2>2. w \in Nat
        BY <2>1 DEF w
    <2>3. ps[p] = ps[p - 1] + w
        BY <1>3, <1>5 DEF w
    <2>4. ps[p] \in Nat /\ ps[p - 1] \in Nat
        BY <1>4, <2>1
    <2>5. QED
        BY <2>2, <2>3, <2>4
<1>9. \A i \in 0..Len(s) - 1 : /\ i < p => qs[i] = ps[i]
                               /\ ~(i < p) => qs[i] = ps[i + 1] - w
    BY DEF qs
<1>10. \A i \in 0..Len(s) - 1 : qs[i] \in Nat
    <2> SUFFICES ASSUME NEW i \in 0..Len(s) - 1 PROVE qs[i] \in Nat
        OBVIOUS
    <2>1. CASE i < p
        <3>1. i \in 0..Len(s)
            BY <1>3
        <3>2. QED
            BY <1>4, <1>9, <2>1, <3>1
    <2>2. CASE ~(i < p)
        <3>1. p \in 0..Len(s) /\ i + 1 \in 0..Len(s) /\ p <= i + 1 /\ p - 1 \in 0..Len(s)
            BY <1>3, <2>2
        <3>2. ps[p] <= ps[i + 1]
            BY <1>6, <3>1
        <3>3. ps[p - 1] \in Nat /\ ps[i + 1] \in Nat
            BY <1>4, <3>1
        <3>4. qs[i] = ps[i + 1] - w
            BY <1>9, <2>2
        <3>5. QED
            BY <1>8, <3>2, <3>3, <3>4, SMTT(40)
    <2>3. QED
        BY <2>1, <2>2
<1>11. qs \in [0..Len(u) -> Nat] /\ qs[0] = 0
    <2>1. qs[0] = 0
        BY <1>3, <1>7, <1>9
    <2>2. QED
        BY <1>2, <1>10, <2>1 DEF qs
<1>12. \A i \in 1..Len(u) : qs[i] = qs[i - 1] + wt[u[i]]
    <2> SUFFICES ASSUME NEW i \in 1..Len(s) - 1
                 PROVE  qs[i] = qs[i - 1] + wt[u[i]]
        BY <1>2
    <2>0. /\ i \in 0..Len(s) - 1 /\ i - 1 \in 0..Len(s) - 1
          /\ i \in 1..Len(s) /\ i + 1 \in 1..Len(s)
          /\ i - 1 \in 0..Len(s) /\ i \in 0..Len(s) /\ i + 1 \in 0..Len(s)
          /\ s[i] \in Key /\ s[i + 1] \in Key
        BY <1>3
    <2>1. CASE i < p
        <3>1. qs[i] = ps[i] /\ qs[i - 1] = ps[i - 1]
            BY <1>9, <2>0, <2>1
        <3>2. u[i] = s[i]
            BY <1>2, <2>1
        <3>3. ps[i] = ps[i - 1] + wt[s[i]]
            BY <1>5, <2>0
        <3>4. QED
            BY <3>1, <3>2, <3>3
    <2>2. CASE i = p
        <3>1. qs[i] = ps[i + 1] - w /\ qs[i - 1] = ps[i - 1]
            BY <1>9, <2>0, <2>2, SMTT(40)
        <3>2. u[i] = s[i + 1]
            BY <1>2, <2>2
        <3>3. ps[i + 1] = ps[i] + wt[s[i + 1]]
            <4>1. ps[i + 1] = ps[(i + 1) - 1] + wt[s[i + 1]]
                BY <1>5, <2>0
            <4>2. (i + 1) - 1 = i
                BY <1>3
            <4>3. QED
                BY <4>1, <4>2
        <3>4. ps[i] = ps[i - 1] + w
            BY <1>8, <2>2
        <3>5. ps[i - 1] \in Nat /\ ps[i] \in Nat /\ ps[i + 1] \in Nat /\ wt[s[i + 1]] \in Nat
            BY <1>4, <2>0
        <3>6. QED
            BY <1>8, <3>1, <3>2, <3>3, <3>4, <3>5, SMTT(40)
    <2>3. CASE i > p
        <3>1. qs[i] = ps[i + 1] - w /\ qs[i - 1] = ps[i] - w
            BY <1>3, <1>9, <2>0, <2>3
        <3>2. u[i] = s[i + 1]
            BY <1>2, <1>3, <2>3
        <3>3. ps[i + 1] = ps[i] + wt[s[i + 1]]
            <4>1. ps[i + 1] = ps[(i + 1) - 1] + wt[s[i + 1]]
                BY <1>5, <2>0
            <4>2. (i + 1) - 1 = i
                BY <1>3
            <4>3. QED
                BY <4>1, <4>2
        <3>4. ps[i] \in Nat /\ ps[i + 1] \in Nat /\ wt[s[i + 1]] \in Nat
            BY <1>4, <2>0
        <3>5. QED
            BY <1>8, <3>1, <3>2, <3>3, <3>4, SMTT(40)
    <2>4. QED
        BY <2>1, <2>2, <2>3, <1>3
<1>13. \A i, j \in 0..Len(u) : i <= j => qs[i] <= qs[j]
    <2> SUFFICES ASSUME NEW i \in 0..Len(s) - 1, NEW j \in 0..Len(s) - 1, i <= j
                 PROVE  qs[i] <= qs[j]
        BY <1>2
    <2>1. CASE j < p
        <3>1. qs[i] = ps[i] /\ qs[j] = ps[j]
            BY <1>3, <1>9, <2>1
        <3>2. i \in 0..Len(s) /\ j \in 0..Len(s)
            BY <1>3
        <3>3. QED
            BY <1>6, <3>1, <3>2, SMTT(40)
    <2>2. CASE i < p /\ ~(j < p)
        <3>1. qs[i] = ps[i] /\ qs[j] = ps[j + 1] - w
            BY <1>9, <2>2
        <3>2. /\ i \in 0..Len(s) /\ p - 1 \in 0..Len(s) /\ i <= p - 1
              /\ p \in 0..Len(s) /\ j + 1 \in 0..Len(s) /\ p <= j + 1
            BY <1>3, <2>2
        <3>3. ps[i] <= ps[p - 1] /\ ps[p] <= ps[j + 1]
            BY <1>6, <3>2
        <3>4. ps[i] \in Nat /\ ps[p - 1] \in Nat /\ ps[j + 1] \in Nat
            BY <1>4, <3>2
        <3>5. QED
            BY <1>8, <3>1, <3>3, <3>4, SMTT(40)
    <2>3. CASE ~(i < p)
        <3>1. qs[i] = ps[i + 1] - w /\ qs[j] = ps[j + 1] - w
            BY <1>9, <2>3
        <3>2. i + 1 \in 0..Len(s) /\ j + 1 \in 0..Len(s) /\ i + 1 <= j + 1
            BY <1>3
        <3>3. ps[i + 1] <= ps[j + 1]
            BY <1>6, <3>2
        <3>4. ps[i + 1] \in Nat /\ ps[j + 1] \in Nat
            BY <1>4, <3>2
        <3>5. QED
            BY <1>8, <3>1, <3>3, <3>4, SMTT(40)
    <2>4. QED
        BY <2>1, <2>2, <2>3
<1>14. qs[Len(u)] = n - w
    <2>1. CASE Len(s) - 1 < p
        <3>1. p = Len(s) /\ Len(u) = p - 1 /\ p - 1 \in 0..Len(s) - 1
            BY <1>2, <1>3, <2>1
        <3>2. qs[p - 1] = ps[p - 1]
            BY <1>9, <3>1
        <3>3. ps[p - 1] \in Nat
            BY <1>3, <1>4
        <3>4. QED
            BY <1>1, <1>8, <3>1, <3>2, <3>3, SMTT(40)
    <2>2. CASE ~(Len(s) - 1 < p)
        <3>1. Len(s) - 1 \in 0..Len(s) - 1
            BY <1>3, <2>2
        <3>2. qs[Len(s) - 1] = ps[Len(s)] - w
            BY <1>3, <1>9, <2>2, <3>1
        <3>3. QED
            BY <1>1, <1>2, <3>2, SMTT(40)
    <2>3. QED
        BY <2>1, <2>2
<1>15. QED
    BY <1>11, <1>12, <1>13, <1>14 DEF Summed, PrefixSums, u, w

\* A ring's sum depends only on the lengths of its own entries.
LEMMA SummedWeights ==
    ASSUME NEW s \in Seq(Key), NEW wt, NEW wt2, NEW n, Summed(s, wt, n),
           \A i \in 1..Len(s) : wt2[s[i]] = wt[s[i]]
    PROVE  Summed(s, wt2, n)
BY DEF Summed, PrefixSums

(***************************************************************************)
(* The rings and the mapping together.                                     *)
(***************************************************************************)
\* Every key of the mapping has a node in some ring, and only those keys.
Mem(ord, mp) == \A k \in Key : k \in mp <=> \E r \in Rings : InRing(ord[r], k)

\* No key has nodes in two rings.
Uniq(ord) ==
    \A k \in Key : \A r, q \in Rings : InRing(ord[r], k) /\ InRing(ord[q], k) => r = q

\* The rings hold each key once, in one ring, exactly the mapped keys, and
\* each ring's size is the sum of its entries' lengths.
RingsOK(ord, sz, wt, mp) ==
    /\ ord \in [Rings -> Seq(Key)]
    /\ sz \in [Rings -> Nat]
    /\ wt \in [Key -> Nat]
    /\ mp \subseteq Key
    /\ \A r \in Rings : NoDup(ord[r]) /\ Summed(ord[r], wt, sz[r])
    /\ Mem(ord, mp)
    /\ Uniq(ord)

\* A step that takes key k out of every ring, and leaves every other key
\* where it was, keeps Mem (without k) and Uniq.
LEMMA RelocateOut ==
    ASSUME NEW ord, NEW mp, NEW ord2, NEW k \in Key,
           Mem(ord, mp), Uniq(ord),
           \A r \in Rings, j \in Key :
               InRing(ord2[r], j) <=> j # k /\ InRing(ord[r], j)
    PROVE  Mem(ord2, mp \ {k}) /\ Uniq(ord2)
BY DEF Mem, Uniq

\* A step that puts key k in ring d only, and leaves every other key where
\* it was, keeps Mem (with k) and Uniq.
LEMMA RelocateTo ==
    ASSUME NEW ord, NEW mp, NEW ord2, NEW k \in Key,
           Mem(ord, mp), Uniq(ord),
           \E d \in Rings : \A r \in Rings : InRing(ord2[r], k) <=> r = d,
           \A r \in Rings, j \in Key \ {k} : InRing(ord2[r], j) <=> InRing(ord[r], j)
    PROVE  Mem(ord2, mp \cup {k}) /\ Uniq(ord2)
BY DEF Mem, Uniq

\* SizedLRU.delete of k from ring r keeps the rings right.
LEMMA DeleteOK ==
    ASSUME NEW ord, NEW sz, NEW wt, NEW mp, RingsOK(ord, sz, wt, mp),
           NEW r \in Rings, NEW k, InRing(ord[r], k)
    PROVE  RingsOK([ord EXCEPT ![r] = Unlink(@, k)],
                   [sz EXCEPT ![r] = @ - wt[k]], wt, mp \ {k})
<1> DEFINE ord2 == [ord EXCEPT ![r] = Unlink(@, k)]
           sz2 == [sz EXCEPT ![r] = @ - wt[k]]
           u == Unlink(ord[r], k)
<1> HIDE DEF ord2, sz2, u
<1>1. PICK p \in DOMAIN ord[r] : ord[r][p] = k
    BY DEF InRing
<1>2. /\ ord[r] \in Seq(Key) /\ NoDup(ord[r]) /\ Summed(ord[r], wt, sz[r])
      /\ k \in Key /\ wt \in [Key -> Nat] /\ sz[r] \in Nat
    BY <1>1 DEF RingsOK
<1>3. /\ u \in Seq(Key) /\ NoDup(u)
      /\ \A j : InRing(u, j) <=> InRing(ord[r], j) /\ j # k
      /\ Summed(u, wt, sz[r] - wt[k])
    <2>1. /\ Unlink(ord[r], ord[r][p]) \in Seq(Key) /\ NoDup(Unlink(ord[r], ord[r][p]))
          /\ \A j : InRing(Unlink(ord[r], ord[r][p]), j) <=> InRing(ord[r], j) /\ j # ord[r][p]
        BY <1>2, UnlinkSeq
    <2>2. Summed(Unlink(ord[r], ord[r][p]), wt, sz[r] - wt[ord[r][p]])
        BY <1>2, SummedUnlink
    <2>3. QED
        BY <1>1, <2>1, <2>2 DEF u
<1>4. sz[r] - wt[k] \in Nat
    BY <1>3, SummedFacts
<1>5. /\ ord2 \in [Rings -> Seq(Key)] /\ sz2 \in [Rings -> Nat]
      /\ ord2[r] = u /\ sz2[r] = sz[r] - wt[k]
      /\ \A q \in Rings \ {r} : ord2[q] = ord[q] /\ sz2[q] = sz[q]
    BY <1>3, <1>4 DEF RingsOK, ord2, sz2, u
<1>6. \A q \in Rings : NoDup(ord2[q]) /\ Summed(ord2[q], wt, sz2[q])
    BY <1>3, <1>5 DEF RingsOK
<1>7. \A q \in Rings, j \in Key :
          InRing(ord2[q], j) <=> j # k /\ InRing(ord[q], j)
    <2> SUFFICES ASSUME NEW q \in Rings, NEW j \in Key
                 PROVE  InRing(ord2[q], j) <=> j # k /\ InRing(ord[q], j)
        OBVIOUS
    <2>1. CASE q = r
        BY <1>3, <1>5, <2>1
    <2>2. CASE q # r
        <3>1. ~InRing(ord[q], k)
            BY <1>2, <2>2 DEF RingsOK, Uniq
        <3>2. QED
            BY <1>5, <2>2, <3>1
    <2>3. QED
        BY <2>1, <2>2
<1>8. Mem(ord2, mp \ {k}) /\ Uniq(ord2)
    <2>1. Mem(ord, mp) /\ Uniq(ord)
        BY DEF RingsOK
    <2>2. QED
        BY <1>2, <1>7, <2>1, RelocateOut
<1>9. QED
    BY <1>5, <1>6, <1>8, <1>2 DEF RingsOK, ord2, sz2

\* A ring without k keeps its sum when k's length changes.
LEMMA SummedOther ==
    ASSUME NEW s \in Seq(Key), NEW wt \in [Key -> Nat], NEW k, NEW w, NEW n,
           Summed(s, wt, n), ~InRing(s, k)
    PROVE  Summed(s, [wt EXCEPT ![k] = w], n)
<1>1. \A i \in 1..Len(s) : [wt EXCEPT ![k] = w][s[i]] = wt[s[i]]
    BY DEF InRing
<1>2. QED
    BY <1>1, SummedWeights

\* take_ownership_of_entry_MRU of k, from ring src to the head of ring dst,
\* keeps the rings right.
LEMMA MoveOK ==
    ASSUME NEW ord, NEW sz, NEW wt, NEW mp, RingsOK(ord, sz, wt, mp),
           NEW src \in Rings, NEW dst \in Rings, src # dst,
           NEW k, InRing(ord[src], k)
    PROVE  RingsOK([ord EXCEPT ![src] = Unlink(@, k), ![dst] = <<k>> \o @],
                   [sz EXCEPT ![src] = @ - wt[k], ![dst] = @ + wt[k]], wt, mp)
<1> DEFINE ord2 == [ord EXCEPT ![src] = Unlink(@, k), ![dst] = <<k>> \o @]
           sz2 == [sz EXCEPT ![src] = @ - wt[k], ![dst] = @ + wt[k]]
           u == Unlink(ord[src], k)
           v == <<k>> \o ord[dst]
<1> HIDE DEF ord2, sz2, u, v
<1>1. PICK p \in DOMAIN ord[src] : ord[src][p] = k
    BY DEF InRing
<1>2. /\ ord[src] \in Seq(Key) /\ NoDup(ord[src]) /\ Summed(ord[src], wt, sz[src])
      /\ ord[dst] \in Seq(Key) /\ NoDup(ord[dst]) /\ Summed(ord[dst], wt, sz[dst])
      /\ k \in Key /\ wt \in [Key -> Nat] /\ sz[src] \in Nat /\ sz[dst] \in Nat
    BY <1>1 DEF RingsOK
<1>3. /\ u \in Seq(Key) /\ NoDup(u)
      /\ \A j : InRing(u, j) <=> InRing(ord[src], j) /\ j # k
      /\ Summed(u, wt, sz[src] - wt[k])
    <2>1. /\ Unlink(ord[src], ord[src][p]) \in Seq(Key)
          /\ NoDup(Unlink(ord[src], ord[src][p]))
          /\ \A j : InRing(Unlink(ord[src], ord[src][p]), j)
                    <=> InRing(ord[src], j) /\ j # ord[src][p]
        BY <1>2, UnlinkSeq
    <2>2. Summed(Unlink(ord[src], ord[src][p]), wt, sz[src] - wt[ord[src][p]])
        BY <1>2, SummedUnlink
    <2>3. QED
        BY <1>1, <2>1, <2>2 DEF u
<1>4. sz[src] - wt[k] \in Nat /\ sz[dst] + wt[k] \in Nat
    BY <1>2, <1>3, SummedFacts
<1>5. ~InRing(ord[dst], k)
    BY <1>2 DEF RingsOK, Uniq
<1>6. /\ v \in Seq(Key) /\ NoDup(v)
      /\ \A j : InRing(v, j) <=> j = k \/ InRing(ord[dst], j)
      /\ Summed(v, wt, sz[dst] + wt[k])
    <2>1. /\ v \in Seq(Key) /\ NoDup(v)
          /\ \A j : InRing(v, j) <=> j = k \/ InRing(ord[dst], j)
        BY <1>2, <1>5, PushSeq DEF v
    <2>2. Summed(v, wt, wt[k] + sz[dst])
        BY <1>2, SummedPush DEF v
    <2>3. wt[k] + sz[dst] = sz[dst] + wt[k]
        BY <1>2
    <2>4. QED
        BY <2>1, <2>2, <2>3
<1>7. /\ ord2 \in [Rings -> Seq(Key)] /\ sz2 \in [Rings -> Nat]
      /\ ord2[src] = u /\ sz2[src] = sz[src] - wt[k]
      /\ ord2[dst] = v /\ sz2[dst] = sz[dst] + wt[k]
      /\ \A q \in Rings \ {src, dst} : ord2[q] = ord[q] /\ sz2[q] = sz[q]
    BY <1>3, <1>4, <1>6 DEF RingsOK, ord2, sz2, u, v
<1>8. \A q \in Rings : NoDup(ord2[q]) /\ Summed(ord2[q], wt, sz2[q])
    BY <1>3, <1>6, <1>7 DEF RingsOK
<1>9. \A q \in Rings : InRing(ord2[q], k) <=> q = dst
    <2> SUFFICES ASSUME NEW q \in Rings PROVE InRing(ord2[q], k) <=> q = dst
        OBVIOUS
    <2>1. CASE q = src
        BY <1>3, <1>7, <2>1
    <2>2. CASE q = dst
        BY <1>6, <1>7, <2>2
    <2>3. CASE q \notin {src, dst}
        BY <1>2, <1>7, <2>3 DEF RingsOK, Uniq
    <2>4. QED
        BY <2>1, <2>2, <2>3
<1>13. \A q \in Rings, j \in Key \ {k} : InRing(ord2[q], j) <=> InRing(ord[q], j)
    <2> SUFFICES ASSUME NEW q \in Rings, NEW j \in Key \ {k}
                 PROVE  InRing(ord2[q], j) <=> InRing(ord[q], j)
        OBVIOUS
    <2>1. CASE q = src
        BY <1>3, <1>7, <2>1
    <2>2. CASE q = dst
        BY <1>6, <1>7, <2>2
    <2>3. CASE q \notin {src, dst}
        BY <1>7, <2>3
    <2>4. QED
        BY <2>1, <2>2, <2>3
<1>10. Mem(ord2, mp \cup {k}) /\ Uniq(ord2)
    <2>1. Mem(ord, mp) /\ Uniq(ord)
        BY DEF RingsOK
    <2>2. \E d \in Rings : \A q \in Rings : InRing(ord2[q], k) <=> q = d
        <3>1. WITNESS dst \in Rings
        <3>2. QED
            BY <1>9
    <2>3. QED
        BY <1>2, <1>13, <2>1, <2>2, RelocateTo
<1>11. mp \cup {k} = mp
    BY <1>2 DEF RingsOK, Mem
<1>12. QED
    BY <1>2, <1>7, <1>8, <1>10, <1>11 DEF RingsOK, ord2, sz2

\* add_MRU of a new key k of length w at eden's head keeps the rings right.
LEMMA AddOK ==
    ASSUME NEW ord, NEW sz, NEW wt, NEW mp, RingsOK(ord, sz, wt, mp),
           NEW k \in Key \ mp, NEW w \in Nat
    PROVE  RingsOK([ord EXCEPT !["eden"] = <<k>> \o @],
                   [sz EXCEPT !["eden"] = @ + w],
                   [wt EXCEPT ![k] = w], mp \cup {k})
<1> DEFINE ord2 == [ord EXCEPT !["eden"] = <<k>> \o @]
           sz2 == [sz EXCEPT !["eden"] = @ + w]
           wt2 == [wt EXCEPT ![k] = w]
           v == <<k>> \o ord["eden"]
<1> HIDE DEF ord2, sz2, wt2, v
<1>1. /\ ord \in [Rings -> Seq(Key)] /\ sz \in [Rings -> Nat] /\ wt \in [Key -> Nat]
      /\ \A r \in Rings : NoDup(ord[r]) /\ Summed(ord[r], wt, sz[r])
      /\ "eden" \in Rings
    BY DEF RingsOK, Rings
<1>2. \A r \in Rings : ~InRing(ord[r], k)
    BY DEF RingsOK, Mem
<1>3. wt2 \in [Key -> Nat] /\ wt2[k] = w
    BY <1>1 DEF wt2
<1>4. \A r \in Rings : Summed(ord[r], wt2, sz[r])
    BY <1>1, <1>2, SummedOther DEF wt2
<1>5. /\ v \in Seq(Key) /\ NoDup(v)
      /\ \A j : InRing(v, j) <=> j = k \/ InRing(ord["eden"], j)
      /\ Summed(v, wt2, sz["eden"] + w)
    <2>1. /\ v \in Seq(Key) /\ NoDup(v)
          /\ \A j : InRing(v, j) <=> j = k \/ InRing(ord["eden"], j)
        BY <1>1, <1>2, PushSeq DEF v
    <2>2. Summed(v, wt2, wt2[k] + sz["eden"])
        BY <1>1, <1>3, <1>4, SummedPush DEF v
    <2>3. wt2[k] + sz["eden"] = sz["eden"] + w
        BY <1>1, <1>3
    <2>4. QED
        BY <2>1, <2>2, <2>3
<1>6. /\ ord2 \in [Rings -> Seq(Key)] /\ sz2 \in [Rings -> Nat]
      /\ ord2["eden"] = v /\ sz2["eden"] = sz["eden"] + w
      /\ \A q \in Rings \ {"eden"} : ord2[q] = ord[q] /\ sz2[q] = sz[q]
    BY <1>1, <1>5 DEF ord2, sz2, v
<1>7. \A q \in Rings : NoDup(ord2[q]) /\ Summed(ord2[q], wt2, sz2[q])
    BY <1>1, <1>4, <1>5, <1>6
<1>8. Mem(ord2, mp \cup {k}) /\ Uniq(ord2)
    <2>1. \E d \in Rings : \A q \in Rings : InRing(ord2[q], k) <=> q = d
        <3>1. \A q \in Rings : InRing(ord2[q], k) <=> q = "eden"
            BY <1>2, <1>5, <1>6
        <3>2. QED
            BY <1>1, <3>1
    <2>2. \A q \in Rings, j \in Key \ {k} : InRing(ord2[q], j) <=> InRing(ord[q], j)
        BY <1>5, <1>6
    <2>3. QED
        BY <2>1, <2>2, RelocateTo DEF RingsOK
<1>9. QED
    BY <1>3, <1>6, <1>7, <1>8 DEF RingsOK, ord2, sz2, wt2

\* update_MRU of k in its ring r, with new length w: k moves to the head and
\* the ring's size moves by w - old length; this keeps the rings right.
LEMMA FrontOK ==
    ASSUME NEW ord, NEW sz, NEW wt, NEW mp, RingsOK(ord, sz, wt, mp),
           NEW r \in Rings, NEW k, InRing(ord[r], k), NEW w \in Nat
    PROVE  RingsOK([ord EXCEPT ![r] = <<k>> \o Unlink(@, k)],
                   [sz EXCEPT ![r] = @ + w - wt[k]],
                   [wt EXCEPT ![k] = w], mp)
<1> DEFINE ord2 == [ord EXCEPT ![r] = <<k>> \o Unlink(@, k)]
           sz2 == [sz EXCEPT ![r] = @ + w - wt[k]]
           wt2 == [wt EXCEPT ![k] = w]
           u == Unlink(ord[r], k)
           v == <<k>> \o u
<1> HIDE DEF ord2, sz2, wt2, u, v
<1>1. PICK p \in DOMAIN ord[r] : ord[r][p] = k
    BY DEF InRing
<1>2. /\ ord[r] \in Seq(Key) /\ NoDup(ord[r]) /\ Summed(ord[r], wt, sz[r])
      /\ ord \in [Rings -> Seq(Key)] /\ sz \in [Rings -> Nat]
      /\ k \in Key /\ wt \in [Key -> Nat] /\ sz[r] \in Nat
      /\ \A q \in Rings : Summed(ord[q], wt, sz[q]) /\ NoDup(ord[q])
    BY <1>1 DEF RingsOK
<1>3. /\ u \in Seq(Key) /\ NoDup(u)
      /\ \A j : InRing(u, j) <=> InRing(ord[r], j) /\ j # k
      /\ Summed(u, wt, sz[r] - wt[k])
    <2>1. /\ Unlink(ord[r], ord[r][p]) \in Seq(Key) /\ NoDup(Unlink(ord[r], ord[r][p]))
          /\ \A j : InRing(Unlink(ord[r], ord[r][p]), j) <=> InRing(ord[r], j) /\ j # ord[r][p]
        BY <1>2, UnlinkSeq
    <2>2. Summed(Unlink(ord[r], ord[r][p]), wt, sz[r] - wt[ord[r][p]])
        BY <1>2, SummedUnlink
    <2>3. QED
        BY <1>1, <2>1, <2>2 DEF u
<1>4. sz[r] - wt[k] \in Nat /\ wt[k] \in Nat
    BY <1>2, <1>3, SummedFacts
<1>5. wt2 \in [Key -> Nat] /\ wt2[k] = w
    BY <1>2 DEF wt2
<1>6. /\ v \in Seq(Key) /\ NoDup(v)
      /\ \A j : InRing(v, j) <=> j = k \/ InRing(u, j)
      /\ Summed(v, wt2, sz[r] + w - wt[k])
    <2>1. /\ v \in Seq(Key) /\ NoDup(v)
          /\ \A j : InRing(v, j) <=> j = k \/ InRing(u, j)
        BY <1>2, <1>3, PushSeq DEF v
    <2>2. Summed(u, wt2, sz[r] - wt[k])
        BY <1>2, <1>3, SummedOther DEF wt2
    <2>3. Summed(v, wt2, wt2[k] + (sz[r] - wt[k]))
        BY <1>2, <1>3, <1>5, <2>2, SummedPush DEF v
    <2>4. wt2[k] + (sz[r] - wt[k]) = sz[r] + w - wt[k]
        BY <1>2, <1>4, <1>5
    <2>5. QED
        BY <2>1, <2>3, <2>4
<1>7. \A q \in Rings \ {r} : ~InRing(ord[q], k)
    BY <1>2 DEF RingsOK, Uniq
<1>8. /\ ord2 \in [Rings -> Seq(Key)] /\ sz2 \in [Rings -> Nat]
      /\ ord2[r] = v /\ sz2[r] = sz[r] + w - wt[k]
      /\ \A q \in Rings \ {r} : ord2[q] = ord[q] /\ sz2[q] = sz[q]
    BY <1>2, <1>4, <1>6 DEF ord2, sz2, u, v
<1>9. \A q \in Rings : NoDup(ord2[q]) /\ Summed(ord2[q], wt2, sz2[q])
    <2> SUFFICES ASSUME NEW q \in Rings
                 PROVE  NoDup(ord2[q]) /\ Summed(ord2[q], wt2, sz2[q])
        OBVIOUS
    <2>1. CASE q = r
        BY <1>6, <1>8, <2>1
    <2>2. CASE q # r
        <3>1. Summed(ord[q], wt2, sz[q])
            BY <1>2, <1>7, <2>2, SummedOther DEF wt2
        <3>2. QED
            BY <1>2, <1>8, <2>2, <3>1
    <2>3. QED
        BY <2>1, <2>2
<1>10. Mem(ord2, mp \cup {k}) /\ Uniq(ord2)
    <2>1. \E d \in Rings : \A q \in Rings : InRing(ord2[q], k) <=> q = d
        <3>1. WITNESS r \in Rings
        <3>2. QED
            BY <1>6, <1>7, <1>8
    <2>2. \A q \in Rings, j \in Key \ {k} : InRing(ord2[q], j) <=> InRing(ord[q], j)
        BY <1>3, <1>6, <1>8
    <2>3. QED
        BY <1>2, <2>1, <2>2, RelocateTo DEF RingsOK
<1>11. mp \cup {k} = mp
    BY <1>2 DEF RingsOK, Mem
<1>12. QED
    BY <1>5, <1>8, <1>9, <1>10, <1>11 DEF RingsOK, ord2, sz2, wt2

(***************************************************************************)
(* The inductive invariant of the cache.                                   *)
(***************************************************************************)
\* The bounds the finished catch-up loops leave behind: once the eden loop
\* has ended eden is within its limit, and once the protected loop has
\* ended so is protected; the later loops never add to either.
CatchUpBounds ==
    /\ pc \in {"protected", "probation"} => size["eden"] <= EdenLimit
    /\ pc = "probation" => size["protected"] <= ProtectedLimit

\* The inductive invariant: types, the rings with their sums and the
\* mapping, and the bounds the finished catch-up loops leave behind.
IInv == TypeOK /\ RingsOK(order, size, weight, mapped) /\ CatchUpBounds

\* A ring whose size is positive has an LRU entry: get_LRU of the eden,
\* protected and probation loops never reads an empty ring.
LEMMA LRUIn ==
    ASSUME RingsOK(order, size, weight, mapped), NEW r \in Rings, size[r] > 0
    PROVE  InRing(order[r], LRU(r)) /\ LRU(r) \in Key /\ order[r] # <<>>
<1>1. order[r] \in Seq(Key) /\ Summed(order[r], weight, size[r])
    BY DEF RingsOK
<1>2. order[r] # <<>>
    BY <1>1, SummedFacts
<1>3. Len(order[r]) \in DOMAIN order[r]
    BY <1>1, <1>2
<1>4. QED
    BY <1>1, <1>2, <1>3 DEF LRU, InRing

\* A non-empty ring's LRU entry is in the ring.
LEMMA LRUNonEmpty ==
    ASSUME RingsOK(order, size, weight, mapped), NEW r \in Rings, order[r] # <<>>
    PROVE  InRing(order[r], LRU(r)) /\ LRU(r) \in Key
<1>1. order[r] \in Seq(Key)
    BY DEF RingsOK
<1>2. Len(order[r]) \in DOMAIN order[r]
    BY <1>1
<1>3. QED
    BY <1>1, <1>2 DEF LRU, InRing

\* A mapped key's parent ring (entry.__parent__) holds its node.
LEMMA RingOfIn ==
    ASSUME RingsOK(order, size, weight, mapped), NEW k \in mapped
    PROVE  RingOf(k) \in Rings /\ InRing(order[RingOf(k)], k)
BY DEF RingsOK, Mem, RingOf

\* Entry lengths are natural numbers.
LEMMA WeightNat ==
    ASSUME NEW wt \in [Key -> {0} \cup Weight]
    PROVE  wt \in [Key -> Nat]
<1>1. {0} \cup Weight \subseteq Nat
    OBVIOUS
<1>2. QED
    BY <1>1

\* A state satisfying the invariant satisfies Membership.
LEMMA IInvMembership ==
    ASSUME IInv
    PROVE  Membership
BY DEF IInv, RingsOK, Mem, Uniq, NoDup, Membership

LEMMA InitIInv ==
    ASSUME Init
    PROVE  IInv
<1>1. TypeOK
    BY DEF Init, TypeOK
<1>2. \A r \in Rings : NoDup(order[r]) /\ Summed(order[r], weight, size[r])
    <2>1. \A r \in Rings : order[r] = <<>> /\ size[r] = 0
        BY DEF Init
    <2>2. NoDup(<<>>) /\ Summed(<<>>, weight, 0)
        <3>1. NoDup(<<>>)
            BY DEF NoDup
        <3>2. QED
            BY <3>1, SummedEmpty
    <2>3. QED
        BY <2>1, <2>2, Zenon
<1>3. Mem(order, mapped) /\ Uniq(order)
    BY DEF Init, Mem, Uniq, InRing
<1>4. RingsOK(order, size, weight, mapped)
    BY <1>1, <1>2, <1>3, WeightNat DEF RingsOK, TypeOK
<1>5. CatchUpBounds
    BY DEF Init, CatchUpBounds
<1>6. QED
    BY <1>1, <1>4, <1>5 DEF IInv

\* add_MRU of a new entry, with the frequency 1 of a new SizedLRURingEntry.
LEMMA AddIInv ==
    ASSUME IInv, NEW k \in Key, NEW w \in Weight, Add(k, w)
    PROVE  IInv'
<1>1. RingsOK(order, size, weight, mapped) /\ TypeOK
    BY DEF IInv
<1>2. RingsOK([order EXCEPT !["eden"] = <<k>> \o @], [size EXCEPT !["eden"] = @ + w],
              [weight EXCEPT ![k] = w], mapped \cup {k})
    BY <1>1, AddOK DEF Add
<1>3. RingsOK(order', size', weight', mapped')
    BY <1>2 DEF Add
<1>4. TypeOK'
    BY <1>1, <1>3 DEF TypeOK, RingsOK, Add
<1>5. QED
    BY <1>3, <1>4 DEF IInv, CatchUpBounds, Add

\* update_MRU: the entry's new length replaces its old one in its ring's size.
LEMMA UpdateMRUIInv ==
    ASSUME IInv, NEW k \in Key, NEW w \in Weight, UpdateMRU(k, w)
    PROVE  IInv'
<1> DEFINE r == RingOf(k)
<1>1. RingsOK(order, size, weight, mapped) /\ TypeOK /\ k \in mapped
    BY DEF IInv, UpdateMRU
<1>2. r \in Rings /\ InRing(order[r], k)
    BY <1>1, RingOfIn
<1>3. RingsOK([order EXCEPT ![r] = <<k>> \o Unlink(@, k)], [size EXCEPT ![r] = @ + w - weight[k]],
              [weight EXCEPT ![k] = w], mapped)
    BY <1>1, <1>2, FrontOK
<1>4. RingsOK(order', size', weight', mapped')
    BY <1>3 DEF UpdateMRU, ToFront
<1>5. TypeOK'
    BY <1>1, <1>4 DEF TypeOK, RingsOK, UpdateMRU
<1>6. QED
    BY <1>1, <1>4, <1>5 DEF IInv, CatchUpBounds, UpdateMRU

\* on_hit: promotion out of probation, or make_MRU in place.
LEMMA HitIInv ==
    ASSUME IInv, NEW k \in Key, Hit(k)
    PROVE  IInv'
<1> DEFINE r == RingOf(k)
<1>1. RingsOK(order, size, weight, mapped) /\ TypeOK /\ k \in mapped
    BY DEF IInv, Hit
<1>2. r \in Rings /\ InRing(order[r], k)
    BY <1>1, RingOfIn
<1>3. RingsOK(order', size', weight', mapped')
    <2>1. CASE r = "probation"
        <3>1. RingsOK([order EXCEPT !["probation"] = Unlink(@, k), !["protected"] = <<k>> \o @],
                      [size EXCEPT !["probation"] = @ - weight[k], !["protected"] = @ + weight[k]],
                      weight, mapped)
            <4>1. "probation" \in Rings /\ "protected" \in Rings /\ "probation" # "protected"
                BY DEF Rings
            <4>2. QED
                BY <1>1, <1>2, <2>1, <4>1, MoveOK
        <3>2. QED
            BY <2>1, <3>1 DEF Hit, TakeOwnership
    <2>2. CASE r # "probation"
        <3>1. RingsOK([order EXCEPT ![r] = <<k>> \o Unlink(@, k)],
                      [size EXCEPT ![r] = @ + weight[k] - weight[k]],
                      [weight EXCEPT ![k] = weight[k]], mapped)
            <4>1. weight[k] \in Nat
                BY <1>1, WeightNat DEF TypeOK
            <4>2. QED
                BY <1>1, <1>2, <4>1, FrontOK
        <3>2. /\ [size EXCEPT ![r] = @ + weight[k] - weight[k]] = size
              /\ [weight EXCEPT ![k] = weight[k]] = weight
            <4>1. size \in [Rings -> Nat] /\ weight \in [Key -> Nat]
                BY <1>1, WeightNat DEF TypeOK
            <4>2. size[r] + weight[k] - weight[k] = size[r]
                BY <1>2, <4>1
            <4>3. QED
                BY <1>2, <4>1, <4>2
        <3>3. order' = [order EXCEPT ![r] = <<k>> \o Unlink(@, k)]
              /\ size' = size /\ weight' = weight /\ mapped' = mapped
            BY <2>2 DEF Hit, ToFront
        <3>4. QED
            BY <3>1, <3>2, <3>3
    <2>3. QED
        BY <2>1, <2>2
<1>4. freq' \in [Key -> Nat]
    BY <1>1 DEF Hit, TypeOK
<1>5. overSize' \in [Rings -> BOOLEAN]
    <2>1. CASE r = "probation"
        <3>1. overSize' = [overSize EXCEPT !["protected"] = size'["protected"] > Limit["protected"],
                                           !["probation"] = size'["probation"] > Limit["probation"]]
            BY <2>1 DEF Hit, TakeOwnership
        <3>2. /\ (size'["protected"] > Limit["protected"]) \in BOOLEAN
              /\ (size'["probation"] > Limit["probation"]) \in BOOLEAN
            OBVIOUS
        <3>3. QED
            BY <1>1, <3>1, <3>2 DEF TypeOK
    <2>2. CASE r # "probation"
        BY <1>1, <2>2 DEF Hit, TypeOK
    <2>3. QED
        BY <2>1, <2>2
<1>6. TypeOK'
    BY <1>1, <1>3, <1>4, <1>5 DEF TypeOK, RingsOK, Hit
<1>7. QED
    BY <1>3, <1>6 DEF IInv, CatchUpBounds, Hit

\* delete(entry) from its parent ring.
LEMMA DeleteIInv ==
    ASSUME IInv, NEW k \in Key, Delete(k)
    PROVE  IInv'
<1> DEFINE r == RingOf(k)
<1>1. RingsOK(order, size, weight, mapped) /\ TypeOK /\ k \in mapped
    BY DEF IInv, Delete
<1>2. r \in Rings /\ InRing(order[r], k)
    BY <1>1, RingOfIn
<1>3. RingsOK([order EXCEPT ![r] = Unlink(@, k)], [size EXCEPT ![r] = @ - weight[k]],
              weight, mapped \ {k})
    BY <1>1, <1>2, DeleteOK
<1>4. RingsOK(order', size', weight', mapped')
    BY <1>3 DEF Delete, DeleteEntry
<1>5. TypeOK'
    BY <1>1, <1>4 DEF TypeOK, RingsOK, Delete, DeleteEntry
<1>6. QED
    BY <1>1, <1>4, <1>5 DEF IInv, CatchUpBounds, Delete

\* A foreign move and a delete leave over_size a flag per ring.
LEMMA TakeOwnershipType ==
    ASSUME TypeOK, NEW src \in Rings, NEW dst \in Rings, NEW k, TakeOwnership(src, dst, k)
    PROVE  overSize' \in [Rings -> BOOLEAN]
<1>1. overSize' = [overSize EXCEPT ![dst] = size'[dst] > Limit[dst],
                                   ![src] = size'[src] > Limit[src]]
    BY DEF TakeOwnership
<1>2. (size'[dst] > Limit[dst]) \in BOOLEAN /\ (size'[src] > Limit[src]) \in BOOLEAN
    OBVIOUS
<1>3. QED
    BY <1>1, <1>2 DEF TypeOK

LEMMA DeleteEntryType ==
    ASSUME TypeOK, NEW r \in Rings, NEW k, DeleteEntry(r, k)
    PROVE  overSize' \in [Rings -> BOOLEAN]
<1>1. overSize' = [overSize EXCEPT ![r] = size'[r] > Limit[r]]
    BY DEF DeleteEntry
<1>2. (size'[r] > Limit[r]) \in BOOLEAN
    OBVIOUS
<1>3. QED
    BY <1>1, <1>2 DEF TypeOK

\* The eden loop moves eden's LRU entry to probation's head.
LEMMA SpillEdenAdmitIInv ==
    ASSUME IInv, SpillEdenAdmit
    PROVE  IInv'
<1> DEFINE v == LRU("eden")
<1>1. RingsOK(order, size, weight, mapped) /\ TypeOK
    BY DEF IInv
<1>2. "eden" \in Rings /\ "probation" \in Rings /\ "eden" # "probation"
    BY DEF Rings
<1>3. size["eden"] > 0
    BY <1>1, <1>2 DEF SpillEdenAdmit, EdenSpilling, TypeOK
<1>4. InRing(order["eden"], v)
    BY <1>1, <1>2, <1>3, LRUIn
<1>5. RingsOK([order EXCEPT !["eden"] = Unlink(@, v), !["probation"] = <<v>> \o @],
              [size EXCEPT !["eden"] = @ - weight[v], !["probation"] = @ + weight[v]],
              weight, mapped)
    BY <1>1, <1>2, <1>4, WeightNat, MoveOK
<1>6. RingsOK(order', size', weight', mapped')
    BY <1>5 DEF SpillEdenAdmit, TakeOwnership
<1>7. overSize' \in [Rings -> BOOLEAN]
    BY <1>1, <1>2, TakeOwnershipType DEF SpillEdenAdmit
<1>8. QED
    BY <1>1, <1>6, <1>7 DEF IInv, TypeOK, RingsOK, CatchUpBounds, SpillEdenAdmit, EdenSpilling

\* The eden loop evicts the candidate when it loses the admission contest.
LEMMA SpillEdenContestLoseIInv ==
    ASSUME IInv, SpillEdenContestLose
    PROVE  IInv'
<1> DEFINE v == LRU("eden")
<1>1. RingsOK(order, size, weight, mapped) /\ TypeOK
    BY DEF IInv
<1>2. "eden" \in Rings
    BY DEF Rings
<1>3. size["eden"] > 0
    BY <1>1, <1>2 DEF SpillEdenContestLose, EdenSpilling, TypeOK
<1>4. InRing(order["eden"], v)
    BY <1>1, <1>2, <1>3, LRUIn
<1>5. RingsOK([order EXCEPT !["eden"] = Unlink(@, v)], [size EXCEPT !["eden"] = @ - weight[v]],
              weight, mapped \ {v})
    BY <1>1, <1>2, <1>4, DeleteOK
<1>6. RingsOK(order', size', weight', mapped')
    BY <1>5 DEF SpillEdenContestLose, DeleteEntry
<1>7. overSize' \in [Rings -> BOOLEAN]
    BY <1>1, <1>2, DeleteEntryType DEF SpillEdenContestLose
<1>8. QED
    BY <1>1, <1>6, <1>7 DEF IInv, TypeOK, RingsOK, CatchUpBounds, SpillEdenContestLose,
                           EdenSpilling

\* The eden loop's admission contest, won: probation's LRU is evicted and
\* the candidate takes probation's head.  The step is a delete followed by
\* a foreign move.
LEMMA SpillEdenContestWinIInv ==
    ASSUME IInv, SpillEdenContestWin
    PROVE  IInv'
<1> DEFINE v == LRU("eden")
           victim == LRU("probation")
           ord1 == [order EXCEPT !["probation"] = Unlink(@, victim)]
           sz1 == [size EXCEPT !["probation"] = @ - weight[victim]]
<1> HIDE DEF ord1, sz1
<1>1. RingsOK(order, size, weight, mapped) /\ TypeOK
    BY DEF IInv
<1>2. "eden" \in Rings /\ "probation" \in Rings /\ "eden" # "probation"
    BY DEF Rings
<1>3. InRing(order["eden"], v) /\ v \in Key
    <2>1. size["eden"] > 0
        BY <1>1, <1>2 DEF SpillEdenContestWin, EdenSpilling, TypeOK
    <2>2. QED
        BY <1>1, <1>2, <2>1, LRUIn
<1>4. InRing(order["probation"], victim)
    BY <1>1, <1>2, LRUNonEmpty DEF SpillEdenContestWin
<1>5. RingsOK(ord1, sz1, weight, mapped \ {victim})
    BY <1>1, <1>2, <1>4, DeleteOK DEF ord1, sz1
<1>6. InRing(ord1["eden"], v)
    BY <1>1, <1>2, <1>3 DEF ord1, TypeOK
<1>7. RingsOK([ord1 EXCEPT !["eden"] = Unlink(@, v), !["probation"] = <<v>> \o @],
              [sz1 EXCEPT !["eden"] = @ - weight[v], !["probation"] = @ + weight[v]],
              weight, mapped \ {victim})
    BY <1>2, <1>5, <1>6, MoveOK
<1>8. /\ [ord1 EXCEPT !["eden"] = Unlink(@, v), !["probation"] = <<v>> \o @] = order'
      /\ [sz1 EXCEPT !["eden"] = @ - weight[v], !["probation"] = @ + weight[v]] = size'
    BY <1>1, <1>2 DEF SpillEdenContestWin, ord1, sz1, TypeOK
<1>9. RingsOK(order', size', weight', mapped')
    BY <1>7, <1>8 DEF SpillEdenContestWin
<1>10. overSize' \in [Rings -> BOOLEAN]
    BY DEF SpillEdenContestWin
<1>11. QED
    BY <1>1, <1>9, <1>10 DEF IInv, TypeOK, RingsOK, CatchUpBounds, SpillEdenContestWin,
                             EdenSpilling

\* The protected loop demotes protected's LRU entry to probation's head.
LEMMA DemoteProtectedIInv ==
    ASSUME IInv, DemoteProtected
    PROVE  IInv'
<1> DEFINE v == LRU("protected")
<1>1. RingsOK(order, size, weight, mapped) /\ TypeOK /\ CatchUpBounds
    BY DEF IInv
<1>2. "protected" \in Rings /\ "probation" \in Rings /\ "protected" # "probation"
      /\ "eden" \in Rings
    BY DEF Rings
<1>3. InRing(order["protected"], v)
    <2>1. size["protected"] > 0
        BY <1>1, <1>2 DEF DemoteProtected, TypeOK
    <2>2. QED
        BY <1>1, <1>2, <2>1, LRUIn
<1>4. RingsOK([order EXCEPT !["protected"] = Unlink(@, v), !["probation"] = <<v>> \o @],
              [size EXCEPT !["protected"] = @ - weight[v], !["probation"] = @ + weight[v]],
              weight, mapped)
    BY <1>1, <1>2, <1>3, MoveOK
<1>5. RingsOK(order', size', weight', mapped')
    BY <1>4 DEF DemoteProtected, TakeOwnership
<1>6. overSize' \in [Rings -> BOOLEAN]
    BY <1>1, <1>2, TakeOwnershipType DEF DemoteProtected
<1>7. size'["eden"] = size["eden"]
    BY <1>1, <1>2 DEF DemoteProtected, TakeOwnership, TypeOK
<1>8. QED
    BY <1>1, <1>5, <1>6, <1>7 DEF IInv, TypeOK, RingsOK, CatchUpBounds, DemoteProtected

\* The probation loop evicts probation's LRU entry.
LEMMA TrimProbationIInv ==
    ASSUME IInv, TrimProbation
    PROVE  IInv'
<1> DEFINE v == LRU("probation")
<1>1. RingsOK(order, size, weight, mapped) /\ TypeOK /\ CatchUpBounds
    BY DEF IInv
<1>2. "protected" \in Rings /\ "probation" \in Rings /\ "eden" \in Rings
      /\ "eden" # "probation" /\ "protected" # "probation"
    BY DEF Rings
<1>3. InRing(order["probation"], v)
    <2>1. Slack \in Nat
        BY <1>1, <1>2 DEF Slack, TypeOK
    <2>2. size["probation"] > 0
        BY <1>1, <1>2, <2>1 DEF TrimProbation, ProbationMax, TypeOK
    <2>3. QED
        BY <1>1, <1>2, <2>2, LRUIn
<1>4. RingsOK([order EXCEPT !["probation"] = Unlink(@, v)],
              [size EXCEPT !["probation"] = @ - weight[v]], weight, mapped \ {v})
    BY <1>1, <1>2, <1>3, DeleteOK
<1>5. RingsOK(order', size', weight', mapped')
    BY <1>4 DEF TrimProbation, DeleteEntry
<1>6. overSize' \in [Rings -> BOOLEAN]
    BY <1>1, <1>2, DeleteEntryType DEF TrimProbation
<1>7. size'["eden"] = size["eden"] /\ size'["protected"] = size["protected"]
    BY <1>1, <1>2 DEF TrimProbation, DeleteEntry, TypeOK
<1>8. QED
    BY <1>1, <1>5, <1>6, <1>7 DEF IInv, TypeOK, RingsOK, CatchUpBounds, TrimProbation

\* The loops' exits change only pc, after checking the ring they leave.
LEMMA LoopDoneIInv ==
    ASSUME IInv, EdenDone \/ ProtectedDone \/ ProbationDone
    PROVE  IInv'
BY DEF IInv, TypeOK, RingsOK, Mem, Uniq, CatchUpBounds, EdenDone, ProtectedDone, ProbationDone

LEMMA NextIInv ==
    ASSUME IInv, [Next]_vars
    PROVE  IInv'
<1>1. CASE \E k \in Key, w \in Weight : Add(k, w) \/ UpdateMRU(k, w)
    BY <1>1, AddIInv, UpdateMRUIInv
<1>2. CASE \E k \in Key : Hit(k) \/ Delete(k)
    BY <1>2, HitIInv, DeleteIInv
<1>3. CASE SpillEdenAdmit \/ SpillEdenContestWin \/ SpillEdenContestLose
    BY <1>3, SpillEdenAdmitIInv, SpillEdenContestWinIInv, SpillEdenContestLoseIInv
<1>4. CASE DemoteProtected \/ TrimProbation
    BY <1>4, DemoteProtectedIInv, TrimProbationIInv
<1>5. CASE EdenDone \/ ProtectedDone \/ ProbationDone
    BY <1>5, LoopDoneIInv
<1>6. CASE UNCHANGED vars
    BY <1>6 DEF IInv, TypeOK, RingsOK, Mem, Uniq, CatchUpBounds, vars
<1>7. QED
    BY <1>1, <1>2, <1>3, <1>4, <1>5, <1>6 DEF Next, CatchUp

LEMMA IInvHolds == Spec => []IInv
BY InitIInv, NextIInv, PTL DEF Spec

\* Every state of the cache is well typed.  The part that needs the
\* invariant is the ring sizes: update_MRU adds new_size - old_size and
\* every unlink subtracts an entry's len, and a size stays a natural
\* number only because it always equals the sum of its entries' lengths.
THEOREM LRUTypeCorrect == Spec => []TypeOK
<1>1. IInv => TypeOK
    BY DEF IInv
<1>2. QED
    BY <1>1, IInvHolds, PTL

\* Every key of the SizedMapping has exactly one node, in exactly one ring,
\* and every ring node's key is in the mapping, through every add, delete,
\* promotion, demotion, admission and eviction.
THEOREM MembershipHolds == Spec => []Membership
<1>1. IInv => Membership
    BY IInvMembership
<1>2. QED
    BY <1>1, IInvHolds, PTL

\* Each ring's incrementally kept size is the sum of its entries' lengths,
\* in the prefix-sum form: a witness ps with ps[0] = 0 and
\* ps[i] = ps[i - 1] + weight[order[r][i]] ends at size[r].
THEOREM RingSizesSummed ==
    Spec => [](\A r \in Rings : Summed(order[r], weight, size[r]))
<1>1. IInv => \A r \in Rings : Summed(order[r], weight, size[r])
    BY DEF IInv, RingsOK
<1>2. QED
    BY <1>1, IInvHolds, PTL

\* Only the probation loop's exit ends a catch-up: every call starts from
\* pc = "ready" and every other loop step keeps pc.
LEMMA CatchUpExit ==
    ASSUME [Next]_vars, pc = "probation", pc' = "ready"
    PROVE  ProbationDone
<1>1. CASE \E k \in Key, w \in Weight : Add(k, w) \/ UpdateMRU(k, w)
    BY <1>1 DEF Add, UpdateMRU
<1>2. CASE \E k \in Key : Hit(k) \/ Delete(k)
    BY <1>2 DEF Hit, Delete
<1>3. CASE SpillEdenAdmit \/ SpillEdenContestWin \/ SpillEdenContestLose \/ EdenDone
    BY <1>3 DEF SpillEdenAdmit, SpillEdenContestWin, SpillEdenContestLose, EdenDone,
                EdenSpilling
<1>4. CASE DemoteProtected \/ ProtectedDone \/ TrimProbation
    BY <1>4 DEF DemoteProtected, ProtectedDone, TrimProbation
<1>5. CASE UNCHANGED vars
    BY <1>5 DEF vars
<1>6. QED
    BY <1>1, <1>2, <1>3, <1>4, <1>5 DEF Next, CatchUp

\* When the catch-up loops of an add or a read end, the three rings
\* together are within the byte budget: eden and protected were trimmed to
\* their limits by the earlier loops, and probation to its limit plus the
\* room protected leaves unused.
THEOREM BudgetHolds == Spec => BudgetAfterCatchUp
<1>1. ASSUME IInv, [Next]_vars
      PROVE  pc = "probation" /\ pc' = "ready"
             => size'["eden"] + size'["probation"] + size'["protected"] <= Budget
    <2> SUFFICES ASSUME pc = "probation", pc' = "ready"
                 PROVE  size'["eden"] + size'["probation"] + size'["protected"] <= Budget
        OBVIOUS
    <2>1. ProbationDone
        BY <1>1, CatchUpExit
    <2>2. /\ size' = size
          /\ size["probation"] <= ProbationMax
        BY <2>1 DEF ProbationDone
    <2>3. /\ size["eden"] <= EdenLimit /\ size["protected"] <= ProtectedLimit
          /\ size["eden"] \in Nat /\ size["probation"] \in Nat /\ size["protected"] \in Nat
        <3>1. "eden" \in Rings /\ "probation" \in Rings /\ "protected" \in Rings
            BY DEF Rings
        <3>2. QED
            BY <1>1, <3>1 DEF IInv, CatchUpBounds, TypeOK
    <2>4. size["eden"] + size["probation"] + size["protected"] <= Budget
        BY <2>2, <2>3 DEF ProbationMax, Slack, Budget
    <2>5. QED
        BY <2>2, <2>4
<1>2. QED
    BY <1>1, IInvHolds, PTL DEF Spec, BudgetAfterCatchUp
====
