--------------------------- MODULE MVCCCacheProofs ---------------------------
(***************************************************************************)
(* Proofs about MVCCCache for every value of its constants: the TRI chain  *)
(* the coordinator keeps, the connections' bm_changes, and the reads they  *)
(* serve.                                                                  *)
(***************************************************************************)
EXTENDS MVCCCache, TLAPS

USE MVCCAssumption

\* Latest over an explicit set of revisions H, so that lemmas about it can
\* be applied to hist and to hist'.
LatestOf(H, o, h) ==
    LET ts == {k[2] : k \in {x \in H : x[1] = o /\ x[2] <= h}}
    IN  CHOOSE t \in ts : \A u \in ts : u <= t

(***************************************************************************)
(* What a well-formed TRI chain ch over the committed revisions H is.      *)
(* Contiguity alone implies the ordering, the coverage and the existence  *)
(* of a newest knowing TRI, but only by induction along the chain, which  *)
(* the provers cannot do; so the chain carries them as facts of its own.   *)
(***************************************************************************)
ChainWF(ch, H) ==
    /\ ch # << >>
    /\ \A i \in DOMAIN ch : 1 <= ch[i].cs /\ TRIValid(ch[i])
    /\ \A i \in 1..Len(ch) - 1 : ch[i].hvt = ch[i + 1].cs
    \* Ordered: a later TRI starts at or after an earlier one ends.
    /\ \A i, j \in DOMAIN ch : i < j => ch[i].hvt <= ch[j].cs
    \* Covered: every tid from 2 to the chain's end lies in some TRI.
    /\ \A u \in 2..EndOf(ch) :
          \E k \in DOMAIN ch : ch[k].cs < u /\ u <= ch[k].hvt
    \* Exact: a TRI names a committed revision of o, and the newest one
    \* committed within its range.
    /\ \A i \in DOMAIN ch, o \in Oid :
          /\ ch[i].data[o] # 0 => <<o, ch[i].data[o]>> \in H
          /\ \A x \in H : x[1] = o /\ ch[i].cs < x[2] /\ x[2] <= ch[i].hvt
                              => x[2] <= ch[i].data[o]
    \* Newest: among the TRIs up to any TRI's end that know o, one is last.
    /\ \A o \in Oid, j \in DOMAIN ch :
          Knowing(ch, o, ch[j].hvt) # {} =>
             \E i \in Knowing(ch, o, ch[j].hvt) :
                \A k \in Knowing(ch, o, ch[j].hvt) : k <= i

(***************************************************************************)
(* The inductive invariant.                                                *)
(***************************************************************************)
\* adapter.mover.data names the newest committed revision of every oid.
DataLatest ==
    \A o \in Oid : /\ <<o, data[o]>> \in hist
                   /\ \A x \in hist : x[1] = o => x[2] <= data[o]

\* Nothing is committed, polled or indexed past current_tid_int.
BelowCurrent ==
    /\ \A x \in hist : x[2] <= currentTid
    /\ \A c \in Conn : hvt[c] <= currentTid
    /\ \A i \in DOMAIN chain : chain[i].hvt <= currentTid

\* A change recorded for c names the current revision, written after c's
\* snapshot; every revision written after c's snapshot is recorded.
ChangesSound ==
    /\ \A c \in Conn, o \in Oid :
          changes[c][o] # 0 => changes[c][o] = data[o] /\ hvt[c] < changes[c][o]
    /\ \A c \in Conn, x \in hist : hvt[c] < x[2] => changes[c][x[1]] # 0

\* Every connection's snapshot is the end of some TRI, and the last load
\* returned the current state (a poll that raises changes neither).
SnapshotsOnChain ==
    /\ \A c \in Conn : \E i \in DOMAIN chain : chain[i].hvt = hvt[c]
    /\ ReadsCurrent

\* With clipped polls, no poll raises.
ClipNeverFails == PollMode = "clip" => ~failed

IInv ==
    /\ TypeOK
    /\ DataLatest
    /\ BelowCurrent
    /\ ChangesSound
    /\ ChainWF(chain, hist)
    /\ SnapshotsOnChain
    /\ ClipNeverFails

(***************************************************************************)
(* Lemmas about the operators.                                             *)
(***************************************************************************)
\* The fields of a TRI record.  (Expanding TRIType under Seq defeats the
\* SMT backend, so proofs cite this lemma instead.)
LEMMA TRIFields ==
    ASSUME NEW t \in TRIType
    PROVE  /\ t.cs \in 0..MaxTid /\ t.hvt \in 0..MaxTid
           /\ t.data \in [Oid -> 0..MaxTid]
    BY DEF TRIType

\* A committed revision of o at or below h that every other such revision
\* precedes is what a snapshot at h sees.
LEMMA LatestIs ==
    ASSUME NEW H \in SUBSET (Oid \X Nat), NEW o, NEW h \in Nat,
           NEW t \in Nat, <<o, t>> \in H, t <= h,
           \A x \in H : x[1] = o /\ x[2] <= h => x[2] <= t
    PROVE  LatestOf(H, o, h) = t
<1> DEFINE ts == {k[2] : k \in {x \in H : x[1] = o /\ x[2] <= h}}
<1>1. t \in ts /\ \A u \in ts : u <= t
    OBVIOUS
<1>2. ts \subseteq Nat
    OBVIOUS
<1>3. \A u \in ts : (\A v \in ts : v <= u) => u = t
    BY <1>1, <1>2
<1>4. QED
    BY <1>1, <1>3 DEF LatestOf

\* The tid a snapshot at the end of a TRI of a well-formed chain gets from
\* visible_tid is 0 or the newest revision that snapshot sees: the newest
\* TRI up to h that knows o names the newest revision of o at or below h,
\* because the TRIs after it cover the rest of the range up to h.
LEMMA ChainVisible ==
    ASSUME NEW H \in SUBSET (Oid \X Nat), NEW ch \in Seq(TRIType),
           ChainWF(ch, H), NEW o \in Oid, NEW j \in DOMAIN ch
    PROVE  VisibleTid(ch, o, ch[j].hvt) \in {0, LatestOf(H, o, ch[j].hvt)}
<1> DEFINE h == ch[j].hvt
           K == Knowing(ch, o, h)
<1>0. /\ DOMAIN ch = 1..Len(ch)
      /\ \A i \in DOMAIN ch : /\ ch[i].cs \in Nat /\ ch[i].hvt \in Nat
                              /\ ch[i].data[o] \in Nat
      /\ h \in Nat
    BY TRIFields DEF h
<1>1. \A i \in DOMAIN ch : 1 <= ch[i].cs /\ ch[i].cs < ch[i].hvt
    BY DEF ChainWF, TRIValid
<1>2. \A i, i2 \in DOMAIN ch : i < i2 => ch[i].hvt <= ch[i2].cs
    BY DEF ChainWF
<1>3. \A u \in 2..EndOf(ch) :
          \E k \in DOMAIN ch : ch[k].cs < u /\ u <= ch[k].hvt
    BY DEF ChainWF
<1>4. \A i \in DOMAIN ch :
          /\ ch[i].data[o] # 0 => <<o, ch[i].data[o]>> \in H
          /\ \A x \in H : x[1] = o /\ ch[i].cs < x[2] /\ x[2] <= ch[i].hvt
                              => x[2] <= ch[i].data[o]
    BY DEF ChainWF
<1>5. K # {} => \E i \in K : \A k \in K : k <= i
    BY DEF ChainWF, h, K
<1>6. \A i \in DOMAIN ch :
          ch[i].data[o] # 0 => ch[i].cs < ch[i].data[o] /\ ch[i].data[o] <= ch[i].hvt
    BY DEF ChainWF, TRIValid
<1>7. CASE K = {}
    BY <1>7 DEF VisibleTid, h, K
<1>8. CASE K # {}
    <2>1. PICK i \in K : \A k \in K : k <= i
        BY <1>5, <1>8
    <2>2. VisibleTid(ch, o, h) = ch[i].data[o]
        <3>1. K \subseteq Nat
            BY <1>0 DEF Knowing, K
        <3>2. \A i2 \in K : (\A k \in K : k <= i2) => i2 = i
            BY <2>1, <3>1
        <3>3. QED
            BY <1>8, <2>1, <3>2 DEF VisibleTid, h, K
    <2> DEFINE d == ch[i].data[o]
    <2>3. /\ i \in DOMAIN ch /\ d # 0 /\ ch[i].hvt <= h
        BY <2>1 DEF Knowing, h, K, d
    <2>4. /\ <<o, d>> \in H
          /\ d \in Nat
          /\ ch[i].cs < d /\ d <= ch[i].hvt
        BY <1>0, <1>4, <1>6, <2>3 DEF d
    <2>5. ASSUME NEW x \in H, x[1] = o, x[2] <= h PROVE x[2] <= d
        <3> SUFFICES ASSUME d < x[2] PROVE FALSE
            BY <2>5, <2>4
        <3>0. x[2] \in Nat
            BY <2>5
        <3>1. ch[i].hvt < x[2]
            <4>1. ch[i].cs < x[2] /\ x[2] <= ch[i].hvt => x[2] <= d
                BY <2>5, <1>4, <2>3 DEF d
            <4>2. QED
                BY <4>1, <1>0, <2>3, <2>4, <3>0
        <3>2. EndOf(ch) \in Nat /\ h <= EndOf(ch)
            <4>1. Len(ch) \in DOMAIN ch
                BY <2>5, <2>5, <1>0
            <4>2. QED
                BY <2>5, <2>5, <1>0, <1>1, <1>2, <4>1 DEF EndOf, h
        <3>3. x[2] \in 2..EndOf(ch)
            BY <2>5, <1>0, <1>1, <2>3, <3>0, <3>1, <3>2
        <3>4. PICK k \in DOMAIN ch : ch[k].cs < x[2] /\ x[2] <= ch[k].hvt
            BY <2>5, <1>3, <3>3
        <3>5. i < k
            <4>1. k # i
                BY <2>5, <1>0, <2>3, <3>0, <3>1, <3>4
            <4>2. k < i => ch[k].hvt <= ch[i].cs
                BY <1>2, <2>3
            <4>3. ch[i].cs < ch[i].hvt
                BY <1>1, <2>3
            <4>4. QED
                BY <2>5, <1>0, <2>3, <3>0, <3>1, <3>4, <4>1, <4>2, <4>3
        <3>6. ch[k].hvt <= h
            <4>1. ~(j < k)
                <5>1. j < k => ch[j].hvt <= ch[k].cs
                    BY <1>2
                <5>2. QED
                    BY <2>5, <1>0, <3>0, <3>4, <5>1 DEF h
            <4>2. k < j => ch[k].hvt <= ch[j].cs /\ ch[j].cs < ch[j].hvt
                BY <1>1, <1>2
            <4>3. QED
                BY <1>0, <4>1, <4>2 DEF h
        <3>7. x[2] <= ch[k].data[o]
            BY <2>5, <1>4, <3>4
        <3>8. k \in K
            BY <2>5, <1>0, <3>0, <3>4, <3>6, <3>7 DEF Knowing, K
        <3>9. QED
            BY <2>5, <1>0, <2>1, <2>3, <3>4, <3>5, <3>8
    <2>6. LatestOf(H, o, h) = d
        <3>1. \A x \in H : x[1] = o /\ x[2] <= h => x[2] <= d
            BY <2>5
        <3>2. d <= h /\ h \in Nat /\ d \in Nat /\ <<o, d>> \in H
            BY <1>0, <2>3, <2>4
        <3>3. QED
            BY <3>1, <3>2, LatestIs
    <2>7. QED
        BY <2>2, <2>6 DEF h
<1>9. QED
    BY <1>7, <1>8

\* The chain's end is its last TRI's, and every TRI ends at or before it.
LEMMA ChainEnd ==
    ASSUME NEW H, NEW ch \in Seq(TRIType), ChainWF(ch, H)
    PROVE  /\ Len(ch) \in DOMAIN ch /\ DOMAIN ch = 1..Len(ch)
           /\ EndOf(ch) \in 0..MaxTid
           /\ \A i \in DOMAIN ch : ch[i].hvt <= EndOf(ch)
<1>1. Len(ch) \in DOMAIN ch /\ DOMAIN ch = 1..Len(ch)
    BY DEF ChainWF
<1>2. \A i \in DOMAIN ch : ch[i].cs < ch[i].hvt
    BY DEF ChainWF, TRIValid
<1>3. \A i, i2 \in DOMAIN ch : i < i2 => ch[i].hvt <= ch[i2].cs
    BY DEF ChainWF
<1>4. QED
    BY <1>1, <1>2, <1>3, TRIFields DEF EndOf

\* Appending a TRI that starts where the chain ends, passes the
\* constructor's checks and is exact over H keeps the chain well formed.
LEMMA AppendWF ==
    ASSUME NEW H \in SUBSET (Oid \X Nat), NEW ch \in Seq(TRIType),
           ChainWF(ch, H), NEW T \in TRIType,
           T.cs = EndOf(ch), TRIValid(T),
           \A o \in Oid : T.data[o] # 0 => <<o, T.data[o]>> \in H,
           \A x \in H : T.cs < x[2] /\ x[2] <= T.hvt => x[2] <= T.data[x[1]]
    PROVE  /\ Append(ch, T) \in Seq(TRIType)
           /\ ChainWF(Append(ch, T), H)
<1> DEFINE L == Len(ch)
           n == L + 1
           c2 == Append(ch, T)
<1>0. /\ L \in Nat /\ L >= 1 /\ DOMAIN ch = 1..L
      /\ c2 \in Seq(TRIType) /\ Len(c2) = n /\ DOMAIN c2 = 1..n
      /\ \A i \in 1..L : c2[i] = ch[i]
      /\ c2[n] = T
    BY DEF ChainWF, L, n, c2
<1>1. /\ \A i \in DOMAIN ch : /\ ch[i].cs \in Nat /\ ch[i].hvt \in Nat
                              /\ ch[i].data \in [Oid -> Nat]
      /\ T.cs \in Nat /\ T.hvt \in Nat /\ T.data \in [Oid -> Nat]
    BY TRIFields
<1>2. \A i \in DOMAIN ch : /\ 1 <= ch[i].cs /\ ch[i].cs < ch[i].hvt
                           /\ TRIValid(ch[i])
    BY DEF ChainWF, TRIValid
<1>3. \A i, i2 \in DOMAIN ch : i < i2 => ch[i].hvt <= ch[i2].cs
    BY DEF ChainWF
<1>4. \A i \in DOMAIN ch : ch[i].hvt <= EndOf(ch)
    BY <1>0, <1>1, <1>2, <1>3 DEF EndOf, L
<1>5. EndOf(ch) = ch[L].hvt /\ EndOf(ch) < T.hvt /\ 1 <= T.cs
    BY <1>0, <1>1, <1>2 DEF EndOf, TRIValid, L
<1>6. \A i \in DOMAIN c2 : 1 <= c2[i].cs /\ TRIValid(c2[i])
    BY <1>0, <1>2, <1>5
<1>7. \A i \in 1..Len(c2) - 1 : c2[i].hvt = c2[i + 1].cs
    <2>1. \A i \in 1..L - 1 : ch[i].hvt = ch[i + 1].cs
        BY DEF ChainWF
    <2>2. QED
        BY <1>0, <1>5, <2>1 DEF n
<1>8. \A i, i2 \in DOMAIN c2 : i < i2 => c2[i].hvt <= c2[i2].cs
    BY <1>0, <1>3, <1>4, <1>5 DEF n
<1>9. \A u \in 2..EndOf(c2) :
          \E k \in DOMAIN c2 : c2[k].cs < u /\ u <= c2[k].hvt
    <2>1. \A u \in 2..EndOf(ch) :
              \E k \in DOMAIN ch : ch[k].cs < u /\ u <= ch[k].hvt
        BY DEF ChainWF
    <2>2. EndOf(c2) = T.hvt
        BY <1>0 DEF EndOf, n
    <2>3. SUFFICES ASSUME NEW u \in 2..EndOf(c2)
                   PROVE  \E k \in DOMAIN c2 : c2[k].cs < u /\ u <= c2[k].hvt
        OBVIOUS
    <2>4. CASE u <= EndOf(ch)
        BY <2>3, <2>4, <2>1, <1>0, <1>1, <1>5
    <2>5. CASE EndOf(ch) < u
        BY <2>2, <2>3, <2>5, <1>0, <1>1, <1>5 DEF n
    <2>6. QED
        BY <2>4, <2>5, <1>1, <1>5
<1>10. \A i \in DOMAIN c2, o \in Oid :
          /\ c2[i].data[o] # 0 => <<o, c2[i].data[o]>> \in H
          /\ \A x \in H : x[1] = o /\ c2[i].cs < x[2] /\ x[2] <= c2[i].hvt
                              => x[2] <= c2[i].data[o]
    <2>1. \A i \in DOMAIN ch, o \in Oid :
          /\ ch[i].data[o] # 0 => <<o, ch[i].data[o]>> \in H
          /\ \A x \in H : x[1] = o /\ ch[i].cs < x[2] /\ x[2] <= ch[i].hvt
                              => x[2] <= ch[i].data[o]
        BY DEF ChainWF
    <2>2. QED
        BY <2>1, <1>0 DEF n
<1>11. \A o \in Oid, jj \in DOMAIN c2 :
          Knowing(c2, o, c2[jj].hvt) # {} =>
             \E i \in Knowing(c2, o, c2[jj].hvt) :
                \A k \in Knowing(c2, o, c2[jj].hvt) : k <= i
    <2>1. \A o \in Oid, jj \in DOMAIN ch :
              Knowing(ch, o, ch[jj].hvt) # {} =>
                 \E i \in Knowing(ch, o, ch[jj].hvt) :
                    \A k \in Knowing(ch, o, ch[jj].hvt) : k <= i
        BY DEF ChainWF
    <2>2. SUFFICES ASSUME NEW o \in Oid, NEW jj \in DOMAIN c2,
                          Knowing(c2, o, c2[jj].hvt) # {}
                   PROVE  \E i \in Knowing(c2, o, c2[jj].hvt) :
                             \A k \in Knowing(c2, o, c2[jj].hvt) : k <= i
        OBVIOUS
    <2>3. CASE jj \in 1..L
        <3>1. Knowing(c2, o, c2[jj].hvt) = Knowing(ch, o, ch[jj].hvt)
            BY <2>3, <1>0, <1>1, <1>4, <1>5 DEF Knowing, n
        <3>2. QED
            BY <2>1, <2>2, <2>3, <3>1, <1>0
    <2>4. CASE jj = n /\ T.data[o] # 0
        <3>1. n \in Knowing(c2, o, c2[jj].hvt)
            BY <2>4, <1>0, <1>1 DEF Knowing
        <3>2. \A k \in Knowing(c2, o, c2[jj].hvt) : k <= n
            BY <1>0 DEF Knowing
        <3>3. QED
            BY <3>1, <3>2
    <2>5. CASE jj = n /\ T.data[o] = 0
        <3>1. Knowing(c2, o, c2[jj].hvt) = Knowing(ch, o, ch[L].hvt)
            BY <2>5, <1>0, <1>1, <1>4, <1>5 DEF Knowing, n
        <3>2. Knowing(ch, o, ch[L].hvt) # {}
            BY <2>2, <3>1
        <3>3. L \in DOMAIN ch
            BY <1>0
        <3>4. QED
            BY <2>1, <3>1, <3>2, <3>3
    <2>6. QED
        BY <2>3, <2>4, <2>5, <1>0 DEF n
<1>12. c2 # << >>
    BY <1>0
<1>13. ChainWF(c2, H)
    BY <1>6, <1>7, <1>8, <1>9, <1>10, <1>11, <1>12 DEF ChainWF
<1>14. QED
    BY <1>0, <1>13 DEF c2

\* A revision committed after every TRI's end leaves the chain well formed.
LEMMA HistGrowWF ==
    ASSUME NEW H \in SUBSET (Oid \X Nat), NEW ch \in Seq(TRIType),
           ChainWF(ch, H), NEW o \in Oid, NEW n \in Nat,
           \A i \in DOMAIN ch : ch[i].hvt < n
    PROVE  ChainWF(ch, H \cup {<<o, n>>})
<1>1. \A i \in DOMAIN ch, o2 \in Oid :
          /\ ch[i].data[o2] # 0 => <<o2, ch[i].data[o2]>> \in H
          /\ \A x \in H : x[1] = o2 /\ ch[i].cs < x[2] /\ x[2] <= ch[i].hvt
                              => x[2] <= ch[i].data[o2]
    BY DEF ChainWF
<1>2. \A i \in DOMAIN ch, o2 \in Oid :
          /\ ch[i].data[o2] # 0 => <<o2, ch[i].data[o2]>> \in H \cup {<<o, n>>}
          /\ \A x \in H \cup {<<o, n>>} :
                x[1] = o2 /\ ch[i].cs < x[2] /\ x[2] <= ch[i].hvt
                    => x[2] <= ch[i].data[o2]
    BY <1>1, TRIFields
<1>3. QED
    BY <1>2 DEF ChainWF

\* poll over a chain that has not failed.
PollFrom(ch, cch, since, until, chg) ==
    Poll([chain |-> ch, cached |-> cch, failed |-> FALSE], since, until, chg)

\* What PollWF establishes of the coordinator after a poll.
PollPost(ch, H, cch, since, until, chg) ==
    LET st == PollFrom(ch, cch, since, until, chg) IN
    /\ st.chain \in Seq(TRIType)
    /\ ChainWF(st.chain, H)
    /\ DOMAIN ch \subseteq DOMAIN st.chain
    /\ \A i \in DOMAIN ch : st.chain[i] = ch[i]
    /\ \A i \in DOMAIN st.chain : st.chain[i].hvt <= until
    /\ st.cached \subseteq cch
    /\ st.failed \in BOOLEAN
    /\ ~st.failed => EndOf(st.chain) = until
    /\ PollMode = "clip" => ~st.failed

\* after_poll from a snapshot within the chain to a tid at or past its end,
\* with changes that name every revision committed after that snapshot,
\* keeps the chain well formed and extends it; it ends at the new tid
\* unless it raised, and with clipped polls it never raises.
LEMMA PollWF ==
    ASSUME NEW H \in SUBSET (Oid \X Nat), NEW ch \in Seq(TRIType),
           ChainWF(ch, H), NEW cch, NEW since \in Nat,
           NEW until \in 0..MaxTid, NEW chg \in [Oid -> 0..MaxTid],
           since <= EndOf(ch), EndOf(ch) <= until,
           \A o \in Oid : chg[o] # 0 => <<o, chg[o]>> \in H /\ chg[o] <= until,
           \A x \in H : since < x[2] /\ x[2] <= until => x[2] <= chg[x[1]]
    PROVE  PollPost(ch, H, cch, since, until, chg)
<1> DEFINE st0 == [chain |-> ch, cached |-> cch, failed |-> FALSE]
           st == PollFrom(ch, cch, since, until, chg)
           E == EndOf(ch)
           D == [o \in Oid |-> IF chg[o] > E THEN chg[o] ELSE 0]
           T == TRI(E, until, D)
<1>0. SUFFICES /\ st.chain \in Seq(TRIType)
               /\ ChainWF(st.chain, H)
               /\ DOMAIN ch \subseteq DOMAIN st.chain
               /\ \A i \in DOMAIN ch : st.chain[i] = ch[i]
               /\ \A i \in DOMAIN st.chain : st.chain[i].hvt <= until
               /\ st.cached \subseteq cch
               /\ st.failed \in BOOLEAN
               /\ ~st.failed => EndOf(st.chain) = until
               /\ PollMode = "clip" => ~st.failed
    BY DEF st, PollPost
<1>1. /\ Len(ch) \in DOMAIN ch /\ DOMAIN ch = 1..Len(ch)
      /\ E \in 0..MaxTid
      /\ \A i \in DOMAIN ch : ch[i].hvt <= E
    BY ChainEnd DEF E
<1>2. Invalidate(st0, chg) \subseteq cch
    BY DEF Invalidate, st0
<1>3. CASE until <= E
    <2>1. st = [st0 EXCEPT !.cached = Invalidate(st0, chg)]
        BY <1>3 DEF st, PollFrom, Poll, st0, E
    <2>2. st.chain = ch /\ st.failed = FALSE /\ st.cached \subseteq cch
        BY <2>1, <1>2 DEF st0
    <2>3. st.chain \in Seq(TRIType) /\ ChainWF(st.chain, H)
        BY <2>2
    <2>4. EndOf(st.chain) = until
        BY <2>2, <1>1, <1>3 DEF E
    <2>5. QED
        BY <1>1, <2>2, <2>3, <2>4 DEF E
<1>4. CASE E < until /\ (since = E \/ PollMode = "clip")
    <2>1. st.chain = Append(ch, T) /\ st.failed = FALSE /\ st.cached \subseteq cch
        <3>1. st = [st0 EXCEPT !.cached = Invalidate(st0, chg),
                               !.chain = Append(@, T)]
            BY <1>4, <1>1 DEF st, PollFrom, Poll, st0, E, T, D
        <3>2. QED
            BY <3>1, <1>2 DEF st0
    <2>2. T \in TRIType
        <3>1. D \in [Oid -> 0..MaxTid]
            BY DEF D
        <3>2. QED
            BY <1>1, <3>1 DEF T, TRI, TRIType
    <2>3. T.cs = EndOf(ch) /\ T.hvt = until /\ T.data = D
        BY DEF T, TRI, E
    <2>4. TRIValid(T)
        BY <1>1, <1>4, <2>3 DEF TRIValid, D
    <2>5. \A o \in Oid : T.data[o] # 0 => <<o, T.data[o]>> \in H
        BY <2>3 DEF D
    <2>6. \A x \in H : T.cs < x[2] /\ x[2] <= T.hvt => x[2] <= T.data[x[1]]
        <3>0. SUFFICES ASSUME NEW x \in H, E < x[2], x[2] <= until
                       PROVE  x[2] <= D[x[1]]
            BY <2>3 DEF E
        <3>1. x[1] \in Oid /\ x[2] \in Nat
            OBVIOUS
        <3>2. x[2] <= chg[x[1]]
            BY <1>1, <3>0, <3>1 DEF E
        <3>3. QED
            BY <1>1, <3>0, <3>1, <3>2 DEF D
    <2>7. /\ Append(ch, T) \in Seq(TRIType)
          /\ ChainWF(Append(ch, T), H)
        BY <2>2, <2>3, <2>4, <2>5, <2>6, AppendWF
    <2>8. /\ DOMAIN Append(ch, T) = 1..Len(ch) + 1
          /\ \A i \in DOMAIN ch : Append(ch, T)[i] = ch[i]
          /\ Append(ch, T)[Len(ch) + 1] = T
          /\ EndOf(Append(ch, T)) = until
        BY <1>1, <2>3 DEF EndOf
    <2>9. st.chain \in Seq(TRIType) /\ ChainWF(st.chain, H)
        BY <2>1, <2>7
    <2>10. \A i \in DOMAIN st.chain : st.chain[i].hvt <= until
        <3>1. Len(ch) \in Nat
            BY <1>1
        <3>2. SUFFICES ASSUME NEW i \in 1..Len(ch) + 1
                       PROVE  Append(ch, T)[i].hvt <= until
            BY <2>1, <2>8
        <3>3. CASE i \in 1..Len(ch)
            <4>1. i \in DOMAIN ch
                BY <1>1, <3>3
            <4>2. ch[i].hvt <= E
                BY <1>1, <4>1
            <4>3. QED
                BY <1>1, <1>4, <2>8, <4>1, <4>2, TRIFields
        <3>4. CASE i = Len(ch) + 1
            BY <2>3, <2>8, <3>4
        <3>5. QED
            BY <3>1, <3>2, <3>3, <3>4
    <2>11. DOMAIN ch \subseteq DOMAIN st.chain
           /\ \A i \in DOMAIN ch : st.chain[i] = ch[i]
        BY <1>1, <2>1, <2>8
    <2>12. ~st.failed => EndOf(st.chain) = until
        BY <2>1, <2>8
    <2>13. QED
        BY <2>1, <2>9, <2>10, <2>11, <2>12
<1>5. CASE E < until /\ since # E /\ PollMode # "clip"
    <2>1. st = [st0 EXCEPT !.cached = Invalidate(st0, chg), !.failed = TRUE]
        <3>1. EndOf(st0.chain) = E
            BY DEF st0, E
        <3>2. ~(until <= EndOf(st0.chain))
            BY <1>1, <1>5, <3>1
        <3>3. ~(since = EndOf(st0.chain) \/ PollMode = "clip")
            BY <1>5, <3>1
        <3>4. QED
            BY <3>2, <3>3 DEF st, PollFrom, Poll
    <2>2. st.chain = ch /\ st.failed = TRUE /\ st.cached \subseteq cch
        BY <2>1, <1>2 DEF st0
    <2>3. st.chain \in Seq(TRIType) /\ ChainWF(st.chain, H)
        BY <2>2
    <2>4. \A i \in DOMAIN st.chain : st.chain[i].hvt <= until
        BY <1>1, <1>5, <2>2, TRIFields
    <2>5. PollMode = "clip" => ~st.failed
        BY <1>5, <2>2
    <2>6. QED
        BY <2>2, <2>3, <2>4, <2>5
<1>6. QED
    BY <1>1, <1>3, <1>4, <1>5

(***************************************************************************)
(* The record's poll, from a state of the invariant.                      *)
(***************************************************************************)
\* What the poll a record may trigger leaves behind: a well-formed chain
\* that extends the old one and ends at or below current_tid_int, a
\* snapshot for c at the end of one of its TRIs unless the poll raised,
\* and no raise with clipped polls.
LEMMA PolledFacts ==
    ASSUME IInv, ~failed, NEW c \in Conn, NEW o \in Oid
    PROVE  /\ Polled(c, o).chain \in Seq(TRIType)
           /\ ChainWF(Polled(c, o).chain, hist)
           /\ DOMAIN chain \subseteq DOMAIN Polled(c, o).chain
           /\ \A i \in DOMAIN chain : Polled(c, o).chain[i] = chain[i]
           /\ \A i \in DOMAIN Polled(c, o).chain :
                 Polled(c, o).chain[i].hvt <= currentTid
           /\ Polled(c, o).cached \subseteq cached
           /\ Polled(c, o).failed \in BOOLEAN
           /\ ~Polled(c, o).failed =>
                 \E i \in DOMAIN Polled(c, o).chain :
                    Polled(c, o).chain[i].hvt = PolledHvt(c, o)
           /\ PollMode = "clip" => ~Polled(c, o).failed
           /\ PolledHvt(c, o) \in 2..MaxTid /\ PolledHvt(c, o) <= currentTid
           /\ PolledChanges(c, o) \in [Oid -> 0..MaxTid]
<1> DEFINE st == Polled(c, o)
<1>0. /\ chain \in Seq(TRIType) /\ ChainWF(chain, hist)
      /\ hist \subseteq Oid \X Nat
      /\ currentTid \in 2..MaxTid /\ hvt[c] \in 2..MaxTid
      /\ changes[c] \in [Oid -> 0..MaxTid]
      /\ failed = FALSE
    BY DEF IInv, TypeOK
<1>1. /\ Len(chain) \in DOMAIN chain /\ DOMAIN chain = 1..Len(chain)
      /\ EndOf(chain) \in 0..MaxTid
      /\ \A i \in DOMAIN chain : chain[i].hvt <= EndOf(chain)
    BY <1>0, ChainEnd
<1>2. \E i \in DOMAIN chain : chain[i].hvt = hvt[c]
    BY DEF IInv, SnapshotsOnChain
<1>3. PolledChanges(c, o) \in [Oid -> 0..MaxTid]
    BY <1>0 DEF PolledChanges, NoChanges
<1>4. CASE NeedsPoll(c, o)
    <2>1. st = PollFrom(chain, cached, hvt[c], currentTid, changes[c])
        BY <1>0, <1>4 DEF st, Polled, PollFrom
    <2>2. hvt[c] <= EndOf(chain) /\ EndOf(chain) <= currentTid
        BY <1>1, <1>2 DEF IInv, BelowCurrent, EndOf
    <2>3. \A o2 \in Oid : changes[c][o2] # 0 =>
              <<o2, changes[c][o2]>> \in hist /\ changes[c][o2] <= currentTid
        BY DEF IInv, ChangesSound, DataLatest, BelowCurrent
    <2>4. \A x \in hist : hvt[c] < x[2] /\ x[2] <= currentTid
                             => x[2] <= changes[c][x[1]]
        <3> SUFFICES ASSUME NEW x \in hist, hvt[c] < x[2]
                     PROVE  x[2] <= changes[c][x[1]]
            OBVIOUS
        <3>1. x[1] \in Oid
            BY <1>0
        <3>2. changes[c][x[1]] # 0
            BY DEF IInv, ChangesSound
        <3>3. changes[c][x[1]] = data[x[1]]
            BY <3>1, <3>2 DEF IInv, ChangesSound
        <3>4. QED
            BY <3>1, <3>3 DEF IInv, DataLatest
    <2>5. PollPost(chain, hist, cached, hvt[c], currentTid, changes[c])
        BY <1>0, <2>2, <2>3, <2>4, PollWF
    <2>6. PolledHvt(c, o) = currentTid
        BY <1>4 DEF PolledHvt
    <2>7. ~st.failed => \E i \in DOMAIN st.chain : st.chain[i].hvt = currentTid
        <3>1. st.chain \in Seq(TRIType) /\ ChainWF(st.chain, hist)
            BY <2>1, <2>5 DEF PollPost
        <3>2. Len(st.chain) \in DOMAIN st.chain
            BY <3>1, ChainEnd
        <3>3. QED
            BY <2>1, <2>5, <3>2 DEF EndOf, PollPost
    <2>8. QED
        BY <1>0, <1>3, <2>1, <2>5, <2>6, <2>7 DEF st, PollPost
<1>5. CASE ~NeedsPoll(c, o)
    <2>1. st = [chain |-> chain, cached |-> cached, failed |-> failed]
        BY <1>5 DEF st, Polled
    <2>2. PolledHvt(c, o) = hvt[c]
        BY <1>5 DEF PolledHvt
    <2>3. \A i \in DOMAIN chain : chain[i].hvt <= currentTid
        BY DEF IInv, BelowCurrent
    <2>4. QED
        <3>1. hvt[c] <= currentTid
            BY DEF IInv, BelowCurrent
        <3>2. st.chain = chain /\ st.cached = cached /\ st.failed = FALSE
            BY <1>0, <2>1
        <3>3. QED
            BY <1>0, <1>2, <1>3, <2>2, <2>3, <3>1, <3>2 DEF st
<1>6. QED
    BY <1>4, <1>5

\* A snapshot at or above an oid's current revision sees that revision.
LEMMA DataIsLatest ==
    ASSUME TypeOK, DataLatest, NEW o \in Oid, NEW h \in Nat, data[o] <= h
    PROVE  LatestOf(hist, o, h) = data[o]
<1>1. /\ hist \subseteq Oid \X Nat /\ data[o] \in Nat
      /\ <<o, data[o]>> \in hist
      /\ \A x \in hist : x[1] = o /\ x[2] <= h => x[2] <= data[o]
    BY DEF TypeOK, DataLatest
<1>2. QED
    BY <1>1, LatestIs

(***************************************************************************)
(* One lemma per action.                                                   *)
(***************************************************************************)
\* A record whose poll raised keeps the invariant: it changes nothing but the
\* failure flag and drops cached revisions, and clipped polls never raise.
LEMMA RaisedIInv ==
    ASSUME IInv, ~failed, NEW c \in Conn, NEW o \in Oid,
           Polled(c, o).failed, PollRaised(Polled(c, o))
    PROVE  IInv'
<1>1. PollMode # "clip"
    BY PolledFacts
<1>2. Polled(c, o).cached \subseteq cached
    BY PolledFacts
<1>3. /\ failed' = TRUE /\ cached' \subseteq cached
      /\ UNCHANGED <<currentTid, data, hist, hvt, changes, chain, result>>
    BY <1>2 DEF PollRaised
<1>4. TypeOK'
    BY <1>3 DEF IInv, TypeOK
<1>5. (DataLatest /\ BelowCurrent /\ ChangesSound)'
    BY <1>3 DEF IInv, DataLatest, BelowCurrent, ChangesSound
<1>6. ChainWF(chain', hist')
    BY <1>3 DEF IInv
<1>7. SnapshotsOnChain'
    BY <1>3 DEF IInv, SnapshotsOnChain, ReadsCurrent
<1>9. ClipNeverFails'
    BY <1>1 DEF ClipNeverFails
<1>8. QED
    BY <1>4, <1>5, <1>6, <1>7, <1>9 DEF IInv

LEMMA ReadIInv ==
    ASSUME IInv, NEW c \in Conn, NEW o \in Oid, Read(c, o)
    PROVE  IInv'
<1> DEFINE pst == Polled(c, o)
           ph == PolledHvt(c, o)
           pt == VisibleTid(pst.chain, o, ph)
           phit == pt # 0 /\ <<o, pt>> \in pst.cached
<1>0. ~failed
    BY DEF Read
<1>a. pst.failed => PollRaised(pst)
    BY DEF Read, pst
<1> SUFFICES ASSUME ~pst.failed PROVE IInv'
    BY <1>0, <1>a, RaisedIInv DEF pst
<1>1. /\ pst.chain \in Seq(TRIType)
      /\ ChainWF(pst.chain, hist)
      /\ DOMAIN chain \subseteq DOMAIN pst.chain
      /\ \A i \in DOMAIN chain : pst.chain[i] = chain[i]
      /\ \A i \in DOMAIN pst.chain : pst.chain[i].hvt <= currentTid
      /\ pst.cached \subseteq cached
      /\ pst.failed \in BOOLEAN
      /\ ~pst.failed => \E i \in DOMAIN pst.chain : pst.chain[i].hvt = ph
      /\ PollMode = "clip" => ~pst.failed
      /\ ph \in 2..MaxTid /\ ph <= currentTid
      /\ PolledChanges(c, o) \in [Oid -> 0..MaxTid]
    BY <1>0, PolledFacts DEF pst, ph
<1>2. /\ result' = IF phit THEN <<o, pt>> ELSE <<o, data[o]>>
      /\ cached' = IF phit THEN pst.cached ELSE pst.cached \cup {<<o, data[o]>>}
      /\ chain' = pst.chain
      /\ failed' = pst.failed
      /\ hvt' = [hvt EXCEPT ![c] = ph]
      /\ changes' = [changes EXCEPT ![c] = PolledChanges(c, o)]
      /\ UNCHANGED <<currentTid, data, hist>>
    <2>1. /\ result' = IF phit THEN <<o, pt>> ELSE <<o, data[o]>>
          /\ cached' = IF phit THEN pst.cached ELSE pst.cached \cup {<<o, data[o]>>}
          /\ chain' = pst.chain
          /\ hvt' = [hvt EXCEPT ![c] = ph]
          /\ changes' = [changes EXCEPT ![c] = PolledChanges(c, o)]
          /\ UNCHANGED <<currentTid, data, hist, failed>>
        BY DEF Read, pst, ph, pt, phit
    <2>2. pst.failed = FALSE
        BY <1>1
    <2>3. failed' = FALSE
        BY <1>0, <2>1
    <2>4. QED
        BY <2>1, <2>2, <2>3
<1>3. TypeOK'
    <2>1. cached' \subseteq Oid \X (1..MaxTid)
        BY <1>1, <1>2 DEF IInv, TypeOK
    <2>2. result' \in {<<>>} \cup (Oid \X (1..MaxTid))
        BY <1>1, <1>2 DEF IInv, TypeOK
    <2>3. QED
        BY <1>1, <1>2, <2>1, <2>2 DEF IInv, TypeOK
<1>4. DataLatest'
    BY <1>2 DEF IInv, DataLatest
<1>5. BelowCurrent'
    BY <1>1, <1>2 DEF IInv, BelowCurrent, TypeOK
<1>6. ChangesSound'
    <2>1. CASE NeedsPoll(c, o)
        <3>1. ph = currentTid /\ PolledChanges(c, o) = NoChanges
            BY <2>1 DEF ph, PolledHvt, PolledChanges
        <3>2. QED
            BY <1>2, <3>1 DEF IInv, ChangesSound, BelowCurrent, TypeOK, NoChanges
    <2>2. CASE ~NeedsPoll(c, o)
        <3>1. ph = hvt[c] /\ PolledChanges(c, o) = changes[c]
            BY <2>2 DEF ph, PolledHvt, PolledChanges
        <3>2. hvt' = hvt /\ changes' = changes
            BY <1>2, <3>1 DEF IInv, TypeOK
        <3>3. QED
            BY <1>2, <3>2 DEF IInv, ChangesSound
    <2>3. QED
        BY <2>1, <2>2
<1>7. ChainWF(chain', hist')
    BY <1>1, <1>2
<1>8. ClipNeverFails'
    BY <1>1, <1>2 DEF ClipNeverFails
<1>9. SnapshotsOnChain'
    <2> SUFFICES /\ \A d \in Conn : \E i \in DOMAIN chain' : chain'[i].hvt = hvt'[d]
                 /\ ReadsCurrent'
        BY DEF SnapshotsOnChain
    <2>1. PICK j \in DOMAIN pst.chain : pst.chain[j].hvt = ph
        BY <1>1, <1>2
    <2>2. \A d \in Conn : \E i \in DOMAIN chain' : chain'[i].hvt = hvt'[d]
        <3>1. \A d \in Conn : \E i \in DOMAIN chain : chain[i].hvt = hvt[d]
            BY <1>0 DEF IInv, SnapshotsOnChain
        <3>2. QED
            BY <1>1, <1>2, <2>1, <3>1 DEF IInv, TypeOK
    <2>3. data[o] <= ph
        <3>1. <<o, data[o]>> \in hist /\ data[o] \in Nat
            BY DEF IInv, DataLatest, TypeOK
        <3>2. CASE NeedsPoll(c, o)
            BY <3>1, <3>2 DEF ph, PolledHvt, IInv, BelowCurrent
        <3>3. CASE ~NeedsPoll(c, o)
            <4>1. changes[c][o] = 0 /\ ph = hvt[c]
                BY <3>3 DEF NeedsPoll, ph, PolledHvt
            <4>2. hvt[c] \in Nat
                BY DEF IInv, TypeOK
            <4>3. QED
                BY <3>1, <4>1, <4>2 DEF IInv, ChangesSound
        <3>4. QED
            BY <3>2, <3>3
    <2>4. phit => pt = data[o]
        <3>1. pt \in {0, LatestOf(hist, o, ph)}
            <4>1. hist \in SUBSET (Oid \X Nat)
                BY DEF IInv, TypeOK
            <4>2. QED
                BY <1>1, <2>1, <4>1, ChainVisible DEF pt
        <3>2. LatestOf(hist, o, ph) = data[o]
            <4>1. TypeOK /\ DataLatest /\ ph \in Nat
                BY <1>1 DEF IInv
            <4>2. QED
                BY <2>3, <4>1, DataIsLatest
        <3>3. QED
            BY <3>1, <3>2 DEF phit
    <2>5. ReadsCurrent'
        BY <1>2, <2>4 DEF ReadsCurrent
    <2>6. QED
        BY <2>2, <2>5
<1>10. QED
    BY <1>3, <1>4, <1>5, <1>6, <1>7, <1>8, <1>9 DEF IInv

\* The bm_changes of d once c's record has polled, before its write.
PolledBase(c, o, d) == IF d = c THEN PolledChanges(c, o) ELSE changes[d]

\* A record's poll keeps ChangesSound over the snapshots it leaves.
LEMMA PolledChangesSound ==
    ASSUME IInv, NEW c \in Conn, NEW o \in Oid
    PROVE  LET hv == [hvt EXCEPT ![c] = PolledHvt(c, o)] IN
           /\ \A d \in Conn, o2 \in Oid :
                 PolledBase(c, o, d)[o2] # 0 =>
                    PolledBase(c, o, d)[o2] = data[o2] /\ hv[d] < PolledBase(c, o, d)[o2]
           /\ \A d \in Conn, x \in hist :
                 hv[d] < x[2] => PolledBase(c, o, d)[x[1]] # 0
<1>1. CASE NeedsPoll(c, o)
    <2>1. PolledHvt(c, o) = currentTid /\ PolledChanges(c, o) = NoChanges
        BY <1>1 DEF PolledHvt, PolledChanges
    <2>2. QED
        BY <2>1 DEF IInv, ChangesSound, BelowCurrent, TypeOK, NoChanges, PolledBase
<1>2. CASE ~NeedsPoll(c, o)
    <2>1. PolledHvt(c, o) = hvt[c] /\ PolledChanges(c, o) = changes[c]
        BY <1>2 DEF PolledHvt, PolledChanges
    <2>2. QED
        BY <2>1 DEF IInv, ChangesSound, TypeOK, PolledBase
<1>3. QED
    BY <1>1, <1>2

LEMMA WriteIInv ==
    ASSUME IInv, NEW c \in Conn, NEW o \in Oid, Write(c, o)
    PROVE  IInv'
<1> DEFINE pst == Polled(c, o)
           ph == PolledHvt(c, o)
           new == currentTid + 1
<1>0. ~failed /\ currentTid < MaxTid
    BY DEF Write
<1>a. pst.failed => PollRaised(pst)
    BY DEF Write, pst
<1> SUFFICES ASSUME ~pst.failed PROVE IInv'
    BY <1>0, <1>a, RaisedIInv DEF pst
<1>1. /\ pst.chain \in Seq(TRIType)
      /\ ChainWF(pst.chain, hist)
      /\ DOMAIN chain \subseteq DOMAIN pst.chain
      /\ \A i \in DOMAIN chain : pst.chain[i] = chain[i]
      /\ \A i \in DOMAIN pst.chain : pst.chain[i].hvt <= currentTid
      /\ pst.cached \subseteq cached
      /\ pst.failed \in BOOLEAN
      /\ ~pst.failed => \E i \in DOMAIN pst.chain : pst.chain[i].hvt = ph
      /\ PollMode = "clip" => ~pst.failed
      /\ ph \in 2..MaxTid /\ ph <= currentTid
      /\ PolledChanges(c, o) \in [Oid -> 0..MaxTid]
    BY <1>0, PolledFacts DEF pst, ph
<1>2. /\ currentTid' = new
      /\ data' = [data EXCEPT ![o] = new]
      /\ hist' = hist \cup {<<o, new>>}
      /\ cached' = pst.cached \cup {<<o, new>>}
      /\ chain' = pst.chain
      /\ failed' = pst.failed
      /\ hvt' = [hvt EXCEPT ![c] = ph]
      /\ changes' = [d \in Conn |-> [PolledBase(c, o, d) EXCEPT ![o] = new]]
      /\ result' = <<>>
    <2>1. /\ currentTid' = new
          /\ data' = [data EXCEPT ![o] = new]
          /\ hist' = hist \cup {<<o, new>>}
          /\ cached' = pst.cached \cup {<<o, new>>}
          /\ chain' = pst.chain
          /\ hvt' = [hvt EXCEPT ![c] = ph]
          /\ changes' = [d \in Conn |-> [PolledBase(c, o, d) EXCEPT ![o] = new]]
          /\ result' = <<>> /\ failed' = failed
        BY DEF Write, pst, ph, new, PolledBase
    <2>2. pst.failed = FALSE
        BY <1>1
    <2>3. failed' = FALSE
        BY <1>0, <2>1
    <2>4. QED
        BY <2>1, <2>2, <2>3
<1>3. /\ currentTid \in 2..MaxTid /\ new \in 2..MaxTid
      /\ \A d \in Conn : hvt'[d] \in 2..MaxTid /\ hvt'[d] <= currentTid
      /\ \A d \in Conn : PolledBase(c, o, d) \in [Oid -> 0..MaxTid]
    BY <1>0, <1>1, <1>2 DEF IInv, TypeOK, BelowCurrent, PolledBase
<1>4. TypeOK'
    BY <1>1, <1>2, <1>3 DEF IInv, TypeOK
<1>5. DataLatest'
    <2> SUFFICES ASSUME NEW o2 \in Oid
                 PROVE  /\ <<o2, data'[o2]>> \in hist'
                        /\ \A x \in hist' : x[1] = o2 => x[2] <= data'[o2]
        BY DEF DataLatest
    <2>1. \A x \in hist : x[2] <= currentTid
        BY DEF IInv, BelowCurrent
    <2>2. CASE o2 = o
        BY <1>2, <1>3, <2>1, <2>2 DEF IInv, TypeOK
    <2>3. CASE o2 # o
        BY <1>2, <2>3 DEF IInv, DataLatest, TypeOK
    <2>4. QED
        BY <2>2, <2>3
<1>6. BelowCurrent'
    <2>1. \A x \in hist' : x[2] <= new
        BY <1>2, <1>3 DEF IInv, BelowCurrent, TypeOK
    <2>2. \A d \in Conn : hvt'[d] <= new
        BY <1>2, <1>3
    <2>3. \A i \in DOMAIN chain' : chain'[i].hvt <= new
        <3> SUFFICES ASSUME NEW i \in DOMAIN pst.chain PROVE pst.chain[i].hvt <= new
            BY <1>2
        <3>1. pst.chain[i] \in TRIType
            BY <1>1
        <3>2. QED
            BY <1>1, <1>3, <3>1, TRIFields
    <2>4. QED
        BY <1>2, <2>1, <2>2, <2>3 DEF BelowCurrent
<1>7. ChangesSound'
    <2>1. LET hv == [hvt EXCEPT ![c] = PolledHvt(c, o)] IN
          /\ \A d \in Conn, o2 \in Oid :
                PolledBase(c, o, d)[o2] # 0 =>
                   PolledBase(c, o, d)[o2] = data[o2] /\ hv[d] < PolledBase(c, o, d)[o2]
          /\ \A d \in Conn, x \in hist :
                hv[d] < x[2] => PolledBase(c, o, d)[x[1]] # 0
        BY PolledChangesSound
    <2>2. \A d \in Conn, o2 \in Oid :
             changes'[d][o2] # 0 =>
                changes'[d][o2] = data'[o2] /\ hvt'[d] < changes'[d][o2]
        <3> SUFFICES ASSUME NEW d \in Conn, NEW o2 \in Oid, changes'[d][o2] # 0
                     PROVE  changes'[d][o2] = data'[o2] /\ hvt'[d] < changes'[d][o2]
            OBVIOUS
        <3>1. CASE o2 = o
            <4>1. changes'[d][o2] = new /\ data'[o2] = new
                BY <1>2, <1>3, <3>1 DEF IInv, TypeOK
            <4>2. QED
                BY <1>3, <4>1
        <3>2. CASE o2 # o
            <4>1. changes'[d][o2] = PolledBase(c, o, d)[o2] /\ data'[o2] = data[o2]
                BY <1>2, <1>3, <3>2 DEF IInv, TypeOK
            <4>2. hvt'[d] = [hvt EXCEPT ![c] = PolledHvt(c, o)][d]
                BY <1>2 DEF ph
            <4>3. QED
                BY <2>1, <4>1, <4>2
        <3>3. QED
            BY <3>1, <3>2
    <2>3. \A d \in Conn, x \in hist' : hvt'[d] < x[2] => changes'[d][x[1]] # 0
        <3> SUFFICES ASSUME NEW d \in Conn, NEW x \in hist', hvt'[d] < x[2]
                     PROVE  changes'[d][x[1]] # 0
            OBVIOUS
        <3>1. CASE x[1] = o
            BY <1>2, <1>3, <3>1 DEF IInv, TypeOK
        <3>2. CASE x[1] # o
            <4>1. x \in hist /\ x[1] \in Oid
                BY <1>2, <3>2 DEF IInv, TypeOK
            <4>2. PolledBase(c, o, d)[x[1]] # 0
                BY <1>2, <2>1, <4>1 DEF ph
            <4>3. QED
                BY <1>2, <1>3, <3>2, <4>1, <4>2
        <3>3. QED
            BY <3>1, <3>2
    <2>4. QED
        BY <2>2, <2>3 DEF ChangesSound
<1>8. ChainWF(chain', hist')
    <2>1. \A i \in DOMAIN pst.chain : pst.chain[i].hvt < new
        <3> SUFFICES ASSUME NEW i \in DOMAIN pst.chain PROVE pst.chain[i].hvt < new
            OBVIOUS
        <3>1. pst.chain[i] \in TRIType
            BY <1>1
        <3>2. QED
            BY <1>1, <1>3, <3>1, TRIFields
    <2>2. hist \in SUBSET (Oid \X Nat) /\ new \in Nat
        BY <1>3 DEF IInv, TypeOK
    <2>3. QED
        BY <1>1, <1>2, <2>1, <2>2, HistGrowWF
<1>9. ClipNeverFails'
    BY <1>1, <1>2 DEF ClipNeverFails
<1>10. SnapshotsOnChain'
    <2>1. \A d \in Conn : \E i \in DOMAIN chain' : chain'[i].hvt = hvt'[d]
        <3>1. \A d \in Conn : \E i \in DOMAIN chain : chain[i].hvt = hvt[d]
            BY <1>0 DEF IInv, SnapshotsOnChain
        <3>2. QED
            BY <1>1, <1>2, <3>1 DEF IInv, TypeOK
    <2>2. ReadsCurrent'
        BY <1>2 DEF ReadsCurrent
    <2>3. QED
        BY <2>1, <2>2 DEF SnapshotsOnChain
<1>11. QED
    BY <1>4, <1>5, <1>6, <1>7, <1>8, <1>9, <1>10 DEF IInv

LEMMA InitIInv ==
    ASSUME Init
    PROVE  IInv
<1> DEFINE t0 == TRI(1, 2, NoChanges)
<1>1. /\ t0 \in TRIType
      /\ t0.cs = 1 /\ t0.hvt = 2
      /\ \A o \in Oid : t0.data[o] = 0
    BY DEF t0, TRI, TRIType, NoChanges
<1>2. /\ chain = <<t0>> /\ Len(chain) = 1 /\ DOMAIN chain = {1}
      /\ chain[1] = t0 /\ EndOf(chain) = 2
    BY <1>1 DEF Init, t0, EndOf
<1>3. TypeOK
    <2>1. chain \in Seq(TRIType)
        BY <1>1, <1>2
    <2>2. /\ currentTid = 2 /\ data = [o \in Oid |-> 1]
          /\ hist = {<<o, 1>> : o \in Oid} /\ hvt = [c \in Conn |-> 2]
          /\ changes = [c \in Conn |-> [o \in Oid |-> 0]]
          /\ cached = {} /\ failed = FALSE
        BY DEF Init, NoChanges
    <2>5. /\ currentTid \in 2..MaxTid
          /\ data \in [Oid -> 1..MaxTid]
          /\ hist \subseteq Oid \X (1..MaxTid)
          /\ hvt \in [Conn -> 2..MaxTid]
          /\ changes \in [Conn -> [Oid -> 0..MaxTid]]
          /\ cached \subseteq Oid \X (1..MaxTid)
          /\ failed \in BOOLEAN
        <3>1. currentTid \in 2..MaxTid /\ data \in [Oid -> 1..MaxTid]
            BY <2>2
        <3>2. hist \subseteq Oid \X (1..MaxTid)
            BY <2>2
        <3>3. hvt \in [Conn -> 2..MaxTid] /\ changes \in [Conn -> [Oid -> 0..MaxTid]]
            BY <2>2
        <3>4. cached \subseteq Oid \X (1..MaxTid) /\ failed \in BOOLEAN
            BY <2>2
        <3>5. QED
            BY <3>1, <3>2, <3>3, <3>4
    <2>3. result \in {<<>>} \cup (Oid \X (1..MaxTid))
        BY Zenon DEF Init
    <2>4. QED
        BY <2>1, <2>5, <2>3 DEF TypeOK
<1>4. DataLatest /\ BelowCurrent /\ ChangesSound
    BY <1>1, <1>2 DEF Init, DataLatest, BelowCurrent, ChangesSound, NoChanges
<1>5. ChainWF(chain, hist)
    <2>1. \A u \in 2..EndOf(chain) :
             \E k \in DOMAIN chain : chain[k].cs < u /\ u <= chain[k].hvt
        BY <1>1, <1>2
    <2>2. \A o \in Oid, j \in DOMAIN chain : Knowing(chain, o, chain[j].hvt) = {}
        BY <1>1, <1>2 DEF Knowing
    <2>3. \A i \in DOMAIN chain, o \in Oid :
             /\ chain[i].data[o] # 0 => <<o, chain[i].data[o]>> \in hist
             /\ \A x \in hist : x[1] = o /\ chain[i].cs < x[2] /\ x[2] <= chain[i].hvt
                                 => x[2] <= chain[i].data[o]
        BY <1>1, <1>2 DEF Init
    <2>4. QED
        BY <1>1, <1>2, <2>1, <2>2, <2>3 DEF ChainWF, TRIValid
<1>6. SnapshotsOnChain /\ ClipNeverFails
    BY <1>1, <1>2 DEF Init, SnapshotsOnChain, ReadsCurrent, ClipNeverFails
<1>7. QED
    BY <1>3, <1>4, <1>5, <1>6 DEF IInv

LEMMA NextIInv ==
    ASSUME IInv, [Next]_vars
    PROVE  IInv'
<1>1. CASE UNCHANGED vars
    <2>1. /\ currentTid' = currentTid /\ data' = data /\ hist' = hist
          /\ hvt' = hvt /\ changes' = changes /\ chain' = chain
          /\ cached' = cached /\ result' = result /\ failed' = failed
        BY <1>1 DEF vars
    <2>2. TypeOK'
        BY <2>1 DEF IInv, TypeOK
    <2>3. (DataLatest /\ BelowCurrent /\ ChangesSound)'
        BY <2>1 DEF IInv, DataLatest, BelowCurrent, ChangesSound
    <2>4. ChainWF(chain, hist)'
        BY <2>1 DEF IInv
    <2>5. (SnapshotsOnChain /\ ClipNeverFails)'
        BY <2>1 DEF IInv, SnapshotsOnChain, ReadsCurrent, ClipNeverFails
    <2>6. QED
        BY <2>2, <2>3, <2>4, <2>5 DEF IInv
<1>2. CASE Next
    BY <1>2, ReadIInv, WriteIInv DEF Next
<1>3. QED
    BY <1>1, <1>2

\* The inductive invariant holds in every state the benchmark driver and
\* the coordinator reach.
THEOREM SpecIInv == Spec => []IInv
BY InitIInv, NextIInv, PTL DEF Spec

(***************************************************************************)
(* The properties the runs check, for every value of the constants.        *)
(***************************************************************************)
\* Every state the benchmark driver reaches is well typed: tids stay within
\* current_tid_int's range and every TRI the coordinator appends is a TRI.
THEOREM TypeCorrect == Spec => []TypeOK
<1>1. IInv => TypeOK
    BY DEF IInv
<1>2. QED
    BY <1>1, SpecIInv, PTL

LEMMA IInvChangesComplete ==
    ASSUME IInv
    PROVE  ChangesComplete
<1> SUFFICES ASSUME NEW c \in Conn, NEW o \in Oid, changes[c][o] = 0
             PROVE  Latest(o, hvt[c]) = data[o]
    BY DEF ChangesComplete
<1>1. <<o, data[o]>> \in hist /\ hvt[c] \in Nat /\ data[o] \in Nat
    BY DEF IInv, DataLatest, TypeOK
<1>2. data[o] <= hvt[c]
    BY <1>1 DEF IInv, ChangesSound
<1>3. LatestOf(hist, o, hvt[c]) = data[o]
    BY <1>1, <1>2, DataIsLatest DEF IInv
<1>4. QED
    BY <1>3 DEF Latest, LatestOf

\* In either poll mode, the driver's bm_changes is complete: an oid with no
\* change recorded for a connection is unwritten since that connection's
\* snapshot, so skipping the poll before reading it loses nothing.
THEOREM ChangesAlwaysComplete == Spec => []ChangesComplete
BY IInvChangesComplete, SpecIInv, PTL

LEMMA IInvSnapshotVisible ==
    ASSUME IInv
    PROVE  SnapshotVisible
<1> SUFFICES ASSUME NEW c \in Conn, NEW o \in Oid
             PROVE  VisibleTid(chain, o, hvt[c]) \in {0, Latest(o, hvt[c])}
    BY DEF SnapshotVisible
<1>1. PICK i \in DOMAIN chain : chain[i].hvt = hvt[c]
    BY DEF IInv, SnapshotsOnChain
<1>2. hist \in SUBSET (Oid \X Nat) /\ chain \in Seq(TRIType)
    BY DEF IInv, TypeOK
<1>3. VisibleTid(chain, o, chain[i].hvt) \in {0, LatestOf(hist, o, chain[i].hvt)}
    BY <1>2, ChainVisible DEF IInv
<1>4. QED
    BY <1>1, <1>3 DEF Latest, LatestOf

\* In either poll mode, visible_tid never names a stale revision: the tid
\* it gives any connection for any oid is 0 or the newest revision that
\* connection's snapshot sees.  A strict poll that raises NonContiguous
\* stops the driver before bm_current_tid moves past the chain's end.
THEOREM SnapshotAlwaysVisible == Spec => []SnapshotVisible
BY IInvSnapshotVisible, SpecIInv, PTL

\* In either poll mode, every load returns the state the adapter holds now:
\* neither the poll-on-change rule, the TRI lookup nor the cache's
\* (oid, tid) keys let a connection read an outdated revision.
THEOREM ReadsAlwaysCurrent == Spec => []ReadsCurrent
<1>1. IInv => ReadsCurrent
    BY DEF IInv, SnapshotsOnChain
<1>2. QED
    BY <1>1, SpecIInv, PTL
=============================================================================
