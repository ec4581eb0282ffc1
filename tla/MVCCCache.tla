------------------------------ MODULE MVCCCache ------------------------------
(***************************************************************************)
(* The storage cache's MVCC layer as the cache benchmark drives it         *)
(* (relstorage/cache/tests/benchmarks.py, _simulate_storage): one          *)
(* StorageCache per connection over a shared local client and a shared     *)
(* coordinator that keeps a chain of transaction range indexes (TRIs).     *)
(*                                                                         *)
(* A revision is named by its tid: the driver writes a fresh state under   *)
(* every new tid, so the state adds nothing a property can tell apart.     *)
(* Each step is one record of the trace, with the poll it may trigger.     *)
(***************************************************************************)
EXTENDS Naturals, Sequences

CONSTANTS
    Conn,       \* connections (the trace's ASUs)
    Oid,        \* object ids
    MaxTid,     \* bound on current_tid_int
    TxnSize,    \* TRANSACTION_SIZE: records between forced polls
    PollMode    \* how poll extends the chain: "clip" or "strict" (see Poll)

ASSUME MVCCAssumption ==
    /\ MaxTid \in Nat /\ MaxTid >= 2
    /\ TxnSize \in Nat \ {0}
    /\ PollMode \in {"clip", "strict"}

VARIABLES
    currentTid, \* current_tid_int: the last committed tid
    data,       \* adapter.mover.data: oid -> tid of its current state
    hist,       \* every (oid, tid) revision ever committed
    hvt,        \* hvt[c]: c's highest visible tid (= its bm_current_tid)
    changes,    \* changes[c][o]: bm_changes, the last tid written since c polled
    chain,      \* the coordinator's TRIs, oldest first
    cached,     \* keys (oid, tid) held by the shared local client
    result,     \* <<oid, tid>> the last record's load returned, <<>> after a write
    failed      \* a poll raised NonContiguous

vars == <<currentTid, data, hist, hvt, changes, chain, cached, result, failed>>

NoChanges == [o \in Oid |-> 0]

\* A TRI: complete_since_tid, highest_visible_tid, and oid -> tid (0: none).
TRI(cs, h, d) == [cs |-> cs, hvt |-> h, data |-> d]

\* The fields of a TRI, with their ranges.
TRIType == [cs : 0..MaxTid, hvt : 0..MaxTid, data : [Oid -> 0..MaxTid]]

\* The _TransactionRangeObjectIndex constructor's assertions.
TRIValid(t) ==
    /\ t.cs < t.hvt
    /\ \A o \in Oid : t.data[o] # 0 => t.cs < t.data[o] /\ t.data[o] <= t.hvt

\* The last tid a chain of TRIs covers.
EndOf(ch) == ch[Len(ch)].hvt

\* The newest committed revision of o at or below h: what a snapshot at h sees.
Latest(o, h) ==
    LET ts == {k[2] : k \in {x \in hist : x[1] = o /\ x[2] <= h}}
    IN  CHOOSE t \in ts : \A u \in ts : u <= t

-----------------------------------------------------------------------------
(* The coordinator, over the state it is given (st.chain, st.cached).      *)

\* The indexes of the TRIs of chain ch visible at h that know o.
Knowing(ch, o, h) == {i \in DOMAIN ch : ch[i].hvt <= h /\ ch[i].data[o] # 0}

\* Mutant: the scan stops at the oldest TRI that knows o.
VisibleTidOldest(ch, o, h) ==
    IF Knowing(ch, o, h) = {} THEN 0
    ELSE ch[CHOOSE i \in Knowing(ch, o, h) :
              \A j \in Knowing(ch, o, h) : i <= j].data[o]

\* visible_tid: scanning from the newest TRI within h, the first that knows
\* o, or 0 (None: the caller falls back to load_current).
VisibleTid(ch, o, h) ==
    IF Knowing(ch, o, h) = {} THEN 0
    ELSE ch[CHOOSE i \in Knowing(ch, o, h) :
              \A j \in Knowing(ch, o, h) : j <= i].data[o]

\* Poll drops the cached revisions of changed oids that are not the newest.
Invalidate(st, chg) ==
    st.cached \ {k \in st.cached : chg[k[1]] # 0 /\ k[2] # chg[k[1]]}

\* after_poll(prior_tid = since, new_tid = until, changes) on the shared
\* coordinator: invalidate, then extend the TRI chain.  Connections poll
\* with their own prior tids, so since may lie below the chain's end.
\* "strict" reads extend_with literally (it raises NonContiguous); "clip"
\* extends the chain by the part of the range it does not cover yet.
Poll(st, since, until, chg) ==
    LET end == EndOf(st.chain) IN
    IF until <= end
    THEN [st EXCEPT !.cached = Invalidate(st, chg)]
    ELSE IF since = end \/ PollMode = "clip"
    THEN [st EXCEPT !.cached = Invalidate(st, chg),
                    !.chain = Append(@, TRI(end, until,
                        [o \in Oid |-> IF chg[o] > end THEN chg[o] ELSE 0]))]
    ELSE [st EXCEPT !.cached = Invalidate(st, chg), !.failed = TRUE]

-----------------------------------------------------------------------------
\* The driver's set-up: every object at tid 1, the root cache polled to 2,
\* each connection's cache polled from 0 to 2 with no changes.
Init ==
    /\ currentTid = 2
    /\ data = [o \in Oid |-> 1]
    /\ hist = {<<o, 1>> : o \in Oid}
    /\ hvt = [c \in Conn |-> 2]
    /\ changes = [c \in Conn |-> NoChanges]
    /\ chain = << TRI(1, 2, NoChanges) >>
    /\ cached = {}
    /\ result = <<>>
    /\ failed = FALSE

\* Mutant: the driver polls only every TRANSACTION_SIZE commits.
NeedsPollCountOnly(c, o) == currentTid - hvt[c] >= TxnSize

\* Poll after TRANSACTION_SIZE commits, or before touching an oid another
\* record changed since this connection last polled.
NeedsPoll(c, o) == currentTid - hvt[c] >= TxnSize \/ changes[c][o] # 0

\* The coordinator and client state after the record's poll, if any.
Polled(c, o) ==
    LET st == [chain |-> chain, cached |-> cached, failed |-> failed] IN
    IF NeedsPoll(c, o) THEN Poll(st, hvt[c], currentTid, changes[c]) ELSE st

\* Mutant: bm_current_tid is set one past the tid polled.
PolledHvtNext(c, o) == IF NeedsPoll(c, o) THEN currentTid + 1 ELSE hvt[c]

\* The connection's bookkeeping after the poll: bm_current_tid moves to the
\* current tid and bm_changes is cleared.
PolledHvt(c, o) == IF NeedsPoll(c, o) THEN currentTid ELSE hvt[c]
PolledChanges(c, o) == IF NeedsPoll(c, o) THEN NoChanges ELSE changes[c]

\* The record's poll raised: the exception leaves _simulate_storage, so the
\* record's load or write and the bm_current_tid/bm_changes updates after
\* after_poll never run; only the invalidation done before the raise stays.
PollRaised(st) ==
    /\ failed' = TRUE
    /\ cached' = st.cached
    /\ UNCHANGED <<currentTid, data, hist, hvt, changes, chain, result>>

\* A read record: cache.load(None, oid).  A known visible tid is looked up
\* in the local client; a miss, or an unknown tid, loads the current state
\* from the adapter and caches it under its tid.
Read(c, o) ==
    LET st == Polled(c, o)
        t == VisibleTid(st.chain, o, PolledHvt(c, o))
        hit == t # 0 /\ <<o, t>> \in st.cached
    IN
    /\ ~failed
    /\ IF st.failed THEN PollRaised(st)
       ELSE /\ result' = IF hit THEN <<o, t>> ELSE <<o, data[o]>>
            /\ cached' = IF hit THEN st.cached
                         ELSE st.cached \cup {<<o, data[o]>>}
            /\ chain' = st.chain
            /\ hvt' = [hvt EXCEPT ![c] = PolledHvt(c, o)]
            /\ changes' = [changes EXCEPT ![c] = PolledChanges(c, o)]
            /\ UNCHANGED <<currentTid, data, hist, failed>>

\* Mutant: the writer does not note its own change in its bm_changes.
WriteOthersOnly(c, o) ==
    LET st == Polled(c, o)
        new == currentTid + 1
    IN
    /\ ~failed
    /\ currentTid < MaxTid
    /\ IF st.failed THEN PollRaised(st)
       ELSE /\ currentTid' = new
            /\ data' = [data EXCEPT ![o] = new]
            /\ hist' = hist \cup {<<o, new>>}
            /\ cached' = st.cached \cup {<<o, new>>}
            /\ chain' = st.chain
            /\ hvt' = [hvt EXCEPT ![c] = PolledHvt(c, o)]
            /\ changes' = [d \in Conn |->
                             IF d = c THEN PolledChanges(c, o)
                             ELSE [changes[d] EXCEPT ![o] = new]]
            /\ result' = <<>>
            /\ UNCHANGED failed

\* A write record: a new tid; tpc_begin, store_temp, the adapter's data
\* moves to the new state, after_tpc_finish caches it under the new tid,
\* and every connection's bm_changes records the oid.
Write(c, o) ==
    LET st == Polled(c, o)
        new == currentTid + 1
    IN
    /\ ~failed
    /\ currentTid < MaxTid
    /\ IF st.failed THEN PollRaised(st)
       ELSE /\ currentTid' = new
            /\ data' = [data EXCEPT ![o] = new]
            /\ hist' = hist \cup {<<o, new>>}
            /\ cached' = st.cached \cup {<<o, new>>}
            /\ chain' = st.chain
            /\ hvt' = [hvt EXCEPT ![c] = PolledHvt(c, o)]
            /\ changes' = [d \in Conn |->
                             [IF d = c THEN PolledChanges(c, o) ELSE changes[d]
                              EXCEPT ![o] = new]]
            /\ result' = <<>>
            /\ UNCHANGED failed

Next == \E c \in Conn, o \in Oid : Read(c, o) \/ Write(c, o)

Spec == Init /\ [][Next]_vars

-----------------------------------------------------------------------------
(* Properties.                                                             *)

TypeOK ==
    /\ currentTid \in 2..MaxTid
    /\ data \in [Oid -> 1..MaxTid]
    /\ hist \subseteq Oid \X (1..MaxTid)
    /\ hvt \in [Conn -> 2..MaxTid]
    /\ changes \in [Conn -> [Oid -> 0..MaxTid]]
    /\ chain \in Seq(TRIType)
    /\ cached \subseteq Oid \X (1..MaxTid)
    /\ result \in {<<>>} \cup (Oid \X (1..MaxTid))
    /\ failed \in BOOLEAN

\* The coordinator never names a stale revision: the tid visible_tid gives
\* a connection for an oid is the newest revision its snapshot (hvt) sees.
SnapshotVisible ==
    \A c \in Conn, o \in Oid :
        VisibleTid(chain, o, hvt[c]) \in {0, Latest(o, hvt[c])}

\* The driver's bm_changes is complete: an oid with no change recorded for
\* a connection has not been written since that connection's snapshot.
ChangesComplete ==
    \A c \in Conn, o \in Oid : changes[c][o] = 0 => Latest(o, hvt[c]) = data[o]

\* Every load returns the state the adapter holds now: the poll before a
\* changed oid, TRI lookup and the cache's (oid, tid) keys never serve an
\* outdated revision.
ReadsCurrent == result # <<>> => result[2] = data[result[1]]

\* Spec 4.6: poll extends the chain; extend_with raises NonContiguous unless
\* the new TRI starts where the chain ends.  The driver's polls never fail.
PollNeverFails == ~failed
=============================================================================
