------------------------- MODULE HistoryStoreProofs -------------------------
(***************************************************************************)
(* Proofs about HistoryStore for every value of its constants.             *)
(***************************************************************************)
EXTENDS HistoryStore, TLAPS

USE ConstAssumption

(***************************************************************************)
(* Type correctness: every action keeps the tables within their row types  *)
(* and the tids within 0..MaxTid.                                          *)
(***************************************************************************)
(* A copy's rows take the tid its tpc_begin recorded, a tid of Tid; that  *)
(* fact comes from the inductive invariant below (MovedRowsSound).         *)
LEMMA NextTypeOK ==
    ASSUME TypeOK, [Next]_vars,
           \A c \in Conn : phase[c] = "restoring" => txnTid[c] \in Tid
    PROVE  TypeOK'
<1>1. ASSUME NEW c \in Conn, OnStoreOpened(c) PROVE TypeOK'
    BY <1>1 DEF OnStoreOpened, TypeOK, Phases
<1>2. ASSUME NEW c \in Conn, NEW o \in Oid, Load(c, o) PROVE TypeOK'
    BY <1>2 DEF Load, TypeOK
<1>3. ASSUME NEW c \in Conn, NEW o \in Oid, NEW v \in Val, StoreTemp(c, o, v)
      PROVE TypeOK'
    BY <1>3 DEF StoreTemp, TypeOK, TempRow
<1>4. ASSUME NEW c \in Conn, AcquireCommitLock(c) PROVE TypeOK'
    BY <1>4 DEF AcquireCommitLock, TypeOK, Phases
<1>5. ASSUME NEW c \in Conn, NEW o \in Oid, NEW v \in Val,
             ResolveConflict(c, o, v)
      PROVE TypeOK'
    BY <1>5 DEF ResolveConflict, Conflicts, TypeOK, TempRow
<1>6. ASSUME NEW c \in Conn, MoveFromTemp(c) PROVE TypeOK'
    BY <1>6 DEF MoveFromTemp, TypeOK, TempRow, ObjRow, Tid, TidOrNone, Phases
<1>7. ASSUME NEW c \in Conn, UpdateCurrent(c) PROVE TypeOK'
    <2>1. phase' \in [Conn -> Phases]
        BY <1>7 DEF UpdateCurrent, UpdateCurrentReplace,
                    UpdateCurrentInsertUpdate, TypeOK, Phases
    <2>2. pending' \in [Conn -> [Oid -> TidOrNone]]
        <3>1. txnTid[c] \in TidOrNone /\ 0 \in TidOrNone
            BY DEF TypeOK, TidOrNone
        <3>2. CASE Flavour = "mysql"
            <4>1. UpdateCurrentReplace(c)
                BY <1>7, <3>2 DEF UpdateCurrent
            <4>2. QED BY <3>1, <4>1 DEF UpdateCurrentReplace, TypeOK
        <3>3. CASE Flavour # "mysql"
            <4>1. UpdateCurrentInsertUpdate(c)
                BY <1>7, <3>3 DEF UpdateCurrent
            <4>2. CASE \E o \in NewOids(c) : current[o] # 0
                BY <4>1, <4>2 DEF UpdateCurrentInsertUpdate, TypeOK
            <4>3. CASE ~\E o \in NewOids(c) : current[o] # 0
                <5> DEFINE F == [o \in Oid |-> IF o \in NewOids(c)
                                      \/ (o \in OldOids(c) /\ current[o] # 0)
                                   THEN txnTid[c] ELSE 0]
                <5>1. pending' = [pending EXCEPT ![c] = F]
                    BY <4>1, <4>3 DEF UpdateCurrentInsertUpdate
                <5>2. F \in [Oid -> TidOrNone]
                    BY <3>1
                <5>3. QED BY <5>1, <5>2 DEF TypeOK
            <4>4. QED BY <4>2, <4>3
        <3>4. QED BY <3>2, <3>3
    <2>3. QED BY <1>7, <2>1, <2>2 DEF UpdateCurrent, TypeOK
<1>8. ASSUME NEW c \in Conn, TpcFinish(c) PROVE TypeOK'
    BY <1>8 DEF TpcFinish, TypeOK, Phases, TidOrNone
<1>9. ASSUME NEW c \in Conn, TpcAbort(c) PROVE TypeOK'
    BY <1>9 DEF TpcAbort, TypeOK, Phases, TidOrNone
<1>10. CASE UNCHANGED vars
    BY <1>10 DEF vars, TypeOK
<1>11. ASSUME NEW c \in Conn, NEW t \in Tid, BeginRestore(c, t) PROVE TypeOK'
    BY <1>11 DEF BeginRestore, TypeOK, Phases, Tid, TidOrNone
<1>12. ASSUME NEW c \in Conn, NEW o \in Oid, NEW v \in Val, Restore(c, o, v)
       PROVE TypeOK'
    BY <1>12 DEF Restore, TypeOK, ObjRow, TidOrNone
<1>13. QED BY <1>1, <1>2, <1>3, <1>4, <1>5, <1>6, <1>7, <1>8, <1>9, <1>10,
              <1>11, <1>12 DEF Next

(***************************************************************************)
(* The inductive invariant behind HistoryChain and CurrentIsLatest.        *)
(* A revision's prev_tid is fixed long before it is committed: it is the   *)
(* serial a connection loaded, copied into temp_store, checked by          *)
(* detect_conflict and copied again by move_from_temp.  So the invariant   *)
(* follows that value through every stage: serials and temp_store rows     *)
(* name revisions that exist, the rows a vote moved name the current tid   *)
(* and carry the newest tid, and only the lock holder is past its vote.    *)
(***************************************************************************)

\* Each zoid has at most one row (temp_store's unique index, one revision of
\* an object per transaction).
UniqueZoids(rows) == \A r, s \in rows : r.zoid = s.zoid => r = s

\* prev_tid links each revision to the one before it, in quantifier form.
ChainLinks ==
    \A r \in objState :
        /\ r.prev < r.tid
        /\ r.prev # 0 => \E s \in Revisions(r.zoid) : s.tid = r.prev
        /\ \A s \in Revisions(r.zoid) : ~(r.prev < s.tid /\ s.tid < r.tid)

\* No committed revision is newer than the last tid allocated.
RowTidsBelow == \A r \in objState : r.tid <= lastTid

\* Only the holder of the commit lock is past the start of its vote.
LockHeld ==
    \A c \in Conn : phase[c] \in {"restoring", "voting", "moved", "updated", "failed"}
                    => lock = c

\* After move_from_temp the moved rows carry the newest tid, one per zoid,
\* and each names the current revision of its object as prev_tid.
MovedRowsSound ==
    \A c \in Conn : phase[c] \in {"restoring", "moved", "updated"} =>
        /\ txnTid[c] = lastTid
        /\ lastTid \in Tid
        /\ \A r \in objState : r.tid < lastTid
        /\ \A r \in moved[c] : r.tid = lastTid /\ r.prev = current[r.zoid]
        /\ UniqueZoids(moved[c])

\* After update_current the transaction points every object it wrote at its tid.
PendingSound ==
    \A c \in Conn : phase[c] = "updated" =>
        pending[c] = [o \in Oid |-> IF o \in {r.zoid : r \in moved[c]}
                                    THEN txnTid[c] ELSE 0]

\* A connection has uncommitted rows only while it holds the commit lock.
OwnWritesLocked ==
    \A c \in Conn : lock # c =>
        moved[c] = {} /\ pending[c] = [o \in Oid |-> 0]

\* Every serial a connection holds is the tid of a committed revision.
SerialsExist ==
    \A c \in Conn, o \in Oid :
        read[c][o] # 0 => \E s \in Revisions(o) : s.tid = read[c][o]

\* temp_store rows are one per zoid and name committed revisions.
TempRowsSound ==
    \A c \in Conn :
        /\ UniqueZoids(temp[c])
        /\ \A r \in temp[c] : r.prev # 0 =>
                \E s \in Revisions(r.zoid) : s.tid = r.prev

IInv ==
    /\ TypeOK
    /\ CurrentIsLatest
    /\ ChainLinks
    /\ RowTidsBelow
    /\ LockHeld
    /\ MovedRowsSound
    /\ PendingSound
    /\ OwnWritesLocked
    /\ SerialsExist
    /\ TempRowsSound
    /\ VoteNeverFails

LEMMA InitIInv == Init => IInv
BY DEF Init, IInv, TypeOK, TidOrNone, Phases, CurrentIsLatest, Revisions,
       LoadCurrent, ChainLinks, RowTidsBelow, LockHeld, MovedRowsSound,
       PendingSound, OwnWritesLocked, SerialsExist, TempRowsSound,
       VoteNeverFails, UniqueZoids

(* ChainLinks is HistoryChain without the CHOOSE of load_before: the       *)
(* revision that prev_tid names is the newest one below the row's tid.     *)
LEMMA ChainLinksHistory == TypeOK /\ ChainLinks => HistoryChain
<1> SUFFICES ASSUME TypeOK, ChainLinks, NEW r \in objState
             PROVE  r.prev = LoadBeforeTid(r.zoid, r.tid)
    BY DEF HistoryChain
<1> DEFINE earlier == {s \in Revisions(r.zoid) : s.tid < r.tid}
<1>1. r \in ObjRow /\ objState \subseteq ObjRow
    BY DEF TypeOK
<1>2. \A s \in earlier : s.tid <= r.prev
    BY <1>1 DEF ChainLinks, Revisions, ObjRow, Tid, TidOrNone
<1>3. CASE r.prev = 0
    <2>1. earlier = {}
        BY <1>1, <1>2, <1>3 DEF Revisions, ObjRow, Tid
    <2>2. QED BY <1>3, <2>1 DEF LoadBeforeTid
<1>4. CASE r.prev # 0
    <2>1. PICK w \in Revisions(r.zoid) : w.tid = r.prev
        BY <1>4 DEF ChainLinks
    <2>2. w \in earlier
        BY <1>1, <2>1 DEF ChainLinks, Revisions
    <2>3. \E m \in earlier : \A s \in earlier : s.tid <= m.tid
        BY <1>2, <2>1, <2>2
    <2>4. LET m == CHOOSE m \in earlier : \A s \in earlier : s.tid <= m.tid
          IN  m.tid = r.prev
        BY <1>1, <1>2, <2>2, <2>1, <2>3 DEF ChainLinks, Revisions, ObjRow, Tid, TidOrNone
    <2>5. QED BY <2>2, <2>4 DEF LoadBeforeTid
<1>5. QED BY <1>3, <1>4

(* The conjuncts of IInv over the committed tables only.                   *)
CommittedInv == CurrentIsLatest /\ ChainLinks /\ RowTidsBelow /\ SerialsExist

(* A step that leaves the committed tables and the serials alone keeps     *)
(* the invariants about them.                                              *)
LEMMA CommittedUnchanged ==
    ASSUME CommittedInv,
           UNCHANGED <<objState, current, lastTid, read>>
    PROVE  CommittedInv'
BY DEF CommittedInv, CurrentIsLatest, ChainLinks, RowTidsBelow, SerialsExist,
       Revisions, LoadCurrent

LEMMA OnStoreOpenedIInv ==
    ASSUME IInv, TypeOK', NEW c \in Conn, OnStoreOpened(c)
    PROVE  IInv'
<1>1. CommittedInv'
    BY CommittedUnchanged DEF IInv, CommittedInv, OnStoreOpened
<1>2. LockHeld'
    BY DEF IInv, LockHeld, OnStoreOpened, TypeOK
<1>3. MovedRowsSound' /\ PendingSound'
    BY DEF IInv, MovedRowsSound, PendingSound, OnStoreOpened, TypeOK
<1>4. TempRowsSound'
    BY DEF IInv, TempRowsSound, OnStoreOpened, TypeOK, UniqueZoids, Revisions
<1>5. VoteNeverFails'
    BY DEF IInv, VoteNeverFails, OnStoreOpened, TypeOK
<1>20. OwnWritesLocked'
    BY ConstAssumption DEF IInv, OwnWritesLocked, OnStoreOpened, TypeOK
<1>6. QED BY <1>20, <1>1, <1>2, <1>3, <1>4, <1>5 DEF IInv, CommittedInv

LEMMA LoadIInv ==
    ASSUME IInv, TypeOK', NEW c \in Conn, NEW o \in Oid, Load(c, o)
    PROVE  IInv'
<1>1. CurrentIsLatest' /\ ChainLinks' /\ RowTidsBelow'
    BY DEF IInv, Load, CurrentIsLatest, ChainLinks, RowTidsBelow, Revisions,
           LoadCurrent
<1>2. SerialsExist'
    <2> SUFFICES ASSUME NEW d \in Conn, NEW p \in Oid, read'[d][p] # 0
                 PROVE  \E s \in Revisions(p)' : s.tid = read'[d][p]
        BY DEF SerialsExist
    <2>1. CASE d = c /\ p = o
        <3>1. read'[d][p] = current[o]
            BY <2>1 DEF Load, IInv, TypeOK
        <3>2. LoadCurrent(o) # {}
            BY <3>1 DEF IInv, CurrentIsLatest
        <3>3. QED BY <2>1, <3>1, <3>2 DEF Load, LoadCurrent, Revisions
    <2>2. CASE ~(d = c /\ p = o)
        BY <2>2 DEF Load, IInv, TypeOK, SerialsExist, Revisions
    <2>3. QED BY <2>1, <2>2
<1>3. LockHeld' /\ MovedRowsSound' /\ PendingSound' /\ TempRowsSound'
      /\ VoteNeverFails'
    BY DEF IInv, Load, LockHeld, MovedRowsSound, PendingSound, TempRowsSound,
           VoteNeverFails, Revisions, UniqueZoids
<1>20. OwnWritesLocked'
    BY ConstAssumption DEF IInv, OwnWritesLocked, Load, TypeOK
<1>4. QED BY <1>20, <1>1, <1>2, <1>3 DEF IInv

LEMMA StoreTempIInv ==
    ASSUME IInv, TypeOK', NEW c \in Conn, NEW o \in Oid, NEW v \in Val,
           StoreTemp(c, o, v)
    PROVE  IInv'
<1> DEFINE new == [zoid |-> o, prev |-> read[c][o], state |-> v]
<1>1. CommittedInv'
    BY CommittedUnchanged DEF IInv, CommittedInv, StoreTemp
<1>2. TempRowsSound'
    <2> SUFFICES ASSUME NEW d \in Conn
                 PROVE  /\ UniqueZoids(temp'[d])
                        /\ \A r \in temp'[d] : r.prev # 0 =>
                              \E s \in Revisions(r.zoid)' : s.tid = r.prev
        BY DEF TempRowsSound
    <2>1. CASE d = c
        <3>1. temp'[d] = {r \in temp[c] : r.zoid # o} \cup {new}
            BY <2>1 DEF StoreTemp, IInv, TypeOK
        <3>2. UniqueZoids(temp'[d])
            BY <3>1 DEF IInv, TempRowsSound, UniqueZoids
        <3>3. new.prev # 0 => \E s \in Revisions(o) : s.tid = new.prev
            BY DEF IInv, SerialsExist
        <3>4. QED BY <3>1, <3>2, <3>3 DEF IInv, TempRowsSound, StoreTemp, Revisions
    <2>2. CASE d # c
        BY <2>2 DEF StoreTemp, IInv, TypeOK, TempRowsSound, Revisions
    <2>3. QED BY <2>1, <2>2
<1>3. LockHeld' /\ MovedRowsSound' /\ PendingSound' /\ VoteNeverFails'
    BY DEF IInv, StoreTemp, LockHeld, MovedRowsSound, PendingSound,
           VoteNeverFails, UniqueZoids
<1>20. OwnWritesLocked'
    BY ConstAssumption DEF IInv, OwnWritesLocked, StoreTemp, TypeOK
<1>4. QED BY <1>20, <1>1, <1>2, <1>3 DEF IInv, CommittedInv

LEMMA AcquireCommitLockIInv ==
    ASSUME IInv, TypeOK', NEW c \in Conn, AcquireCommitLock(c)
    PROVE  IInv'
<1>1. CommittedInv'
    BY CommittedUnchanged DEF IInv, CommittedInv, AcquireCommitLock
<1>2. LockHeld'
    BY ConstAssumption DEF IInv, LockHeld, AcquireCommitLock, TypeOK
<1>3. MovedRowsSound' /\ PendingSound'
    BY ConstAssumption DEF IInv, LockHeld, MovedRowsSound, PendingSound,
                           AcquireCommitLock, TypeOK
<1>4. TempRowsSound' /\ VoteNeverFails'
    BY DEF IInv, TempRowsSound, VoteNeverFails, AcquireCommitLock, TypeOK,
           Revisions
<1>20. OwnWritesLocked'
    BY ConstAssumption DEF IInv, OwnWritesLocked, AcquireCommitLock, TypeOK
<1>5. QED BY <1>20, <1>1, <1>2, <1>3, <1>4 DEF IInv, CommittedInv

LEMMA ResolveConflictIInv ==
    ASSUME IInv, TypeOK', NEW c \in Conn, NEW o \in Oid, NEW v \in Val,
           ResolveConflict(c, o, v)
    PROVE  IInv'
<1> DEFINE new == [zoid |-> o, prev |-> current[o], state |-> v]
<1>1. CommittedInv'
    BY CommittedUnchanged DEF IInv, CommittedInv, ResolveConflict
<1>2. PICK r \in Conflicts(c) :
          /\ r.zoid = o
          /\ temp' = [temp EXCEPT ![c] = (temp[c] \ {r}) \cup {new}]
    BY DEF ResolveConflict
<1>3. r \in temp[c] /\ current[o] # 0
    BY <1>2 DEF Conflicts
<1>4. \E s \in Revisions(o) : s.tid = current[o]
    BY <1>3 DEF IInv, CurrentIsLatest, LoadCurrent
<1>5. TempRowsSound'
    <2> SUFFICES ASSUME NEW d \in Conn
                 PROVE  /\ UniqueZoids(temp'[d])
                        /\ \A x \in temp'[d] : x.prev # 0 =>
                              \E s \in Revisions(x.zoid)' : s.tid = x.prev
        BY DEF TempRowsSound
    <2>1. CASE d = c
        <3>1. temp'[d] = (temp[c] \ {r}) \cup {new}
            BY <1>2, <2>1 DEF IInv, TypeOK
        <3>2. \A x \in temp[c] \ {r} : x.zoid # o
            BY <1>2, <1>3 DEF IInv, TempRowsSound, UniqueZoids
        <3>3. UniqueZoids(temp'[d])
            BY <3>1, <3>2 DEF IInv, TempRowsSound, UniqueZoids
        <3>4. QED BY <3>1, <3>3, <1>4 DEF IInv, TempRowsSound, ResolveConflict,
                                         Revisions
    <2>2. CASE d # c
        BY <1>2, <2>2 DEF ResolveConflict, IInv, TypeOK, TempRowsSound, Revisions
    <2>3. QED BY <2>1, <2>2
<1>6. LockHeld' /\ MovedRowsSound' /\ PendingSound' /\ VoteNeverFails'
    BY DEF IInv, ResolveConflict, LockHeld, MovedRowsSound, PendingSound,
           VoteNeverFails, UniqueZoids
<1>20. OwnWritesLocked'
    BY ConstAssumption DEF IInv, OwnWritesLocked, ResolveConflict, TypeOK
<1>7. QED BY <1>20, <1>1, <1>5, <1>6 DEF IInv, CommittedInv

(* After its vote a transaction's rows in object_state are exactly the     *)
(* ones it moved: every committed revision is older than its tid.          *)
LEMMA TxnRowsAreMoved ==
    ASSUME IInv, NEW c \in Conn, phase[c] \in {"restoring", "moved", "updated"}
    PROVE  TxnRows(c) = moved[c]
<1>1. /\ \A r \in objState : r.tid < lastTid
      /\ \A r \in moved[c] : r.tid = lastTid
      /\ txnTid[c] = lastTid
    BY DEF IInv, MovedRowsSound
<1>2. \A r \in objState : r.tid # txnTid[c]
    BY <1>1 DEF IInv, TypeOK, ObjRow, Tid, TidOrNone
<1>3. QED BY <1>1, <1>2 DEF TxnRows

(* update_current writes every moved zoid and nothing else, whichever the  *)
(* flavour: a zoid has prev_tid = 0 exactly when it has no current row.    *)
LEMMA UpdateCurrentIInv ==
    ASSUME IInv, TypeOK', NEW c \in Conn, UpdateCurrent(c)
    PROVE  IInv'
<1> DEFINE Z == {r.zoid : r \in moved[c]}
           P == [o \in Oid |-> IF o \in Z THEN txnTid[c] ELSE 0]
<1>1. phase[c] \in {"moved", "restoring"} /\ lock = c
    BY DEF UpdateCurrent
<1>2. TxnRows(c) = moved[c]
    BY <1>1, TxnRowsAreMoved
<1>3. \A r \in moved[c] : r.prev = current[r.zoid]
    BY <1>1 DEF IInv, MovedRowsSound
<1>4. ~ \E o \in NewOids(c) : current[o] # 0
    BY <1>2, <1>3 DEF NewOids
<1>5. NewOids(c) \cup {o \in OldOids(c) : current[o] # 0} = Z
    BY <1>2, <1>3 DEF NewOids, OldOids
<1>6. phase' = [phase EXCEPT ![c] = "updated"] /\ pending' = [pending EXCEPT ![c] = P]
    <2>1. CASE Flavour = "mysql"
        BY <1>2, <2>1 DEF UpdateCurrent, UpdateCurrentReplace
    <2>2. CASE Flavour # "mysql"
        <3>1. UpdateCurrentInsertUpdate(c)
            BY <2>2 DEF UpdateCurrent
        <3>2. pending' = [pending EXCEPT ![c] =
                  [o \in Oid |-> IF o \in NewOids(c)
                                    \/ (o \in OldOids(c) /\ current[o] # 0)
                                 THEN txnTid[c] ELSE 0]]
              /\ phase' = [phase EXCEPT ![c] = "updated"]
            BY <1>4, <3>1 DEF UpdateCurrentInsertUpdate
        <3>3. QED BY <3>2, <1>5
    <2>3. QED BY <2>1, <2>2
<1>7. CommittedInv'
    BY CommittedUnchanged DEF IInv, CommittedInv, UpdateCurrent
<1>8. LockHeld'
    BY <1>1, <1>6 DEF IInv, LockHeld, UpdateCurrent, TypeOK
<1>12. MovedRowsSound'
    BY <1>1, <1>6 DEF IInv, MovedRowsSound, UpdateCurrent, TypeOK
<1>9. PendingSound'
    <2> SUFFICES ASSUME NEW d \in Conn, phase'[d] = "updated"
                 PROVE  pending'[d] = [o \in Oid |->
                            IF o \in {r.zoid : r \in moved'[d]}
                            THEN txnTid'[d] ELSE 0]
        BY DEF PendingSound
    <2>1. CASE d = c
        <3>1. pending'[d] = P
            BY <1>6, <2>1 DEF IInv, TypeOK
        <3>2. moved'[d] = moved[c] /\ txnTid'[d] = txnTid[c]
            BY <2>1 DEF UpdateCurrent
        <3>3. QED BY <3>1, <3>2
    <2>2. CASE d # c
        <3>1. phase[d] = "updated" /\ pending'[d] = pending[d]
            BY <1>6, <2>2 DEF IInv, TypeOK
        <3>2. QED BY <3>1 DEF IInv, PendingSound, UpdateCurrent
    <2>3. QED BY <2>1, <2>2
<1>10. TempRowsSound' /\ VoteNeverFails'
    BY <1>6 DEF IInv, TempRowsSound, VoteNeverFails, UpdateCurrent, TypeOK,
                Revisions
<1>20. OwnWritesLocked'
    BY <1>1, <1>6 DEF IInv, OwnWritesLocked, UpdateCurrent, TypeOK
<1>11. QED BY <1>20, <1>7, <1>8, <1>12, <1>9, <1>10 DEF IInv, CommittedInv

LEMMA TpcAbortIInv ==
    ASSUME IInv, TypeOK', NEW c \in Conn, TpcAbort(c)
    PROVE  IInv'
<1>1. CommittedInv'
    BY CommittedUnchanged DEF IInv, CommittedInv, TpcAbort
<1>2. LockHeld'
    BY DEF IInv, LockHeld, TpcAbort, TypeOK
<1>3. MovedRowsSound' /\ PendingSound'
    BY DEF IInv, MovedRowsSound, PendingSound, TpcAbort, TypeOK
<1>4. TempRowsSound'
    BY DEF IInv, TempRowsSound, TpcAbort, TypeOK, UniqueZoids, Revisions
<1>5. VoteNeverFails'
    BY DEF IInv, VoteNeverFails, TpcAbort, TypeOK
<1>20. OwnWritesLocked'
    BY ConstAssumption DEF IInv, OwnWritesLocked, TpcAbort, TypeOK
<1>6. QED BY <1>20, <1>1, <1>2, <1>3, <1>4, <1>5 DEF IInv, CommittedInv

(* When detect_conflict finds nothing, every temp_store row names the      *)
(* current revision: a prev_tid # 0 names a revision that exists, so the   *)
(* object has a current_object row, and the join then compares the two.    *)
LEMMA NoConflictPrevCurrent ==
    ASSUME IInv, NEW c \in Conn, Conflicts(c) = {}
    PROVE  \A r \in temp[c] : r.prev = current[r.zoid]
<1> SUFFICES ASSUME NEW r \in temp[c] PROVE r.prev = current[r.zoid]
    OBVIOUS
<1>1. r \in TempRow
    BY DEF IInv, TypeOK
<1>2. current[r.zoid] = 0 \/ r.prev = current[r.zoid]
    BY DEF Conflicts
<1>3. CASE current[r.zoid] = 0
    <2>1. Revisions(r.zoid) = {}
        BY <1>1, <1>3 DEF IInv, CurrentIsLatest, TempRow
    <2>2. r.prev = 0
        BY <2>1 DEF IInv, TempRowsSound
    <2>3. QED BY <1>3, <2>2
<1>4. QED BY <1>2, <1>3

LEMMA MoveFromTempIInv ==
    ASSUME IInv, TypeOK', NEW c \in Conn, MoveFromTemp(c)
    PROVE  IInv'
<1>1. /\ phase[c] = "voting" /\ lock = c /\ Conflicts(c) = {}
      /\ lastTid < MaxTid /\ lastTid' = lastTid + 1
    BY DEF MoveFromTemp
<1>2. lastTid \in Nat /\ lastTid' \in Tid
    BY <1>1 DEF IInv, TypeOK, TidOrNone, Tid
<1>3. \A d \in Conn : d # c => phase[d] \notin {"restoring", "voting", "moved", "updated", "failed"}
    BY <1>1 DEF IInv, LockHeld
<1>4. CommittedInv'
    <2>1. CurrentIsLatest' /\ ChainLinks' /\ SerialsExist'
        BY <1>1 DEF IInv, MoveFromTemp, CurrentIsLatest, ChainLinks,
                    SerialsExist, Revisions, LoadCurrent
    <2>2. RowTidsBelow'
        BY <1>1, <1>2 DEF IInv, MoveFromTemp, RowTidsBelow, TypeOK, ObjRow, Tid
    <2>3. QED BY <2>1, <2>2 DEF CommittedInv
<1>5. LockHeld'
    BY <1>1, <1>3 DEF IInv, MoveFromTemp, LockHeld, TypeOK
<1>6. MovedRowsSound'
    <2> SUFFICES ASSUME NEW d \in Conn, phase'[d] \in {"restoring", "moved", "updated"}
                 PROVE  /\ txnTid'[d] = lastTid'
                        /\ lastTid' \in Tid
                        /\ \A r \in objState' : r.tid < lastTid'
                        /\ \A r \in moved'[d] : r.tid = lastTid'
                                                /\ r.prev = current'[r.zoid]
                        /\ UniqueZoids(moved'[d])
        BY DEF MovedRowsSound
    <2>1. d = c
        BY <1>3 DEF MoveFromTemp, IInv, TypeOK
    <2>2. moved'[c] = {[zoid |-> r.zoid, tid |-> lastTid + 1, prev |-> r.prev,
                        state |-> r.state] : r \in temp[c]}
          /\ txnTid'[c] = lastTid + 1
        BY DEF MoveFromTemp, IInv, TypeOK
    <2>3. \A r \in objState' : r.tid < lastTid'
        BY <1>1, <1>2 DEF IInv, MoveFromTemp, RowTidsBelow, TypeOK, ObjRow, Tid
    <2>4. \A r \in moved'[c] : r.prev = current'[r.zoid]
        BY <1>1, <2>2, NoConflictPrevCurrent DEF MoveFromTemp
    <2>5. UniqueZoids(moved'[c])
        BY <2>2 DEF IInv, TempRowsSound, UniqueZoids
    <2>6. QED BY <1>1, <1>2, <2>1, <2>2, <2>3, <2>4, <2>5
<1>7. PendingSound'
    BY <1>3 DEF IInv, MoveFromTemp, PendingSound, TypeOK
<1>8. TempRowsSound' /\ VoteNeverFails'
    BY DEF IInv, MoveFromTemp, TempRowsSound, VoteNeverFails, TypeOK, Revisions
<1>20. OwnWritesLocked'
    BY ConstAssumption DEF IInv, OwnWritesLocked, MoveFromTemp, TypeOK
<1>9. QED BY <1>20, <1>4, <1>5, <1>6, <1>7, <1>8 DEF IInv, CommittedInv

(* tpc_finish: the moved rows carry the newest tid and name the current    *)
(* revision, so committing them puts each one on top of its object's chain *)
(* and moves current_object onto it.                                       *)
LEMMA TpcFinishIInv ==
    ASSUME IInv, TypeOK', NEW c \in Conn, TpcFinish(c)
    PROVE  IInv'
<1> DEFINE T == lastTid
           M == moved[c]
           Z == {r.zoid : r \in M}
<1>1. phase[c] = "updated" /\ lock = c
    BY DEF TpcFinish
<1>2. /\ txnTid[c] = T /\ T \in Tid
      /\ \A r \in objState : r.tid < T
      /\ \A r \in M : r.tid = T /\ r.prev = current[r.zoid]
      /\ UniqueZoids(M)
    BY <1>1 DEF IInv, MovedRowsSound
<1>3. pending[c] = [o \in Oid |-> IF o \in Z THEN T ELSE 0]
    BY <1>1, <1>2 DEF IInv, PendingSound
<1>4. \A o \in Oid : current'[o] = IF o \in Z THEN T ELSE current[o]
    BY <1>2, <1>3 DEF TpcFinish, Tid
<1>5. objState' = objState \cup M /\ lastTid' = T
    BY DEF TpcFinish
<1>6. \A d \in Conn : d # c => phase[d] \notin {"restoring", "voting", "moved", "updated", "failed"}
    BY <1>1 DEF IInv, LockHeld
<1>7. M \subseteq ObjRow /\ objState \subseteq ObjRow
    BY DEF IInv, TypeOK
<1>8. \A o \in Oid : current[o] # 0 => \E s \in Revisions(o) : s.tid = current[o]
    BY DEF IInv, CurrentIsLatest, LoadCurrent
<1>9. \A o \in Oid : current[o] < T
    <2> SUFFICES ASSUME NEW o \in Oid PROVE current[o] < T
        OBVIOUS
    <2>1. CASE current[o] = 0
        BY <1>2, <2>1 DEF Tid
    <2>2. CASE current[o] # 0
        BY <1>2, <1>8, <2>2 DEF Revisions, IInv, TypeOK, ObjRow, TidOrNone, Tid
    <2>3. QED BY <2>1, <2>2
<1>10. CurrentIsLatest'
    <2> SUFFICES ASSUME NEW o \in Oid
                 PROVE  /\ current'[o] = 0 <=> Revisions(o)' = {}
                        /\ current'[o] # 0 => LoadCurrent(o)' # {}
                        /\ \A r \in Revisions(o)' : r.tid <= current'[o]
        BY DEF CurrentIsLatest
    <2>1. CASE o \in Z
        <3>1. PICK m \in M : m.zoid = o
            BY <2>1
        <3>2. m \in Revisions(o)' /\ m.tid = T /\ current'[o] = T
            BY <1>2, <1>4, <1>5, <2>1, <3>1 DEF Revisions
        <3>3. \A r \in Revisions(o)' : r.tid <= T
            BY <1>2, <1>5, <1>7 DEF Revisions, ObjRow, Tid
        <3>4. QED BY <3>2, <3>3, <1>2 DEF LoadCurrent, Tid
    <2>2. CASE o \notin Z
        <3>1. Revisions(o)' = Revisions(o) /\ current'[o] = current[o]
            BY <1>4, <1>5, <2>2 DEF Revisions
        <3>2. QED BY <3>1 DEF IInv, CurrentIsLatest, LoadCurrent, TpcFinish
    <2>3. QED BY <2>1, <2>2
<1>11. ChainLinks'
    <2> SUFFICES ASSUME NEW r \in objState'
                 PROVE  /\ r.prev < r.tid
                        /\ r.prev # 0 => \E s \in Revisions(r.zoid)' : s.tid = r.prev
                        /\ \A s \in Revisions(r.zoid)' :
                              ~(r.prev < s.tid /\ s.tid < r.tid)
        BY DEF ChainLinks
    <2>1. CASE r \in objState
        <3>1. r.prev < r.tid
            BY <2>1 DEF IInv, ChainLinks
        <3>2. r.prev # 0 => \E s \in Revisions(r.zoid)' : s.tid = r.prev
            BY <1>5, <2>1 DEF IInv, ChainLinks, Revisions
        <3>3. \A s \in Revisions(r.zoid)' : ~(r.prev < s.tid /\ s.tid < r.tid)
            BY <1>2, <1>5, <1>7, <2>1 DEF IInv, ChainLinks, Revisions, ObjRow,
                                          Tid, TidOrNone
        <3>4. QED BY <3>1, <3>2, <3>3
    <2>2. CASE r \in M
        <3>1. r.tid = T /\ r.prev = current[r.zoid] /\ r.zoid \in Oid
            BY <1>2, <1>7, <2>2 DEF ObjRow
        <3>2. r.prev < r.tid
            BY <3>1, <1>9
        <3>3. r.prev # 0 => \E s \in Revisions(r.zoid)' : s.tid = r.prev
            BY <3>1, <1>8, <1>5 DEF Revisions
        <3>4. \A s \in Revisions(r.zoid) : s.tid <= r.prev
            BY <3>1 DEF IInv, CurrentIsLatest
        <3>5. \A s \in M : s.zoid = r.zoid => s = r
            BY <1>2, <2>2 DEF UniqueZoids
        <3>6. QED BY <3>1, <3>2, <3>3, <3>4, <3>5, <1>5, <1>7
                  DEF Revisions, ObjRow, Tid, TidOrNone
    <2>3. QED BY <1>5, <2>1, <2>2
<1>12. RowTidsBelow'
    BY <1>2, <1>5, <1>7 DEF ObjRow, Tid, RowTidsBelow
<1>13. SerialsExist'
    <2> SUFFICES ASSUME NEW d \in Conn, NEW o \in Oid, read'[d][o] # 0
                 PROVE  \E s \in Revisions(o)' : s.tid = read'[d][o]
        BY DEF SerialsExist
    <2>1. CASE d = c /\ o \in Z
        <3>1. read'[d][o] = T
            BY <1>2, <2>1 DEF TpcFinish, IInv, TypeOK
        <3>2. QED BY <1>2, <1>5, <2>1, <3>1 DEF Revisions
    <2>2. CASE ~(d = c /\ o \in Z)
        <3>1. read'[d][o] = read[d][o]
            BY <2>2 DEF TpcFinish, IInv, TypeOK
        <3>2. QED BY <1>5, <3>1 DEF IInv, SerialsExist, Revisions
    <2>3. QED BY <2>1, <2>2
<1>14. LockHeld' /\ MovedRowsSound' /\ PendingSound' /\ VoteNeverFails'
    BY <1>6 DEF TpcFinish, LockHeld, MovedRowsSound, PendingSound,
                VoteNeverFails, IInv, TypeOK
<1>15. TempRowsSound'
    BY <1>5 DEF TpcFinish, TempRowsSound, IInv, TypeOK, Revisions, UniqueZoids
<1>20. OwnWritesLocked'
    BY ConstAssumption DEF IInv, OwnWritesLocked, TpcFinish, TypeOK
<1>16. QED BY <1>20, <1>10, <1>11, <1>12, <1>13, <1>14, <1>15 DEF IInv

(* A copy's tpc_begin takes the free commit lock and records a tid above  *)
(* every committed one; no one else is past its vote, so the copy starts   *)
(* with no rows and is the only transaction holding row locks.             *)
LEMMA BeginRestoreIInv ==
    ASSUME IInv, TypeOK', NEW c \in Conn, NEW t \in Tid, BeginRestore(c, t)
    PROVE  IInv'
<1>1. /\ phase[c] = "idle" /\ lock = NoConn /\ t \in lastTid + 1 .. MaxTid
      /\ lock' = c /\ lastTid' = t /\ txnTid'[c] = t
    BY DEF BeginRestore, IInv, TypeOK
<1>2. moved[c] = {} /\ pending[c] = [o \in Oid |-> 0]
    BY <1>1, ConstAssumption DEF IInv, OwnWritesLocked
<1>3. \A d \in Conn : phase[d] \notin {"restoring", "voting", "moved", "updated", "failed"}
    BY <1>1, ConstAssumption DEF IInv, LockHeld
<1>4. CurrentIsLatest' /\ ChainLinks' /\ SerialsExist'
    BY DEF BeginRestore, CurrentIsLatest, ChainLinks, SerialsExist, IInv,
           Revisions, LoadCurrent
<1>5. \A r \in objState : r.tid < t
    BY <1>1 DEF IInv, RowTidsBelow, TypeOK, ObjRow, Tid, TidOrNone
<1>6. RowTidsBelow'
    BY <1>1, <1>5 DEF BeginRestore, RowTidsBelow, IInv, TypeOK, ObjRow, Tid
<1>7. LockHeld'
    BY <1>1, <1>3 DEF BeginRestore, LockHeld, IInv, TypeOK
<1>8. MovedRowsSound'
    BY <1>1, <1>2, <1>3, <1>5 DEF BeginRestore, MovedRowsSound, IInv, TypeOK,
                                  UniqueZoids
<1>9. PendingSound' /\ VoteNeverFails'
    BY <1>3 DEF BeginRestore, PendingSound, VoteNeverFails, IInv, TypeOK
<1>10. OwnWritesLocked'
    BY <1>1, ConstAssumption DEF BeginRestore, OwnWritesLocked, IInv, TypeOK
<1>11. TempRowsSound'
    BY DEF BeginRestore, TempRowsSound, IInv, TypeOK, UniqueZoids, Revisions
<1>12. QED BY <1>4, <1>6, <1>7, <1>8, <1>9, <1>10, <1>11 DEF IInv

(* restore inserts a row under the copy's tid naming the current revision, *)
(* which is what MovedRowsSound asks of a moved row.                       *)
LEMMA RestoreIInv ==
    ASSUME IInv, TypeOK', NEW c \in Conn, NEW o \in Oid, NEW v \in Val,
           Restore(c, o, v)
    PROVE  IInv'
<1> DEFINE new == [zoid |-> o, tid |-> txnTid[c], prev |-> current[o],
                   state |-> v]
<1>1. /\ phase[c] = "restoring" /\ lock = c
      /\ o \notin {r.zoid : r \in moved[c]}
      /\ moved'[c] = moved[c] \cup {new}
    BY DEF Restore, IInv, TypeOK
<1>2. CommittedInv'
    BY CommittedUnchanged DEF IInv, CommittedInv, Restore
<1>3. MovedRowsSound'
    <2> SUFFICES ASSUME NEW d \in Conn, phase'[d] \in {"restoring", "moved", "updated"}
                 PROVE  /\ txnTid'[d] = lastTid'
                        /\ lastTid' \in Tid
                        /\ \A r \in objState' : r.tid < lastTid'
                        /\ \A r \in moved'[d] : r.tid = lastTid'
                                                /\ r.prev = current'[r.zoid]
                        /\ UniqueZoids(moved'[d])
        BY DEF MovedRowsSound
    <2>1. CASE d = c
        <3>1. txnTid[c] = lastTid
            BY <1>1 DEF IInv, MovedRowsSound
        <3>2. UniqueZoids(moved[c] \cup {new})
            BY <1>1 DEF IInv, MovedRowsSound, UniqueZoids
        <3>3. UNCHANGED <<objState, current, lastTid, txnTid>>
            BY DEF Restore
        <3>4. /\ lastTid \in Tid
              /\ \A r \in objState : r.tid < lastTid
              /\ \A r \in moved[c] : r.tid = lastTid /\ r.prev = current[r.zoid]
            BY <1>1 DEF IInv, MovedRowsSound
        <3>5. \A r \in moved'[d] : r.tid = lastTid' /\ r.prev = current'[r.zoid]
            <4> SUFFICES ASSUME NEW r \in moved'[d]
                         PROVE  r.tid = lastTid /\ r.prev = current[r.zoid]
                BY <3>3
            <4>1. CASE r = new
                BY <3>1, <4>1
            <4>2. CASE r \in moved[c]
                BY <3>4, <4>2
            <4>3. QED BY <1>1, <2>1, <4>1, <4>2
        <3>6. txnTid'[d] = lastTid' /\ lastTid' \in Tid
              /\ \A r \in objState' : r.tid < lastTid'
            BY <2>1, <3>1, <3>3, <3>4
        <3>7. QED BY <1>1, <2>1, <3>2, <3>5, <3>6
    <2>2. CASE d # c
        BY <2>2 DEF Restore, IInv, MovedRowsSound, TypeOK
    <2>3. QED BY <2>1, <2>2
<1>4. LockHeld' /\ PendingSound' /\ VoteNeverFails' /\ OwnWritesLocked'
    BY <1>1 DEF Restore, LockHeld, PendingSound, VoteNeverFails,
                OwnWritesLocked, IInv, TypeOK
<1>5. TempRowsSound'
    BY DEF Restore, TempRowsSound, IInv, Revisions
<1>6. QED BY <1>2, <1>3, <1>4, <1>5 DEF IInv, CommittedInv

LEMMA NextIInv == IInv /\ [Next]_vars => IInv'
<1> SUFFICES ASSUME IInv, [Next]_vars PROVE IInv'
    OBVIOUS
<1>1. TypeOK'
    <2>1. \A c \in Conn : phase[c] = "restoring" => txnTid[c] \in Tid
        BY DEF IInv, MovedRowsSound
    <2>2. QED BY <2>1, NextTypeOK DEF IInv
<1>2. CASE UNCHANGED vars
    BY <1>2 DEF vars, IInv, TypeOK, CurrentIsLatest, ChainLinks, RowTidsBelow,
                LockHeld, MovedRowsSound, PendingSound, OwnWritesLocked,
                SerialsExist,
                TempRowsSound, VoteNeverFails, Revisions, LoadCurrent,
                UniqueZoids
<1>3. QED BY <1>1, <1>2, OnStoreOpenedIInv, LoadIInv, StoreTempIInv,
             AcquireCommitLockIInv, ResolveConflictIInv, MoveFromTempIInv,
             UpdateCurrentIInv, TpcFinishIInv, TpcAbortIInv, BeginRestoreIInv,
             RestoreIInv DEF Next

LEMMA SpecIInv == Spec => []IInv
BY InitIInv, NextIInv, PTL DEF Spec

\* The state of the store keeps its types in every reachable state.
THEOREM TypeCorrect == Spec => []TypeOK
BY SpecIInv, PTL DEF IInv

\* No lost update: every committed revision's prev_tid is the revision
\* load_before returns just below its tid, for any numbers of connections
\* and objects and any MaxTid (detect_conflict under the commit lock).
THEOREM NoLostUpdate == Spec => []HistoryChain
BY SpecIInv, ChainLinksHistory, PTL DEF IInv

\* current_object always names the newest committed revision, which
\* exists (load_current's rowcount assertion; update_current's INSERT/UPDATE
\* split and MySQL's REPLACE).
THEOREM CurrentLatest == Spec => []CurrentIsLatest
BY SpecIInv, PTL DEF IInv

\* update_current's INSERT never meets an existing current_object row, so
\* the vote never fails on the primary key.
THEOREM VoteSucceeds == Spec => []VoteNeverFails
BY SpecIInv, PTL DEF IInv

-----------------------------------------------------------------------------
(* A transaction commits only what it wrote.  PostgreSQL and Oracle empty  *)
(* temp_store at every commit and rollback; MySQL's MyISAM temp_store      *)
(* keeps an aborted transaction's rows until the next on_store_opened      *)
(* drops it.  So: temp_store is empty between transactions except on      *)
(* MySQL, and from tpc_begin on it holds only this transaction's oids.     *)

\* Between transactions only MySQL's temp_store may hold rows.
TempEmptyWhenIdle ==
    Flavour # "mysql" => \A c \in Conn : phase[c] = "idle" => temp[c] = {}

\* While storing and voting, temp_store holds only oids stored since tpc_begin.
OwnTempRows ==
    \A c \in Conn : phase[c] \in {"storing", "voting"} =>
        {r.zoid : r \in temp[c]} \subseteq stored[c]

OwnInv == TempEmptyWhenIdle /\ OwnTempRows /\ CommitsOnlyOwnWrites

LEMMA InitOwnInv == Init => OwnInv
BY DEF Init, OwnInv, TempEmptyWhenIdle, OwnTempRows, CommitsOnlyOwnWrites

LEMMA NextOwnInv ==
    ASSUME IInv, OwnInv, [Next]_vars
    PROVE  OwnInv'
<1> USE DEF OwnInv
<1>1. TypeOK' /\ TypeOK /\ OwnWritesLocked
    BY NextIInv DEF IInv
<1>2. ASSUME NEW c \in Conn, OnStoreOpened(c) PROVE OwnInv'
    <2>1. temp'[c] = {}
        <3>1. CASE Flavour = "oracle"
            BY <1>2, <3>1 DEF OnStoreOpened, TempEmptyWhenIdle
        <3>2. CASE Flavour # "oracle"
            BY <1>1, <1>2, <3>2 DEF OnStoreOpened, TypeOK
        <3>3. QED BY <3>1, <3>2
    <2>2. QED BY <1>1, <1>2, <2>1 DEF OnStoreOpened, TempEmptyWhenIdle,
                                     OwnTempRows, CommitsOnlyOwnWrites, TypeOK
<1>3. ASSUME NEW c \in Conn, NEW t \in Tid, BeginRestore(c, t) PROVE OwnInv'
    <2>1. moved[c] = {}
        BY <1>3, ConstAssumption DEF BeginRestore, IInv, OwnWritesLocked
    <2>2. QED BY <1>1, <1>3, <2>1 DEF BeginRestore, TempEmptyWhenIdle,
                                     OwnTempRows, CommitsOnlyOwnWrites, TypeOK
<1>4. ASSUME NEW c \in Conn, NEW o \in Oid, NEW v \in Val, Restore(c, o, v)
      PROVE OwnInv'
    BY <1>1, <1>4 DEF Restore, TempEmptyWhenIdle, OwnTempRows,
                      CommitsOnlyOwnWrites, TypeOK
<1>5. ASSUME NEW c \in Conn, NEW o \in Oid, Load(c, o) PROVE OwnInv'
    BY <1>5 DEF Load, TempEmptyWhenIdle, OwnTempRows, CommitsOnlyOwnWrites
<1>6. ASSUME NEW c \in Conn, NEW o \in Oid, NEW v \in Val, StoreTemp(c, o, v)
      PROVE OwnInv'
    BY <1>1, <1>6 DEF StoreTemp, TempEmptyWhenIdle, OwnTempRows,
                      CommitsOnlyOwnWrites, TypeOK
<1>7. ASSUME NEW c \in Conn, AcquireCommitLock(c) PROVE OwnInv'
    BY <1>1, <1>7 DEF AcquireCommitLock, TempEmptyWhenIdle, OwnTempRows,
                      CommitsOnlyOwnWrites, TypeOK
<1>8. ASSUME NEW c \in Conn, NEW o \in Oid, NEW v \in Val,
             ResolveConflict(c, o, v)
      PROVE OwnInv'
    <2>1. PICK r \in Conflicts(c) :
              /\ r.zoid = o
              /\ temp' = [temp EXCEPT ![c] =
                   (temp[c] \ {r}) \cup {[zoid |-> o, prev |-> current[o],
                                          state |-> v]}]
        BY <1>8 DEF ResolveConflict
    <2>2. r \in temp[c]
        BY <2>1 DEF Conflicts
    <2>3. QED BY <1>1, <1>8, <2>1, <2>2 DEF ResolveConflict, TempEmptyWhenIdle,
                                           OwnTempRows, CommitsOnlyOwnWrites,
                                           TypeOK
<1>9. ASSUME NEW c \in Conn, MoveFromTemp(c) PROVE OwnInv'
    BY <1>1, <1>9 DEF MoveFromTemp, TempEmptyWhenIdle, OwnTempRows,
                      CommitsOnlyOwnWrites, TypeOK
<1>10. ASSUME NEW c \in Conn, UpdateCurrent(c) PROVE OwnInv'
    <2>1. phase'[c] \in {"updated", "failed"}
          /\ \A d \in Conn : d # c => phase'[d] = phase[d]
        <3>1. CASE Flavour = "mysql"
            BY <1>1, <1>10, <3>1 DEF UpdateCurrent, UpdateCurrentReplace, TypeOK
        <3>2. CASE Flavour # "mysql"
            BY <1>1, <1>10, <3>2 DEF UpdateCurrent, UpdateCurrentInsertUpdate,
                                     TypeOK
        <3>3. QED BY <3>1, <3>2
    <2>2. QED BY <1>10, <2>1 DEF UpdateCurrent, TempEmptyWhenIdle, OwnTempRows,
                                 CommitsOnlyOwnWrites
<1>11. ASSUME NEW c \in Conn, TpcFinish(c) PROVE OwnInv'
    BY <1>1, <1>11 DEF TpcFinish, TempEmptyWhenIdle, OwnTempRows,
                       CommitsOnlyOwnWrites, TypeOK
<1>12. ASSUME NEW c \in Conn, TpcAbort(c) PROVE OwnInv'
    BY <1>1, <1>12 DEF TpcAbort, TempEmptyWhenIdle, OwnTempRows,
                       CommitsOnlyOwnWrites, TypeOK
<1>13. CASE UNCHANGED vars
    BY <1>13 DEF vars, TempEmptyWhenIdle, OwnTempRows, CommitsOnlyOwnWrites
<1>14. QED BY <1>2, <1>3, <1>4, <1>5, <1>6, <1>7, <1>8, <1>9, <1>10, <1>11,
              <1>12, <1>13 DEF Next

\* On every flavour a transaction commits only rows of oids it wrote since
\* its tpc_begin: no row an aborted transaction left in MySQL's MyISAM
\* temp_store survives the next on_store_opened(restart=True).
THEOREM OnlyOwnWritesCommitted == Spec => []CommitsOnlyOwnWrites
<1>1. Spec => [](IInv /\ OwnInv)
    <2>1. Init => IInv /\ OwnInv
        BY InitIInv, InitOwnInv
    <2>2. IInv /\ OwnInv /\ [Next]_vars => (IInv /\ OwnInv)'
        BY NextIInv, NextOwnInv
    <2>3. QED BY <2>1, <2>2, PTL DEF Spec
<1>2. QED BY <1>1, PTL DEF OwnInv

-----------------------------------------------------------------------------
(* Refinement: HistoryStore implements AtomicHistory.                      *)

(* tpc_finish commits the moved rows as one abstract Commit: under the     *)
(* newest tid, over the current revisions, one row per object it wrote.    *)
LEMMA TpcFinishCommits ==
    ASSUME IInv, NEW c \in Conn, TpcFinish(c)
    PROVE  [AH!Next]_<<objState, current>>
<1> DEFINE T == lastTid
           M == moved[c]
           Z == {r.zoid : r \in M}
<1>1. phase[c] = "updated"
    BY DEF TpcFinish
<1>2. /\ T \in Tid
      /\ \A r \in objState : r.tid < T
      /\ \A r \in M : r.tid = T /\ r.prev = current[r.zoid]
      /\ UniqueZoids(M)
    BY <1>1 DEF IInv, MovedRowsSound
<1>3. pending[c] = [o \in Oid |-> IF o \in Z THEN T ELSE 0]
    BY <1>1 DEF IInv, PendingSound, MovedRowsSound
<1>4. current' = [o \in Oid |-> IF o \in Z THEN T ELSE current[o]]
    BY <1>2, <1>3 DEF TpcFinish, Tid, IInv, TypeOK
<1>5. objState' = objState \cup M
    BY DEF TpcFinish
<1>6. M \subseteq ObjRow
    BY DEF IInv, TypeOK
<1>7. CASE M = {}
    <2>1. current' = current
        BY <1>4, <1>7 DEF IInv, TypeOK
    <2>2. QED BY <1>5, <1>7, <2>1
<1>8. CASE M # {}
    <2>1. PICK m0 \in M : TRUE
        BY <1>8
    <2>2. m0.state \in Val
        BY <1>6 DEF ObjRow
    <2> DEFINE rowOf(o) == CHOOSE r \in M : r.zoid = o
               val == [o \in Oid |-> IF o \in Z THEN rowOf(o).state ELSE m0.state]
    <2>3. val \in [Oid -> Val]
        BY <1>6, <2>2 DEF ObjRow
    <2>4. \A o \in Z : rowOf(o) \in M /\ rowOf(o).zoid = o
        OBVIOUS
    <2>5. \A r \in M : rowOf(r.zoid) = r
        BY <1>2 DEF UniqueZoids
    <2>6. Z \subseteq Oid
        BY <1>6 DEF ObjRow
    <2>7. {[zoid |-> o, tid |-> T, prev |-> current[o], state |-> val[o]] : o \in Z}
          = M
        <3>1. \A r \in M : r = [zoid |-> r.zoid, tid |-> T,
                               prev |-> current[r.zoid], state |-> val[r.zoid]]
            BY <1>2, <1>6, <2>5, <2>6 DEF ObjRow
        <3>2. ASSUME NEW o \in Z
              PROVE  [zoid |-> o, tid |-> T, prev |-> current[o], state |-> val[o]] \in M
            <4>1. rowOf(o) \in M /\ rowOf(o).zoid = o
                BY <2>4
            <4>2. rowOf(o) = [zoid |-> o, tid |-> T, prev |-> current[o], state |-> val[o]]
                BY <4>1, <3>1
            <4>3. QED BY <4>1, <4>2
        <3>3. \A r \in M : \E o \in Z :
                r = [zoid |-> o, tid |-> T, prev |-> current[o], state |-> val[o]]
            BY <3>1
        <3>4. QED BY <3>2, <3>3
    <2>8. AH!Commit(T, Z, val)
        BY <1>2, <1>4, <1>5, <2>7 DEF AH!Commit
    <2>9. T \in AH!Tid /\ Z \in SUBSET Oid
        BY <1>2, <2>6 DEF Tid, AH!Tid
    <2>10. QED BY <2>3, <2>8, <2>9 DEF AH!Next
<1>9. QED BY <1>7, <1>8

LEMMA NextRefines ==
    ASSUME IInv, [Next]_vars
    PROVE  [AH!Next]_<<objState, current>>
<1>1. ASSUME NEW c \in Conn, TpcFinish(c) PROVE [AH!Next]_<<objState, current>>
    BY <1>1, TpcFinishCommits
<1>2. ASSUME NEW c \in Conn, ~TpcFinish(c),
             \/ OnStoreOpened(c)
             \/ \E t \in Tid : BeginRestore(c, t)
             \/ \E o \in Oid, v \in Val : Restore(c, o, v)
             \/ \E o \in Oid : Load(c, o)
             \/ \E o \in Oid, v \in Val : StoreTemp(c, o, v)
             \/ AcquireCommitLock(c)
             \/ \E o \in Oid, v \in Val : ResolveConflict(c, o, v)
             \/ MoveFromTemp(c)
             \/ UpdateCurrent(c)
             \/ TpcAbort(c)
      PROVE  UNCHANGED <<objState, current>>
    BY <1>2 DEF OnStoreOpened, BeginRestore, Restore, Load, StoreTemp, AcquireCommitLock,
                ResolveConflict, MoveFromTemp, UpdateCurrent, TpcAbort
<1>3. CASE UNCHANGED vars
    BY <1>3 DEF vars
<1>4. QED BY <1>1, <1>2, <1>3 DEF Next

\* The store implements the atomic history: every reachable behaviour of
\* begin/store/vote/finish/abort, seen through object_state and
\* current_object, is a sequence of atomic commits over current revisions.
THEOREM Refinement == Spec => ImplementsAtomicHistory
<1>1. Init => AH!Init
    BY DEF Init, AH!Init
<1>2. IInv /\ [Next]_vars => [AH!Next]_<<objState, current>>
    BY NextRefines
<1>3. QED BY <1>1, <1>2, SpecIInv, PTL DEF Spec, ImplementsAtomicHistory, AH!Spec
====
