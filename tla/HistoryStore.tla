---------------------------- MODULE HistoryStore ----------------------------
(***************************************************************************)
(* The history-preserving object store of relstorage/adapters/loadstore.py *)
(* together with the two-phase commit that drives it.                      *)
(*                                                                         *)
(* Tables are sets of rows, as in SQL:                                     *)
(*   object_state   committed revisions  [zoid, tid, prev, state]          *)
(*   current_object zoid -> tid of its current revision (0: no row)        *)
(*   temp_store     per store connection [zoid, prev, state]               *)
(* A connection's vote works inside its own database transaction: the     *)
(* rows move_from_temp inserts (moved) and the current_object rows         *)
(* update_current writes (pending) are invisible to the others until       *)
(* tpc_finish commits them.  The commit lock, the tid allocation and the   *)
(* begin/vote/finish/abort sequence belong to the storage, which calls the *)
(* adapter's methods in this order while holding the lock.                 *)
(*                                                                         *)
(* md5 sums are left out: they are a function of the state.                *)
(***************************************************************************)
EXTENDS Naturals

CONSTANTS
    Conn,       \* store connections, each running one transaction at a time
    Oid,        \* object ids
    Val,        \* object states (pickles)
    MaxTid,     \* largest transaction id the model allocates
    NoConn,     \* the commit lock is free
    Flavour     \* "postgresql", "mysql" or "oracle"

Flavours == {"postgresql", "mysql", "oracle"}

ASSUME ConstAssumption ==
    /\ MaxTid \in Nat
    /\ NoConn \notin Conn
    /\ Flavour \in Flavours

VARIABLES
    objState,   \* committed rows of object_state
    current,    \* committed current_object: Oid -> tid, 0 when there is no row
    lastTid,    \* the last tid allocated by a vote
    lock,       \* the holder of the commit lock, or NoConn
    phase,      \* where each connection is in the two-phase commit
    read,       \* read[c][o]: the serial (tid) connection c last loaded for o
    temp,       \* temp[c]: rows of c's temp_store
    txnTid,     \* txnTid[c]: the tid c's vote allocated, 0 before
    moved,      \* moved[c]: object_state rows c inserted, not yet committed
    pending,    \* pending[c][o]: current_object tid c wrote, 0 when untouched
    stored      \* history: the oids c's transaction passed to store_temp/restore

vars == <<objState, current, lastTid, lock, phase, read, temp, txnTid,
          moved, pending, stored>>

Tid == 1..MaxTid
TidOrNone == 0..MaxTid
Phases == {"idle", "storing", "restoring", "voting", "moved", "updated",
           "failed"}

ObjRow == [zoid : Oid, tid : Tid, prev : TidOrNone, state : Val]
TempRow == [zoid : Oid, prev : TidOrNone, state : Val]

-----------------------------------------------------------------------------
(* Queries of loadstore.py over the committed tables.                      *)

\* The revisions of o in object_state.
Revisions(o) == {r \in objState : r.zoid = o}

\* load_current: the row joining current_object with object_state, as a set
\* (empty when the object does not exist).
LoadCurrent(o) == {r \in Revisions(o) : r.tid = current[o]}

\* load_before: the tid of the newest revision of o older than t, 0 if none
\* (ORDER BY tid DESC LIMIT 1).
LoadBeforeTid(o, t) ==
    LET earlier == {r \in Revisions(o) : r.tid < t}
    IN  IF earlier = {} THEN 0
        ELSE (CHOOSE r \in earlier : \A s \in earlier : s.tid <= r.tid).tid

\* Mutant: new objects (prev_tid = 0) are taken never to conflict.
ConflictsIgnoringNew(c) ==
    {r \in temp[c] : r.prev # 0 /\ current[r.zoid] # 0
                     /\ r.prev # current[r.zoid]}

\* detect_conflict: the temp_store rows whose prev_tid is not the tid in
\* current_object (the join drops objects without a current_object row).
Conflicts(c) ==
    {r \in temp[c] : current[r.zoid] # 0 /\ r.prev # current[r.zoid]}

-----------------------------------------------------------------------------
Init ==
    /\ objState = {}
    /\ current = [o \in Oid |-> 0]
    /\ lastTid = 0
    /\ lock = NoConn
    /\ phase = [c \in Conn |-> "idle"]
    /\ read = [c \in Conn |-> [o \in Oid |-> 0]]
    /\ temp = [c \in Conn |-> {}]
    /\ txnTid = [c \in Conn |-> 0]
    /\ moved = [c \in Conn |-> {}]
    /\ pending = [c \in Conn |-> [o \in Oid |-> 0]]
    /\ stored = [c \in Conn |-> {}]

\* Mutant: tpc_begin reuses the store connection without restarting it, so
\* the temp_store rows of an aborted transaction stay (MySQL's MyISAM table
\* ignores the rollback).
OnStoreOpenedKeepTemp(c) ==
    /\ phase[c] = "idle"
    /\ phase' = [phase EXCEPT ![c] = "storing"]
    /\ stored' = [stored EXCEPT ![c] = {}]
    /\ UNCHANGED <<objState, current, lastTid, lock, read, temp, txnTid,
                   moved, pending>>

\* tpc_begin restarts the store connection: on_store_opened(restart=True)
\* drops (MySQL) or finds dropped (PostgreSQL ON COMMIT DROP) the temp_store
\* and creates it empty.  Oracle has no on_store_opened: its temp_store is
\* a global temporary table whose rows the last commit or rollback removed.
OnStoreOpened(c) ==
    /\ phase[c] = "idle"
    /\ phase' = [phase EXCEPT ![c] = "storing"]
    /\ temp' = IF Flavour = "oracle" THEN temp ELSE [temp EXCEPT ![c] = {}]
    /\ stored' = [stored EXCEPT ![c] = {}]
    /\ UNCHANGED <<objState, current, lastTid, lock, read, txnTid, moved,
                   pending>>

\* tpc_begin(transaction, tid) of a copy (copyTransactionsFrom, zodbconvert):
\* the store connection is restarted, the commit lock is taken at once and
\* the source's tid, newer than every tid of the destination, is recorded.
BeginRestore(c, t) ==
    /\ phase[c] = "idle"
    /\ lock = NoConn
    /\ t \in lastTid + 1 .. MaxTid
    /\ lock' = c
    /\ lastTid' = t
    /\ txnTid' = [txnTid EXCEPT ![c] = t]
    /\ phase' = [phase EXCEPT ![c] = "restoring"]
    /\ temp' = IF Flavour = "oracle" THEN temp ELSE [temp EXCEPT ![c] = {}]
    /\ stored' = [stored EXCEPT ![c] = {}]
    /\ UNCHANGED <<objState, current, read, moved, pending>>

\* Mutant: restore INSERTs the row without looking up current_object.
RestoreNoPrev(c, o, v) ==
    /\ phase[c] = "restoring"
    /\ lock = c
    /\ o \notin {r.zoid : r \in moved[c]}
    /\ moved' = [moved EXCEPT ![c] = @ \cup
                   {[zoid |-> o, tid |-> txnTid[c], prev |-> 0, state |-> v]}]
    /\ stored' = [stored EXCEPT ![c] = @ \cup {o}]
    /\ UNCHANGED <<objState, current, lastTid, lock, phase, read, temp,
                   txnTid, pending>>

\* restore(oid, tid, data): INSERT the revision straight into object_state,
\* with prev_tid = COALESCE(current_object.tid, 0) read at the INSERT.  No
\* conflict detection: the commit lock, held since tpc_begin, keeps
\* current_object still until update_current.  A copied transaction names
\* each oid once; a second INSERT would violate the (zoid, tid) key.
Restore(c, o, v) ==
    /\ phase[c] = "restoring"
    /\ lock = c
    /\ o \notin {r.zoid : r \in moved[c]}
    /\ moved' = [moved EXCEPT ![c] = @ \cup
                   {[zoid |-> o, tid |-> txnTid[c], prev |-> current[o],
                     state |-> v]}]
    /\ stored' = [stored EXCEPT ![c] = @ \cup {o}]
    /\ UNCHANGED <<objState, current, lastTid, lock, phase, read, temp,
                   txnTid, pending>>

\* load_current on the load connection: the object's serial becomes the tid
\* of its current revision, or 0 when it has none ((None, None)).
Load(c, o) ==
    /\ phase[c] \in {"idle", "storing"}
    /\ read' = [read EXCEPT ![c][o] = current[o]]
    /\ UNCHANGED <<objState, current, lastTid, lock, phase, temp, txnTid,
                   moved, pending, stored>>

\* store_temp(oid, prev_tid, data): DELETE the zoid's row, INSERT the new one
\* with the serial the connection loaded as prev_tid.
StoreTemp(c, o, v) ==
    /\ phase[c] = "storing"
    /\ temp' = [temp EXCEPT ![c] =
                  {r \in temp[c] : r.zoid # o}
                  \cup {[zoid |-> o, prev |-> read[c][o], state |-> v]}]
    /\ stored' = [stored EXCEPT ![c] = @ \cup {o}]
    /\ UNCHANGED <<objState, current, lastTid, lock, phase, read, txnTid,
                   moved, pending>>

\* tpc_vote takes the commit lock before it looks for conflicts.
AcquireCommitLock(c) ==
    /\ phase[c] = "storing"
    /\ lock = NoConn
    /\ lock' = c
    /\ phase' = [phase EXCEPT ![c] = "voting"]
    /\ UNCHANGED <<objState, current, lastTid, read, temp, txnTid, moved,
                   pending, stored>>

\* detect_conflict returned a row; the conflict was resolved into state v and
\* written back with replace_temp(oid, prev_tid=the current tid, data).
ResolveConflict(c, o, v) ==
    /\ phase[c] = "voting"
    /\ lock = c
    /\ \E r \in Conflicts(c) :
         /\ r.zoid = o
         /\ temp' = [temp EXCEPT ![c] =
                       (temp[c] \ {r})
                       \cup {[zoid |-> o, prev |-> current[o], state |-> v]}]
    /\ UNCHANGED <<objState, current, lastTid, lock, phase, read, txnTid,
                   moved, pending, stored>>

\* Mutant: the vote moves the rows without asking detect_conflict.
MoveFromTempUnchecked(c) ==
    /\ phase[c] = "voting"
    /\ lock = c
    /\ lastTid < MaxTid
    /\ lastTid' = lastTid + 1
    /\ txnTid' = [txnTid EXCEPT ![c] = lastTid + 1]
    /\ moved' = [moved EXCEPT ![c] =
                   {[zoid |-> r.zoid, tid |-> lastTid + 1, prev |-> r.prev,
                     state |-> r.state] : r \in temp[c]}]
    /\ phase' = [phase EXCEPT ![c] = "moved"]
    /\ UNCHANGED <<objState, current, lock, read, temp, pending, stored>>

\* Mutant: the rows are moved under the transaction's tid as it was before
\* the vote allocated the new one.
MoveFromTempStaleTid(c) ==
    /\ phase[c] = "voting"
    /\ lock = c
    /\ Conflicts(c) = {}
    /\ lastTid < MaxTid
    /\ lastTid' = lastTid + 1
    /\ txnTid' = [txnTid EXCEPT ![c] = lastTid + 1]
    /\ moved' = [moved EXCEPT ![c] =
                   {[zoid |-> r.zoid, tid |-> txnTid[c], prev |-> r.prev,
                     state |-> r.state] : r \in temp[c]}]
    /\ phase' = [phase EXCEPT ![c] = "moved"]
    /\ UNCHANGED <<objState, current, lock, read, temp, pending, stored>>

\* detect_conflict returned None: a new tid is allocated and move_from_temp
\* copies every temp_store row into object_state under that tid.
MoveFromTemp(c) ==
    /\ phase[c] = "voting"
    /\ lock = c
    /\ Conflicts(c) = {}
    /\ lastTid < MaxTid
    /\ lastTid' = lastTid + 1
    /\ txnTid' = [txnTid EXCEPT ![c] = lastTid + 1]
    /\ moved' = [moved EXCEPT ![c] =
                   {[zoid |-> r.zoid, tid |-> lastTid + 1, prev |-> r.prev,
                     state |-> r.state] : r \in temp[c]}]
    /\ phase' = [phase EXCEPT ![c] = "moved"]
    /\ UNCHANGED <<objState, current, lock, read, temp, pending, stored>>

\* The rows of object_state written under c's tid, as c's transaction sees them.
TxnRows(c) == {r \in objState \cup moved[c] : r.tid = txnTid[c]}

\* The zoids update_current INSERTs (prev_tid = 0) and UPDATEs (prev_tid # 0).
NewOids(c) == {r.zoid : r \in {x \in TxnRows(c) : x.prev = 0}}
OldOids(c) == {r.zoid : r \in {x \in TxnRows(c) : x.prev # 0}}

\* Mutant: update_current INSERTs the new objects and forgets the UPDATE.
UpdateCurrentInsertOnly(c) ==
    IF \E o \in NewOids(c) : current[o] # 0
    THEN /\ phase' = [phase EXCEPT ![c] = "failed"]
         /\ UNCHANGED pending
    ELSE /\ pending' = [pending EXCEPT ![c] =
              [o \in Oid |-> IF o \in NewOids(c) THEN txnTid[c] ELSE 0]]
         /\ phase' = [phase EXCEPT ![c] = "updated"]

\* update_current, PostgreSQL and Oracle: INSERT the rows with prev_tid = 0,
\* UPDATE the existing rows whose revision has prev_tid # 0.  An INSERT of a
\* zoid that already has a row violates the primary key and fails the vote.
UpdateCurrentInsertUpdate(c) ==
    IF \E o \in NewOids(c) : current[o] # 0
    THEN /\ phase' = [phase EXCEPT ![c] = "failed"]
         /\ UNCHANGED pending
    ELSE /\ pending' = [pending EXCEPT ![c] =
              [o \in Oid |-> IF o \in NewOids(c)
                                \/ (o \in OldOids(c) /\ current[o] # 0)
                             THEN txnTid[c] ELSE 0]]
         /\ phase' = [phase EXCEPT ![c] = "updated"]

\* Mutant: REPLACE restricted to the new objects (prev_tid = 0).
UpdateCurrentReplaceNew(c) ==
    /\ pending' = [pending EXCEPT ![c] =
          [o \in Oid |-> IF o \in {r.zoid : r \in {x \in TxnRows(c) : x.prev = 0}}
                         THEN txnTid[c] ELSE 0]]
    /\ phase' = [phase EXCEPT ![c] = "updated"]

\* update_current, MySQL: REPLACE INTO current_object every row of the tid.
UpdateCurrentReplace(c) ==
    /\ pending' = [pending EXCEPT ![c] =
          [o \in Oid |-> IF o \in {r.zoid : r \in TxnRows(c)}
                         THEN txnTid[c] ELSE 0]]
    /\ phase' = [phase EXCEPT ![c] = "updated"]

\* A copy's vote finds temp_store empty (nothing to detect or move) and goes
\* straight to update_current.
UpdateCurrent(c) ==
    /\ phase[c] \in {"moved", "restoring"}
    /\ lock = c
    /\ IF Flavour = "mysql" THEN UpdateCurrentReplace(c)
                            ELSE UpdateCurrentInsertUpdate(c)
    /\ UNCHANGED <<objState, current, lastTid, lock, read, temp, txnTid,
                   moved, stored>>

\* tpc_finish commits the database transaction, releases the commit lock,
\* and the objects the transaction stored take its tid as their serial.
\* PostgreSQL drops temp_store at commit, Oracle deletes its rows; MySQL's
\* MyISAM temp_store keeps them until the next on_store_opened.
TpcFinish(c) ==
    /\ phase[c] = "updated"
    /\ lock = c
    /\ objState' = objState \cup moved[c]
    /\ current' = [o \in Oid |-> IF pending[c][o] # 0 THEN pending[c][o]
                                 ELSE current[o]]
    /\ read' = [read EXCEPT ![c] =
                  [o \in Oid |-> IF o \in {r.zoid : r \in moved[c]}
                                 THEN txnTid[c] ELSE read[c][o]]]
    /\ temp' = IF Flavour = "mysql" THEN temp ELSE [temp EXCEPT ![c] = {}]
    /\ lock' = NoConn
    /\ phase' = [phase EXCEPT ![c] = "idle"]
    /\ txnTid' = [txnTid EXCEPT ![c] = 0]
    /\ moved' = [moved EXCEPT ![c] = {}]
    /\ pending' = [pending EXCEPT ![c] = [o \in Oid |-> 0]]
    /\ UNCHANGED <<lastTid, stored>>

\* tpc_abort, at any point of the transaction (an unresolved conflict, a
\* failed vote, another resource manager voting no): roll back, release the
\* commit lock if held.
TpcAbort(c) ==
    /\ phase[c] # "idle"
    /\ temp' = IF Flavour = "mysql" THEN temp ELSE [temp EXCEPT ![c] = {}]
    /\ lock' = IF lock = c THEN NoConn ELSE lock
    /\ phase' = [phase EXCEPT ![c] = "idle"]
    /\ txnTid' = [txnTid EXCEPT ![c] = 0]
    /\ moved' = [moved EXCEPT ![c] = {}]
    /\ pending' = [pending EXCEPT ![c] = [o \in Oid |-> 0]]
    /\ UNCHANGED <<objState, current, lastTid, read, stored>>

Next ==
    \E c \in Conn :
        \/ OnStoreOpened(c)
        \/ \E t \in Tid : BeginRestore(c, t)
        \/ \E o \in Oid, v \in Val : Restore(c, o, v)
        \/ \E o \in Oid : Load(c, o)
        \/ \E o \in Oid, v \in Val : StoreTemp(c, o, v)
        \/ AcquireCommitLock(c)
        \/ \E o \in Oid, v \in Val : ResolveConflict(c, o, v)
        \/ MoveFromTemp(c)
        \/ UpdateCurrent(c)
        \/ TpcFinish(c)
        \/ TpcAbort(c)

Spec == Init /\ [][Next]_vars

-----------------------------------------------------------------------------
(* Properties.                                                             *)

TypeOK ==
    /\ objState \subseteq ObjRow
    /\ current \in [Oid -> TidOrNone]
    /\ lastTid \in TidOrNone
    /\ lock \in Conn \cup {NoConn}
    /\ phase \in [Conn -> Phases]
    /\ read \in [Conn -> [Oid -> TidOrNone]]
    /\ temp \in [Conn -> SUBSET TempRow]
    /\ txnTid \in [Conn -> TidOrNone]
    /\ moved \in [Conn -> SUBSET ObjRow]
    /\ pending \in [Conn -> [Oid -> TidOrNone]]
    /\ stored \in [Conn -> SUBSET Oid]

\* current_object points at the newest revision of each object and that
\* revision exists: load_current finds exactly one row (its
\* `assert cursor.rowcount == 1`) and it is the latest state committed.
CurrentIsLatest ==
    \A o \in Oid :
        /\ current[o] = 0 <=> Revisions(o) = {}
        /\ current[o] # 0 => LoadCurrent(o) # {}
        /\ \A r \in Revisions(o) : r.tid <= current[o]

\* No lost update: the prev_tid each committed revision records is the
\* revision it was really written over, the one load_before(oid, tid)
\* returns.  Two transactions writing the same object from the same
\* snapshot would leave two revisions with one prev_tid.
HistoryChain ==
    \A r \in objState : r.prev = LoadBeforeTid(r.zoid, r.tid)

\* The store implements the atomic history its clients rely on: every
\* tpc_finish is one atomic commit of new revisions over the current ones,
\* and no other step (store_temp, the vote, update_current, an abort)
\* changes what is committed.
AH == INSTANCE AtomicHistory WITH aState <- objState, aCurrent <- current
ImplementsAtomicHistory == AH!Spec

\* A transaction commits only what it wrote: every row its vote moved, or
\* its copy restored, is of an oid it passed to store_temp or restore since
\* its tpc_begin.  MySQL's temp_store is a MyISAM table that a rollback
\* does not empty, so an aborted transaction's rows stay in it until
\* on_store_opened(restart=True) drops the table.
CommitsOnlyOwnWrites ==
    \A c \in Conn : phase[c] \in {"restoring", "moved", "updated"} =>
        {r.zoid : r \in moved[c]} \subseteq stored[c]

\* The INSERT half of update_current (PostgreSQL, Oracle) never meets a
\* zoid already in current_object: prev_tid = 0 exactly for new objects.
VoteNeverFails ==
    \A c \in Conn : phase[c] # "failed"
=============================================================================
