# Verification of relstorage: TLA+ models

This directory holds TLA+ models of parts of relstorage. Each model comes with TLC
configurations that check it on small instances, and with TLAPS proofs of
its main properties for every value of the constants.

## The system

relstorage stores ZODB objects in a relational database. It has two parts that matter here:

* **The adapters' load/store layer** (`src/relstorage/adapters/loadstore.py`).
  Its history-preserving schema has three tables:
  * `object_state` holds every committed revision `(zoid, tid, prev_tid, state)`;
  * `current_object` maps each zoid to the tid of its newest revision;
  * `temp_store` is a per-connection table that collects a transaction's
    stores until the vote.

  A commit runs in this order:
  1. `on_store_opened`;
  2. `store_temp`, once per stored object;
  3. under the commit lock, `detect_conflict` and, for each conflict,
     `replace_temp` with the resolved state;
  4. `move_from_temp` under a new tid;
  5. `update_current`;
  6. the database commit (`tpc_finish`) or a rollback (`tpc_abort`).

  The three SQL flavours differ:
  * PostgreSQL and Oracle `update_current` INSERT the rows with `prev_tid = 0`
    and UPDATE the others. MySQL uses `REPLACE`.
  * PostgreSQL's `temp_store` is dropped at commit. Oracle's rows are deleted.
    MySQL's is a MyISAM table, which ignores rollback: its rows stay until
    `on_store_opened(restart=True)` drops it.
* **The client cache.** It has three parts:
  * `src/relstorage/cache/lru.py` gives the SizedLRU rings.
  * The spec's segmented LRU shares one byte budget across three of those
    rings.
  * Per-connection StorageCaches see a shared local client through a
    shared MVCC coordinator. The coordinator tells each connection which
    tid of an object its snapshot sees. The benchmark in
    `cache/tests/benchmarks.py` drives these caches the way a set of
    connections does.
  The two halves meet only through the adapter's `load_current`, which the
  cache falls back to on a miss.

## Components and modules

| component | source | module | status |
|---|---|---|---|
| history-preserving store and commit | loadstore.py | `HistoryStore`, `AtomicHistory`, `MCHistoryStore`, `HistoryStoreProofs` | partly modelled |
| SizedLRU ring | cache/lru.py | `SegmentedLRU`, `MCSegmentedLRU`, `SegmentedLRUProofs` | modelled |
| SegmentedLRU policy | spec §4.2 (not under src/) | `SegmentedLRU` | modelled from the spec |
| LocalClient (size ceiling, compression, snapshots) | spec §4.4 | – | not modelled |
| MVCC coordinator, TRI chain, StorageCache | spec §4.5–4.7, cache/tests/test_mvcc.py | `MVCCCache`, `MCMVCCCache`, `MVCCCacheProofs` | partly, coordinator from the spec |
| benchmark storage driver | cache/tests/benchmarks.py | `MVCCCache`, `MVCCCacheProofs` | modelled |
| blob undo doctests | tests/blob/testblob.py | – | not modelled: a filesystem doctest harness |

### HistoryStore

The model's state and where each part lives in the code:

* `objState`: committed `object_state` rows.
* `current`: committed `current_object`, with 0 meaning "no row".
* `lastTid`: the last tid allocated.
* `lock`: the commit lock.
* `phase[c]`: where connection `c` is in two-phase commit.
* `read[c][o]`: the serial `c` loaded.
* `temp[c]`: the rows of `c`'s `temp_store`.
* `txnTid`, `moved` and `pending`: `c`'s uncommitted `object_state` and
  `current_object` writes. They are invisible to other connections until
  `TpcFinish`, as under the database's transaction isolation.
* `stored[c]`: a history variable, not state of the code. It holds the
  oids `c`'s transaction has passed to `store_temp` or `restore` since its
  `tpc_begin`. It exists only so that `CommitsOnlyOwnWrites` can be stated.

Each operation is one action:

| action | code it models |
|---|---|
| `OnStoreOpened` | `on_store_opened`; Oracle has none, and its temp_store keeps its rows |
| `BeginRestore` | caller (environment): the storage's `tpc_begin(txn, tid)` for a copy. It takes the commit lock at once and records the source's tid. |
| `Restore` | `restore`: INSERT into `object_state`, with `prev_tid` read from `current_object` |
| `Load` | `load_current` |
| `StoreTemp` | `store_temp` |
| `ResolveConflict` | `detect_conflict` + `replace_temp` |
| `MoveFromTemp` | `detect_conflict` = None, then `move_from_temp` |
| `UpdateCurrent` | `update_current`, per flavour; a copy's vote goes straight here |
| `AcquireCommitLock` | caller (environment): the storage's commit lock, taken at the vote |
| `TpcFinish` | caller (environment): the storage's commit and lock release |
| `TpcAbort` | caller (environment): the storage's rollback and lock release |

The rows marked "caller" model the RelStorage storage that calls the
adapter. That code is not in this repository, and spec.md does not
describe the commit lock or the begin/vote/finish/abort sequence. These
actions state what the adapter assumes of its caller: the calls come in
this order, and one commit lock is held from the vote (or a copy's
`tpc_begin`) to the finish or abort. Every property of the HistoryStore
runs holds under that assumption. The comment at `loadstore.py:248`,
"To avoid deadlocks, update in OID order", suggests that some
configurations run `update_current` concurrently. The model does not
cover those configurations.

The model abstracts away md5 sums, pickles (a small set `Val`) and the SQL
text.

`AtomicHistory` is what the store promises its clients. In it, a history
grows only by atomic commits. Each commit writes a set of objects under a
tid above every committed one. Each new revision's `prev_tid` is the
object's current revision.

`HistoryStore` instantiates it through the mapping `aState <- objState`,
`aCurrent <- current`. So the refinement looks only at the committed
tables. `ImplementsAtomicHistory` is that instance's `Spec`.

### SegmentedLRU

The three rings are sequences of keys, MRU first. The model's state and
where each part lives in the code:

* `size[r]`: the ring's `ring_home.frequency`, which the C ring keeps
  incrementally.
* `overSize[r]`: `SizedLRU.over_size`.
* `weight[k]`: an entry's `len`.
* `freq[k]`: an entry's `frequency`. `on_hit` adds 1 with no upper
  bound. The model lets an entry be hit at most `MaxFreq` times (a guard
  on `Hit`, a bound on the model only) so that the state space is finite.
* `mapped`: the key set of the mapping.

Ring membership (`InRing`), unlinking (`Unlink`, which closes up the
nodes on either side of the one it removes), `get_LRU` and the ring sum
that `SizeAccounting` compares against (`RingWeight`, a recursive
function, a reference definition rather than code) are written over the standard
Sequences module only. Proofs can then extend the module.

The `lru.py` operations are `Add` (`add_MRU`), `Hit` (`on_hit`, and
promotion via `take_ownership_of_entry_MRU`), `UpdateMRU` and `Delete`.

The policy steps are modelled from spec §4.2, because that code is not
under src/:
* the eden spill (`SpillEdenAdmit`, `SpillEdenContestWin`,
  `SpillEdenContestLose`);
* the protected demotion;
* the probation trim, against probation's limit plus protected's slack.

Every LocalClient call holds the client mutex. So a call and its catch-up
loop run without interleaving, and `pc` sequences the loop iterations as
steps. The spec leaves two choices open, and the model makes them as
follows:
* When probation is empty and the candidate does not fit, the candidate is
  evicted, because there is no incumbent to compare it with.
* Catch-up after a read runs the same three loops as after an add.

### MVCCCache

This module models `_simulate_storage` in `cache/tests/benchmarks.py`: one
StorageCache per connection, a shared local client, and a shared coordinator.

Each step is one record of the trace (`Read` or `Write`). A record may
first poll: when `TRANSACTION_SIZE` commits have passed, or when the oid is
in the connection's `bm_changes`.

The model's state:
* `currentTid`: `current_tid_int`.
* `data`: `adapter.mover.data`. A revision is named by its tid, because
  every write stores a fresh state under a new tid.
* `hvt[c]`: the connection's `bm_current_tid`, which is also its highest
  visible tid.
* `changes[c]`: its `bm_changes`.
* `cached`: the local client's `(oid, tid)` keys.
* `chain`: the coordinator's TRIs.

The coordinator's poll (invalidation and chain extension) and `visible_tid`
are not under src/; they are modelled from spec §4.5–4.6. The TRI
constructor's checks come from `test_mvcc.py`.

Each connection polls with its own prior tid, so polls by different
connections overlap. The spec's `extend_with` rejects a TRI that does not
start at the chain's end. The constant `PollMode` therefore chooses how
poll treats an overlapping range:
* `"strict"` raises.
* `"clip"` extends the chain by the uncovered part of the range.

## Runs

| run | cfg | checks |
|---|---|---|
| `HistoryStore_pg` | `MCHistoryStore_pg.cfg` | TypeOK, CurrentIsLatest, HistoryChain, VoteNeverFails, ImplementsAtomicHistory |
| `HistoryStore_mysql` | `MCHistoryStore_mysql.cfg` | TypeOK, CurrentIsLatest, HistoryChain, CommitsOnlyOwnWrites, ImplementsAtomicHistory |
| `MVCCCache` | `MCMVCCCache.cfg` | TypeOK, SnapshotVisible, ChangesComplete, ReadsCurrent |
| `MVCCCache_strict` (expects a violation) | `MCMVCCCache_strict.cfg` | PollNeverFails |
| `SegmentedLRU` | `MCSegmentedLRU.cfg` | TypeOK, Membership, SizeAccounting, OverSizeAccurate, BudgetAfterCatchUp, CatchUpTerminates |

The properties:

* `CurrentIsLatest`: `current_object` names an existing revision and the newest one.
* `HistoryChain`: no lost update. Every revision's `prev_tid` is the revision
  that `load_before` returns just below its tid.
* `VoteNeverFails`: the PostgreSQL/Oracle INSERT never meets an existing
  `current_object` row. It is not checked for MySQL, whose REPLACE cannot fail.
* `TypeOK`: every row and every tid is in range. The mutant that moves
  a vote's rows under the transaction's tid as it was before allocation
  (0) breaks it.
* `CommitsOnlyOwnWrites` (MySQL run): a vote moves, and a copy restores,
  only oids the transaction wrote since its `tpc_begin`. MySQL's MyISAM
  temp_store ignores rollback, so an aborted transaction's rows stay in it
  until `on_store_opened(restart=True)` drops the table. The mutant that
  reuses the store connection without that restart commits those rows. No
  other property notices that mutant. PostgreSQL and Oracle empty
  temp_store at every commit and rollback.
* `ImplementsAtomicHistory`: the refinement. Every step either changes no
  committed row, or is one atomic commit over the current revisions.

The SegmentedLRU properties:

* `Membership`: each mapped key is in exactly one ring, exactly once, and
  nothing else is.
* `SizeAccounting`: every ring's incremental size equals the sum of its
  entries' lengths, after every step.
* `OverSizeAccurate`: between calls, `over_size` matches size > limit,
  including for the ring an entry left.
* `BudgetAfterCatchUp`: an action property. When the loops end, the rings
  together fit the budget.
* `CatchUpTerminates`: the loops always end. This is checked under weak
  fairness of the catch-up steps, which the code justifies: they run
  inside the same synchronous call.

The MVCCCache properties:

* `SnapshotVisible`: `visible_tid` names the newest revision a
  connection's snapshot sees, or nothing.
* `ChangesComplete`: an oid missing from a connection's `bm_changes` has
  not changed since its snapshot.
* `ReadsCurrent`: every load returns the adapter's current state.

The chain's contiguity and the TRI constructor's checks are conjuncts of
`ChainWF` in `MVCCCacheProofs`' inductive invariant, so they are proved
rather than run. They hold in both modes, because a poll that cannot
extend the chain raises instead of appending. The hazard is the raise
itself, which is the finding below.

When a poll raises, the exception leaves `_simulate_storage`
(`benchmarks.py:537`). The record's load or write, and the
`bm_current_tid`/`bm_changes` updates, never run. `PollRaised` changes only
`failed` and the cache's invalidated entries. Every later record is
disabled by `~failed`.

Finding (spec gap), from `MVCCCache_strict`: with `extend_with` read
literally, a trace as short as this makes the benchmark's `after_poll`
raise NonContiguous:
1. c1 writes o1.
2. c1 writes o1 again and polls first, so the chain now ends at 3.
3. c2 reads o1 and polls from its own prior tid 2 to 4.

The spec does not say what poll does with such ranges.

MVCCCache bounds:

* 2 connections and 2 objects.
* Tids 2..9, which allows seven commits.
* `TRANSACTION_SIZE = 3` in place of 10. That is small enough that both
  reasons to poll (a commit count and a recorded change) occur, separately
  and together.

SegmentedLRU bounds:

* 3 keys with weights {1, 2} and limits 1/2/2.
* With these, every spill path happens: admit, contest won, contest lost.
* Protected can overflow by more than one entry, so demotion must loop.
* It runs without symmetry because it checks a liveness property.

HistoryStore bounds and why they are enough:

* There are 2 connections and 2 objects, under symmetry.
* There is 1 value. Values never affect control flow, and 2 values take the
  state space from about 40k to 3.7M states.
* `MaxTid = 3` allows three commits. That is enough for a conflict, its
  resolution, and a second write over the result. It is also enough for a
  copy interleaved with ordinary commits, and for an abort followed by a
  new transaction.
* Oracle has no run of its own. Its model differs from PostgreSQL's only
  in `on_store_opened`. Between transactions its temp_store is already
  empty (`TempEmptyWhenIdle`), so TLC reaches exactly the same states.

## Proofs

`HistoryStoreProofs` proves the following for every value of the constants.
The only assumption is `ConstAssumption`: `MaxTid` is a natural number,
`NoConn` is not a connection, and `Flavour` is one of the three flavours.

* `TypeCorrect`: `Spec => []TypeOK`.
* `NoLostUpdate`: `Spec => []HistoryChain`.
* `CurrentLatest`: `Spec => []CurrentIsLatest`.
* `VoteSucceeds`: `Spec => []VoteNeverFails`.
* `OnlyOwnWritesCommitted`: `Spec => []CommitsOnlyOwnWrites`, on every
  flavour. Its invariant `OwnInv` rests on `IInv`:
  - temp_store is empty between transactions except on MySQL;
  - while storing and voting, temp_store holds only oids this transaction
    stored;
  - the moved rows are a subset of the stored oids.
* `Refinement`: `Spec => ImplementsAtomicHistory`.
  - The initial states map to `AtomicHistory`'s initial state.
  - Under `IInv`, `TpcFinish` is `Commit(lastTid, Z, val)`. Here `Z` is
    the set of zoids it moved, and `val` maps each one to its moved row's
    state. `MovedRowsSound` supplies the tid, `prev_tid` and one-row-per-zoid
    facts this needs.
  - `PendingSound` gives the new `current_object`.
  - Every other action leaves both committed tables unchanged.

`HistoryChain` is not inductive on its own. A revision's `prev_tid` is
fixed long before the revision commits:
1. it is the serial a connection loaded (`SerialsExist`);
2. it is copied into `temp_store` (`TempRowsSound`);
3. `detect_conflict` checks it and `replace_temp` may overwrite it;
4. `move_from_temp` copies it again.

The strengthened invariant `IInv` therefore follows that value through every
stage. It has these conjuncts:
* `ChainLinks` is `HistoryChain` in quantifier form, without
  `load_before`'s CHOOSE.
* `LockHeld`: only the lock holder is past the start of its vote.
* `MovedRowsSound`: the moved rows carry the newest tid, one per zoid, and
  name the current revision.
* `PendingSound`: after `update_current`, `pending` points exactly the
  moved zoids at the new tid.
* `OwnWritesLocked`: uncommitted rows exist only under the commit lock.
  A copy's `tpc_begin` needs this to know it starts with no rows.

A copy's rows satisfy `MovedRowsSound` from the moment `restore` inserts
them. So the `restoring` phase joins `moved` and `updated` there.
`TypeOK` alone is not inductive: `restore` needs the copy's tid to be a
real tid, which `MovedRowsSound` supplies. So `TypeCorrect` follows from
`IInv`.

`TpcFinish` then puts each moved row on top of its object's chain.
`NoConflictPrevCurrent` is the step where `detect_conflict` matters: with
no conflicts, a `temp_store` row whose object has no `current_object` row
must have `prev_tid = 0`, because a non-zero `prev_tid` names an existing
revision.

There is one lemma per action. `ChainLinksHistory` derives `HistoryChain`
from `ChainLinks`: the revision that `prev_tid` names is the maximum that
`load_before` chooses. TLC also checked `IInv` on both flavours before it
was proved.

### MVCCCacheProofs

`MVCCCacheProofs` proves the following about the MVCC layer for every set of
connections and objects, every `MaxTid >= 2` and every `TxnSize >= 1`. The
only assumption is `MVCCAssumption`. All four hold in both poll modes.

* `TypeCorrect`: `Spec => []TypeOK`.
* `ChangesAlwaysComplete`: `Spec => []ChangesComplete`.
* `SnapshotAlwaysVisible`: `Spec => []SnapshotVisible`.
* `ReadsAlwaysCurrent`: `Spec => []ReadsCurrent`.

Strict mode needs no separate argument. A poll that raises ends the
driver's loop before `bm_current_tid` moves (`PollRaised`). So every
snapshot still ends a TRI, and the last load's result stays current.

All four follow from `SpecIInv`, `Spec => []IInv`. `IInv` has these
conjuncts:
* `TypeOK`.
* `DataLatest`: `data` names the newest committed revision of each oid.
* `BelowCurrent`: no revision, snapshot or TRI lies past `current_tid_int`.
* `ChangesSound`: a recorded change is the current revision and newer than
  the snapshot. Every revision newer than a snapshot is recorded.
  `ChangesComplete` follows from this and `DataLatest`.
* `ChainWF(chain, hist)`: the chain is non-empty, valid and contiguous.
  Each TRI names committed revisions, and the newest one in its range.
* `SnapshotsOnChain`: every connection's snapshot is the end of some TRI,
  and the last load returned the current state.
* `ClipNeverFails`: with clipped polls nothing raises. `RaisedIInv` needs
  it, to rule out the raising branch in clip mode.

`ChainWF` also carries three facts that follow from contiguity only by
induction along the chain:
* ordered: a later TRI starts where an earlier one ends, or later;
* covered: every tid from 2 to the chain's end lies in some TRI;
* newest: some TRI is the newest one that knows an oid.

The provers cannot do that induction, so the invariant states the facts.
Each poll preserves them (`AppendWF`, `PollWF`). A write preserves them
because its new revision lies above every TRI (`HistGrowWF`).

`ChainVisible` is the core lemma. At a TRI's end, the newest TRI that knows
the oid names the newest revision visible there. Any later revision at or
below that end would lie in a later TRI (covered, ordered). That later TRI
would know the oid (exact), which contradicts "newest".

There is one lemma per action: `ReadIInv`, `WriteIInv` and `InitIInv`.
`RaisedIInv` covers a record whose poll raises.
`PolledFacts` collects what the poll before a record leaves. TLC checked
`IInv` as an invariant in both poll modes on the `MCMVCCCache` bounds before
it was proved.

### SegmentedLRUProofs

`OverSizeAlwaysAccurate`: `Spec => []OverSizeAccurate`, for every set of
keys and weights and all ring limits. Its invariant `FlagsInv` is stronger
than the property. It says every ring's `over_size` flag is right in every
state, not only between calls. Each step that changes a ring's size
recomputes that ring's flag. For a foreign move, that includes the old
parent's flag. The lemmas `TakeOwnershipFlags` and `DeleteEntryFlags`
state this once for the two primitives the policy steps share.

The remaining SegmentedLRU theorems rest on one inductive invariant,
`IInv == TypeOK /\ RingsOK(order, size, weight, mapped) /\ CatchUpBounds`.
The assumption is `LRUAssumption`: weights are positive naturals, and the
limits and `MaxFreq` are naturals with `MaxFreq >= 1`.

`CatchUpBounds` is defined in the proof module. Once the eden loop has
ended, eden is within its limit. Once the protected loop has ended, so is
protected. The budget proof needs both facts, but as a checked property
they would only restate the loops' exit guards.

* `LRUTypeCorrect`: `Spec => []TypeOK`. Only the ring sizes make this
  non-trivial. `update_MRU` adds `new_size - old_size`, and every unlink
  subtracts a length. A size stays a natural number only because it equals
  the sum of its entries' lengths (`RingsOK`). The mutant that applies
  `update_MRU`'s delta with the wrong sign drives a size negative.
* `MembershipHolds`: `Spec => []Membership`.
* `RingSizesSummed`: every ring's size is the sum of its entries' lengths.
* `BudgetHolds`: `Spec => BudgetAfterCatchUp`. By `CatchUpExit`, only
  `ProbationDone` ends a catch-up. Its guard, together with
  `CatchUpBounds` and the definition of the slack, gives the budget.

`RingsOK` says four things:
* every ring is a sequence of keys without duplicates (`NoDup`);
* the mapping holds exactly the keys with a node (`Mem`);
* no key has nodes in two rings (`Uniq`);
* every ring's size is `Summed`: there is a prefix-sum function `ps`
  with `ps[0] = 0`, `ps[i] = ps[i - 1] + weight[order[r][i]]`, monotone,
  ending at the size.

Why `TypeOK` alone is not inductive: every catch-up step calls `get_LRU`
on a ring only because its size is over a limit. Only the sum shows that
such a ring is non-empty, so that the LRU entry is a key in the ring.
Only the sum shows that unlinking an entry leaves the size a natural
number. The prefix-sum witness is rebuilt explicitly at each step, which
avoids induction:
* a shift for a push (`SummedPush`);
* a splice for an unlink (`SummedUnlink`);
* the same function when another key's length changes (`SummedOther`).

Four lemmas state what the ring primitives preserve, once each:
`AddOK`, `MoveOK` (a foreign move), `DeleteOK` and `FrontOK` (update_MRU,
and make_MRU as the case of an unchanged length). `RelocateOut` and
`RelocateTo` give the mapping facts. The admission contest won is a
`DeleteOK` of the victim followed by a `MoveOK` of the candidate. There is
one lemma per action, and `NextIInv` combines them. TLC checks every
conjunct of `IInv` on the `MCSegmentedLRU` bounds. `SizeAccounting` there
is stronger than the `Summed` conjunct, since `RingWeight` is a witness.

### What stays model-checked

* SegmentedLRU's `SizeAccounting`, `size[r] = RingWeight(r)`. It says what
  a recursive sum computes for every ring, and equating the prefix-sum
  witness of `RingSizesSummed` with `RingWeight`'s recursive function
  needs induction along the ring. No installed prover can instantiate the
  induction theorems. Everything the other properties need from it is
  proved in the relational form (see above).
* Liveness and anything stated with ENABLED, such as `CatchUpTerminates`.
  The provers cannot reason about fairness.
* What a recursive definition computes for every input. The induction
  theorems take an operator parameter that no installed prover can
  instantiate.

## Plan

1. Done: `restore` and the copy's `tpc_begin` are actions.
2. The refinement to `AtomicHistory` is done. A further abstraction would
   serialise whole transactions, reads included.
3. SegmentedLRU's `SizeAccounting` in its `RingWeight` form needs an
   induction principle the installed provers can apply. Until then it
   stays model-checked; its relational form is proved.
4. Add the coordinator's register/unregister and gc. The spec has
   gc drop TRIs below the oldest connection's hvt, which can hide
   visibility information.

Not modelled, and why:

* LocalClient's size ceiling, compression and snapshot save/restore: I/O
  and formatting, with no concurrency of their own.
* Liveness of the commit lock: the storage's scheduling is not under src/.
* The blob doctests: a filesystem doctest harness with no state machine of
  its own.
