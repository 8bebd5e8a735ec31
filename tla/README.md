# A verification project for Polyjuice

Polyjuice is a main-memory transaction engine, a fork of Silo in C++, whose
concurrency control is chosen access by access by a learned policy.  The
repository holds eighteen near-copies of one code base; `ae-tpcc-polyjuice` is
the reference here, and paths below are relative to it.

This directory holds TLA+ modules that model the engine, TLC configurations
that check them on small instances, and TLAPS proofs for every value of the
constants.  `PROJECT.json` maps each definition to the lines it models.

## 1. The system

| component | where | state | operations |
|---|---|---|---|
| commit protocol | `txn_impl.h`, `piece_impl.h`, `txn.h` | per transaction: `state`, `cur_step`, `read_set`, `write_set`, `absent_set`, start of the current piece in each, `dep_queue`, `commit_tid`, `last_commit_tid_` of the core | `do_get`, `do_put`, `do_update`, `do_insert`, scans; `before_access_operation`, `do_wait`, `expose_uncommitted`, `commit`, `abort_impl` |
| record headers and access lists | `tuple.h`, `tuple_impl.h` | header word (lock, modifying, write intent, latest, deleting, version counter), `version`, `last_txn_seq`, value, list of entries | lock and unlock, `stable_read`, `write_record_at`, `append_entry`, `unlink_entry`, `get_dependent_entry` |
| epoch ticker | `ticker.h` | `current_tick_`, `last_tick_inclusive_`, per core tick, depth, lock | `guard`, `~guard`, `tickerloop` |
| RCU | `rcu.h`, `rcu.cc`, `pxqueue.h` | per core `queue_`, `scratch_`, `last_reaped_epoch_` | `free_with_fn`, region enter and exit, `do_cleanup` |
| commit ids and version GC | `txn_ic3_impl.{h,cc}` | id word (core, number, epoch), `last_commit_tid_`, per-core queues of spilled versions | `gen_commit_tid`, `on_dbtuple_spill`, `on_logical_delete`, `clean_up_to_including` |
| logger | `txn_ic3_impl.{h,cc}`, `circbuf.h` | per core and logger a ring of all buffers and of full ones, horizons, persisted epochs | `on_tid_finish`, `writer`, `advance_system_sync_epoch` |
| policy | `policy.{h,cc}`, `PolicyGradient.h` | tables | inference of read mode, visibility, piece end, waits |
| inserts, deletes, absent reads | `piece_impl.h`, `txn_impl.h`, `masstree_btree.h` | markers and tombstones in the tree, `absent_set` of a transaction, leaf versions | `do_get` that misses, `try_insert_new_tuple`, `handle_last_tuple_in_group`, `cleanup_inserted_tuple_marker` |
| locks and barriers | `spinlock.h`, `mcs_spinlock.h`, `spinbarrier.h` | a word, a queue | lock, unlock, wait |
| B-tree | `btree*.h`, `masstree*` (vendored) | nodes with versions | search, insert, remove |
| benchmarks | `benchmarks/` | workload state | `bench_worker::run`: begin, retry, back off |

### How they interact

A worker thread owns one transaction object and reuses it.  Inside an RCU region
(which is also a ticker region) a transaction reads records it finds in the
B-tree.  Each access may first wait for the transactions it depends on
(`do_wait`), then reads the installed version (clean) or the latest write on
the record's access list (dirty).  After an access the policy may end the
*piece*: `expose_uncommitted` locks the piece's records in address order,
validates its reads early and links its reads and writes into the access lists,
where others find them and come to depend on this transaction.  If the early
validation fails, the piece is rolled back and run again.  At the end `commit`
waits for every dependency to commit or abort, locks the write set with a write
intent, validates the read set, draws a commit id, installs, releases, unlinks
its entries, and publishes `COMMITED`.  Abort unlinks everything and publishes
`ABRT`; a transaction that read its uncommitted values aborts too.
An insert puts its tuple into the tree at once, as a marker; a delete
leaves a tombstone.  Overwritten versions and tombstones go onto the
collecting queue of the core that made them, which frees the ones no snapshot
can reach and takes tombstones out of the tree, under the tuple's lock and
then through RCU; both decide by ticks when memory is free.  The ticker's daemon decides when a tick is over.
The logger groups commits by epoch.

### What is hard

* Several workers change shared words without a common lock: the header of a
  record, the state and step of another transaction, the object of a transaction
  that has already ended and is being reused.
* A dirty read is a bet on another transaction's future.  It must be followed
  by the right wait and the right test, also if the writer aborts, overwrites its
  write, rolls a piece back or ends and starts again in the same memory.
* A piece can fail half-way and is undone, while others already see it.
* Waits between transactions can form cycles; only the 100 ms timeout ends them.
* The ticker, RCU and the logger decide by loads at different times.
* A reader takes no lock: it copies a record that is being written, spilled or
  replaced, and must see that from the header word.
* What a search finds can be a marker, a tombstone or a tuple that has left the
  tree; what a search does not find is proved by the version of a leaf.
* Which old versions a snapshot may still need is arithmetic on a clock that
  moves while commits draw their ids.

### What makes each component correct

* Commit protocol: committed transactions are serializable; nobody commits having
  read a value of a transaction that aborts; what validation compares identifies the
  value that was read; versions of a record increase, except where a tick overtakes a
  dirty reader (section 5); transactions end.
* Access lists: they name only running transactions, by entries of their current
  sets; locks are held only where the protocol says and never while waiting.
* Ticker: no tick is over while a region stamped with it runs; ticks end.
* RCU: nothing is freed in use, freed twice, or lost.
* Logger: a transaction reported durable is, with all it depends on.
* Record headers: a read returns one version whole, one that was current; what
  validates is current and unlocked; no write goes into a replaced tuple.
* GC and snapshots: no version is freed that a snapshot can still reach, none
  twice, none never; what a snapshot has read does not change; only tombstones
  leave the tree.
* Inserts: what is committed is found, what is not committed is not read,
  a key that was absent still is when the absent set validates.

`PROJECT.json` lists the hazards, each with its line and the property aimed at it.

## 2. The plan

1. `Polyjuice`, with `History`, `MCPolyjuice` and `PolyjuiceProofs`: the protocol
   that makes the system what it is.  *Done for existing records; every safety property proved,
   serializability for policies that read clean only.*
2. `Ticker` implementing `Epochs`, with its theorems in `RcuProofs`.  *Done and proved.*
3. `Rcu` composed with `Ticker`, with `RcuProofs`.  *Done and proved.*
4. `Circbuf`, refining `Fifo`, and `Logger`, with `Epochs` as its clock.
   *Done without compression; both proved, with `CircbufProofs` and `LoggerProofs`.  The liveness of
   the cycle of buffers (the lag limit against the persister) to be added.*
5. `TupleVersion`, with `TupleVersionProofs`: the optimistic header protocol that
   justifies taking a clean read as one step.  *Done; all but snapshot reads proved.*
6. `Inserts`: inserts, absent reads, tombstones, with the leaf's version as the
   interface of the B-tree.  *Done for point accesses; its main
   invariant proved.  Scans and splits of leaves to be added.*
7. `Versions`: epochs in commit ids, version chains, snapshots, the collector
   with its lock, with `VersionsProofs` and `VersionsSnapshotProofs`.  *Done; proved
   as long as no two collectors meet at one MCS lock.*
8. `AccessList`: the pointer list refining the sequence `Polyjuice` uses, with
   tuples that are replaced while they have one.
9. The links of the MCS lock, refining the queue in `Versions`; the lock
   manager of the two-phase locking baseline.

Theorems worth proving, in this order: type correctness of each core module;
the safety of the ticker and its refinement; `LockDiscipline` and
`VersionsIncrease` for `Polyjuice`; `NoUseAfterFree` of `Rcu`; `CommittedIsFound`
of `Inserts`; `CleanReadsAreCurrent`, `CurrentInTree` and `ValidatedIsCurrent` of
`TupleVersion`; `EachObjectInOnePlace` of `Rcu`, `LogInOrder` and `CommitsAreLater`
of `Logger`; `NoDanglingEntries`, `ReadsRecoverable` and `TestsSuffice` of `Polyjuice`;
`ReadsCommitted` and `AbsentReadsValidated` of `Inserts`; the FIFO of `Circbuf`;
`RemovesTombstones`, `EachVersionInOnePlace`, `NoUseAfterFree` and `SnapshotIsStable`
of `Versions`.  All of these are done.
The protocol as a whole is not serializable (section 5), because of its dirty reads; that
these are the only reason is the theorem `CleanSerializable`.

## 3. The modules

### Polyjuice

`pc[t]` is where the worker that owns object `t` is: the constructors (`ctor`),
executing (`exec`, `wait`, `access`, `piece`, `pwait`), exposing (`elock`,
`eread`, `ewrite`, `undo`), committing (`cwait`, `clock`, `validate`, `vver`, `vseq`,
`vint`, `gen`, `install`, `release`, `cleanup`), aborting (`aunlock`, `aunlink`).  A step is
what one thread does between two points at which another can interfere: an
access under a record's lock, one acquisition, one test of the validation, one
install, one unlink.  The remaining variables carry the names of the fields (the
declarations say which).

* An id is `<<core, counter>>`, and an entry of an access list is the id, the kind
  and the index in the set, which is what the pointer identifies.  `IsCommit`
  and `IsAbort` compare ids as the code does, and both hold of an object
  that was reused.  The two constructors are two steps because the base class
  resets `state` before the derived class changes the id.
* A commit id is its epoch, number and core, compared in this order, as the word is that
  `MakeTid` packs.  `gen_commit_tid` is not one step.  It loads the epoch (`Validated`);
  starts from the last id of the core, or from zero when that is of another epoch; is raised to
  the version of each read, one at a time (`GenRead`); then to the versions of the write
  set, and draws (`GenCommitTid`).  A dirty read contributes the version its record has by
  then, of which nobody holds the lock, and which may be of a tick after the epoch: then
  the id is drawn by `GenCommitTidOvertaken`, with the number after that version's and the
  older epoch.  `tick` and `region` are the ticker as `Epochs` promises it: a
  transaction runs in a region of the tick it began in, and `Tick` moves on when nobody runs
  in an earlier one.  The number of an id has no bound.
* The policy is unconstrained: the read mode of an access, the end of a piece, and
  which dependencies are waited for until which step, are chosen freely
  from the constants `AccessModes`, `PieceEnds` and `Waits`.  So every learned table
  is covered.
* A timeout may end a wait at any moment, and the step that observes it is the
  step that aborts (`WaitThrow`, `CommitWaitFail`).
* A value is named by the write that produced it, so that who read what is
  visible in `hist`, and `chain` records the order of installs.  Both are history
  variables that no guard reads.
* The validation of a dirty read is four loads without a lock and is four steps here.
  A clean read and its validation are single steps: the code reads them through
  the header's version protocol, and `TupleVersion` shows what that gives.

What is coarser than the code, and why it is sound: locks are atomic guards, because a
spin lock is one test-and-set; the loads of a commit id and a version are one
step, as are the state and the id of a dependency, because the first of each
pair no longer changes once the test has passed; an access publishes its step
in the step that makes it unless it waits first, because waits are only hints
and no property reads the step.

### History

`IsSerializable` is the definition of serializability over the committed transactions:
the precedence graph of who read, overwrote and installed what has no cycle.

### Ticker, Epochs

`Ticker` has the steps of a guard's constructor and destructor (nested ones too) and
those of the daemon's loop, load by load.  `Epochs` states what users rely on
in four actions: a region is stamped with the current tick, a tick is declared over
only when no region stamped with it or earlier runs.  The refinement maps a
region to the interval from reading the tick to leaving.

### Rcu

`Rcu` extends `Ticker` with shared objects, the per-core queues and `do_cleanup`, which
opens a region of its own whose end runs `do_cleanup` again.

### Circbuf, Fifo

`Circbuf` is the ring access by access: `enq` is the load of `head_`, the test of the
slot, the compare-and-swap and the store; `deq` moves `tail_` and then clears the
slot, with the loads before that merged, since only the dequeuer writes `tail_` and
only an enqueuer fills a slot; `peekall` is a load per slot; `peek`, by a thread that
is not the dequeuer, two loads.  Of such a peek, `pfirst` and `pout` remember the
first item and the number of dequeued ones when it began, and `pval` what it found:
what it finds must not have been dequeued before it began, and if it finds
nothing, either nothing was queued then or what was first has been dequeued meanwhile
(`PeekIsTimely`).  An item behind the first can be missed; that is the code.  `Content` is the queue the ring stands for: from
`tail_` on, without a slot whose item is already taken but not yet cleared.  Under
it `Circbuf` with one enqueuer implements `Fifo`.

### Logger

Cores, loggers, the persister and the clock.  The two rings of a core
(`all_buffers`, `persist_buffers`) are sequences, which is what `Circbuf` provides
to one enqueuer and one dequeuer.  What it does not provide, a reliable peek from
a third thread, is kept: `pmissed` records that a dequeue fell into the persister's
peek, which then sees an empty ring (`PeekIsTimely` of `Circbuf` says exactly when).  The clock is `Epochs`; a core starts no
region while the persister holds its lock, and the persister obtains the lock only
outside of regions (`LockFails` stands for its giving up after three attempts, for
any reason).  `lpc` and `ppc` say where a logger and the persister are in their loops.
Each store and load of `epochs_` is a step.  A transaction is its number and
its epoch; how much fits into a buffer is `BufferSize` transactions.  `committed` and
`disk` are history variables.

### TupleVersion

One record, word by word: `heap` holds the tuples by address, `root` is what the
tree holds.  A writer's `pc` follows `lock`, `write_record_at` (in place; with a
spilled copy of the old version behind; by a new tuple in front), `on_logical_delete`,
the relinking in `commit`, and `unlock`, which bumps the header's version; each
store is a step.  A reader's follows `record_at` and `record_at_chain`: the load of
the header, the test of the version, two words of the value, the link, the second look
at the header; and then `stable_is_latest_version`.  A value is two words, so that a
torn one can be seen.  `fits` is the writer's choice of a value that does or does not
fit; `installed` and `seen` are history.  A commit id is a number; `TickSpan` of
them make a read-only tick.

### Versions

Versions of several records across cores.  `Versions` extends `Epochs`, the proved
abstraction of the ticker: a transaction is a region.  A commit id is the number
the code packs (`MakeTid`), and a snapshot id is computed as in `ComputeReadOnlyTid`.
Locking, validating and drawing the id are one step each, in the code's order; the
installs are a step per key.  `heap` is never reused, so that a pointer into
`freed` is a use after free.  A snapshot walks its chain a tuple at a time.  The
collector is `on_post_rcu_region_completion` and `clean_up_to_including`, entry by
entry.  It is the only user of the MCS lock: `mcs[m]` is the queue at the lock
of a key's first tuple, which all later tuples of the key inherit, and taking it (`McsAcquire`) and
taking the tuple's own spin lock (`SpinLock`) are two steps, as is what
`mcs_unlock` does with a successor (`McsRelease`).  RCU enters by its promise, proved in
`RcuProofs`: what is retired is freed when the regions of that moment are over.
`UncontendedSpec` is `VersionsSpec` without the steps by which a second
collector comes to the MCS lock of a key while one is there: what they then do is
finding 3, and `versions_lock` runs the full specification.

### Inserts

Keys of one leaf.  `ExtractVersionNumber` is what the code compares of a leaf,
`full_version_value`: with room in the leaf, only the number of its keys changes it,
so a removal and an insert restore it.  `PutInsert` puts the marker into the tree with
its value in it; a get is a search and a read of the tuple, two steps; a commit locks
tuple by tuple, in the order of the locks' addresses, which a replacement inherits;
an abort cleans tuple by tuple.  The application's abort leaves its markers, as the
code does.  `Collect` is the effect of the collector, with `during` for the regions it waits
for; how it gets there is in `Versions`.  `MAX_TID`, the version of a marker, also
bounds the commit ids.

## 4. The runs

Two records suffice for the conflicts in question: a precedence cycle of two or
three transactions goes through two records, and an access list is a property of one.
`MaxRuns` says per worker how many transactions it runs: one (`Once`), or, in
`polyjuice_reuse`, one in the first object and two in the second (`Reused`).  `MaxTick` is
the last tick: 2 in `polyjuice_reuse`, so that a tick can fall between any two steps of a
transaction, `gen_commit_tid`'s included, and 1 elsewhere.  The third transaction can commit in
the new tick what the first has read dirty and is about to look at again: the least instance
in which a dirty reader is overtaken.  `MCPolyjuice` names the access sequences.

| run | instance | checks | what it shows |
|---|---|---|---|
| `polyjuice_expose` | 2 transactions that update and read two records, all choices, waits, rollbacks by the user | `Serializable`, `TypeOK`, `NoDanglingEntries`, `LockDiscipline`, `EveryTxnEnds` | shared structures stay consistent through retries, timeouts and aborts; transactions end under the fairness below |
| `polyjuice_reuse` | 2 workers, 1 and 2 transactions, 2 ticks, programs write a record twice or once | `ReadsRecoverable`, `TestsSuffice`, `VersionsIncrease` | nobody commits on the ground of a value whose writer may abort, also when objects are reused; the tests of a dirty read are the right ones; versions increase, but for an overtaken dirty reader |
| `polyjuice_race` | 3 transactions, dirty reads | `Serializable` (violated) | finding 1 |
| `rcu` | 2 cores, nesting 2, 2 objects, ticks to 4, two ticks to an RCU tick | `TypeOK`, `RegionsAreNotOver`, `CoresLagAtMostOne`, `ComputedBoundIsNoLower`, `ImplementsEpochs`, `TicksEnd` of the ticker under RCU's use; `RcuTypeOK`, `NoUseAfterFree`, `EachObjectInOnePlace`, `QueuesInOrder` | no tick is over too early, and each is in the end; nothing is freed in use, twice or never |
| `circbuf` | 1 enqueuer, 3 slots, 5 items | `PeekAllIsPrefix`, `PeekIsTimely`, `ImplementsFifo` | the ring is a bounded queue; a foreign peek finds nothing stale, and misses the first item only if that is dequeued meanwhile |
| `logger` | a busy core with 2 buffers of 2 transactions and 3 transactions, an idle core, one logger with a writev of 1, ticks to 3 | `LogInOrder`, `OneEpochPerBuffer`, `CommitsAreLater` | nothing is lost, repeated or reordered on the way to disk; no commit into an epoch already declared durable |
| `tuple` | 2 writers, 1 reader, 2 locks with intent, ids to 5 in ticks of 2 | `TypeOK`, `CleanReadsAreCurrent`, `SnapshotReadsNewest`, `CurrentInTree`, `ValidatedIsCurrent`, `ReadsEnd` | a lock-free read returns a version whole, the right one; what validates is current; reads end |
| `versions` | 2 cores, 1 record, 3 transactions that write, delete or snapshot on either core, ticks to 6, two to a read-only tick, `UncontendedSpec` | `VersionsTypeOK`, `NoUseAfterFree`, `SnapshotIsStable`, `EachVersionInOnePlace`, `RemovesTombstones` | collection never reaches what a snapshot or a late writer holds, frees each version once, and removes no record that was revived |
| `versions_snapshot` | 3 cores, 2 records, 3 transactions | `SnapshotsSerializable` (violated) | finding 2 |
| `versions_lock` | 2 cores that write and delete one record | `RemovesTombstones` (violated) | finding 3 |
| `inserts` | 3 transactions, 2 keys, 1 loaded, inserts, deletes, misses, aborts of both kinds | `InsertsTypeOK`, `CommittedIsFound`, `ReadsCommitted`, `AbsentReadsValidated`, `TransactionsEnd` | what is committed is found, nothing uncommitted is read, commits end |
| `inserts_absent` | 2 transactions that insert a key they have not found | `Serializable` (violated) | finding 4 |

Five items go round a ring of three slots more than once, so that head and tail wrap,
meet when full and meet when empty.  Three transactions in buffers of two make a core
fill one, cross an epoch, run out of buffers and get one back; with `MaxIovs` below
the number of buffers the limit of a writev is met, and with a lag of two epochs
the lag limit.  A core writes its own log only, so that one busy core shows the order;
the second makes the logger and the persister walk over cores and take the minimum.

`rcu` stops at `MaxTick`: the daemon sleeps for good, cores go on.  Four ticks are
three rounds of the daemon, and a core lags at most one; with a multiplier of two an
object is retired, grows old and is freed.  The code's multiplier is 25; only the
division matters.  The safety of ticker and reclamation is proved for any number of
cores.

In `tuple` two locks with intent give every pair of in-place write, spill,
replacement and delete, and the two bits of the header's version do not wrap, which the
code takes for granted over 2^27.  Five ids in ticks of two are three read-only ticks, the
least at which a snapshot id exists while a later version is spilled.  Locks for reading
or exposing are not bounded.

`versions` needs six ticks: a version of the first read-only tick, one that replaces
it in the second, and the end of the second, which lets it be collected.  Both
cores delete, revive and collect; only that one collector comes to the MCS lock while the other is
there is left out (`UncontendedSpec`).  `versions_lock` leaves it in, and is finding 3, after
which nothing can be said of the tree.  A read-only tick is two ticks instead of 25,
which is the least that tells ticks from read-only ticks.

Two keys in one leaf and three transactions let an insert, a delete and a miss of the
same key meet with a failing commit in between, and let two write sets cross.  The
programs of `inserts` do not include two transactions that miss and then write the same key
and both commit; that is finding 4.

Deadlock is not checked where instances are finite by their bounds (every
transaction done, every lock used, the last tick reached): the liveness
properties say instead that what has begun ends.

The mutants in `PROJECT.json` are the bugs each property was tried against: a
dropped intent test, a forgotten sequence number, a skipped identity check, locks
kept through a rollback, an unlock that does not bump the version, a collector one tick
too eager, a marker taken for a record, and so on.

### Fairness

`FairSpec` of `Polyjuice`: each worker keeps running its transaction (weak fairness of
its steps, but not of `Begin`), and an acquisition that is possible again and
again happens (strong fairness of the steps that take a lock).  The first is the
operating system's scheduler.  The second is what a spin lock gives in practice: with
weak fairness alone a worker that retries a piece for ever can keep the lock from
the aborting transaction whose entry makes it fail.  Waits need no fairness of
their own, since the timeout always enables a step.

`FairSpec` of `Ticker`: the daemon and the constructors keep running, regions
end (`Exit`), and the daemon obtains a core's lock that is free again and again,
which the code relies on.  `RcuFairSpec` is the same for the composition with RCU,
where a region that ends runs `do_cleanup`.

`FairSpec` of `TupleVersion`: a writer that has found the tuple and a reader that
reads go on; neither is made to start.  A reader that meets a new
version starts over, so that reads end because the writes do.  `FairSpec` of
`Inserts`: a worker runs its transaction to its end; the application need not abort, and
the collector need not run.  Weak fairness suffices for the locks there, since
a lock that is given back is not taken for ever.

## 5. Findings

1. **Dirty validation is not atomic** (`txn_impl.h:1058-1078`, run
   `polyjuice_race`).  The commit id of the writer, the record's version, its
   sequence number and its write intent are loaded in this order without a lock.  A
   third transaction that installs and releases the record in between goes
   unnoticed, and a cycle commits.  By the same gap a read of a write that its writer
   has overwritten can pass, if the writer's object runs another transaction between the
   first test and the others and that writes the record under the same sequence number.
   `TestsSuffice` says that the gap is all that is wrong with these tests: made at one
   moment they would be right.  That at least no value of an
   aborted transaction gets through is `ReadsRecoverable`.
2. **Snapshots are not consistent with the serial order** (`txn_ic3_impl.h:980`, run
   `versions_snapshot`).  A commit reads its epoch after its validation.  A transaction
   can be validated, be overtaken by one that overwrites what it read and commits in the
   same tick, and draw its own id in the next: a snapshot at the tick's end sees the
   second and not the first, although the first comes before the second.
   `SnapshotIsStable` still holds: a snapshot is the state of a tick, but not of
   a prefix of the serial order.
3. **The collector's lock can protect the wrong tuple** (`txn_ic3_impl.cc:620`,
   `tuple.h:577-612`, run `versions_lock`).  Tuples of a key share an MCS lock and have
   a spin lock each.  When two cores collect two tombstones of one key, the hand-over of the
   MCS lock leaves the first tuple's spin lock taken and the second's not.  A transaction
   commits into the second tombstone, and the collector removes the
   committed record; the first tuple stays locked.  The case needs the key to be
   deleted on one core, revived, and deleted on another, and both collectors to
   come at the same time.
4. **An absent read is not protected from a marker or a tombstone**
   (`txn_impl.h:1096`, run `inserts_absent`).  The absent set holds versions of
   leaves.  A commit into a marker or over a tombstone that is in the leaf already
   changes none, so two transactions that read the same absence both commit.

More disagreements were met while modelling; the models behave like the code,
and no run is spent on them:

* `check_rmw` marks the read entry of an earlier piece as overwritten; the rollback of a
  piece drops the write and keeps the mark (`piece_impl.h:488`), and an assertion of the
  abort path (`txn_impl.h:333`, compiled out by default) fails.
* A write waits for the reads linked after the latest write, and these for that write
  (`tuple.h:352`): when such a read's transaction times out, the later write is
  installed before the earlier one.  What commits is validated all the same; the order of waiting is
  a hint.
* The ring is not safe for several enqueuers (`circbuf.h:47`), though the comment at
  `circbuf.h:11` says so: one that is overtaken by a whole round of others wins its
  compare-and-swap and overwrites an item.  Every ring has one enqueuer.
* An epoch is declared durable too early (`txn_ic3_impl.cc:182`, against
  `txn_ic3_impl.h:318`): a core between two regions with nothing pushed is moved on,
  but its last transactions may be in the buffer it is still filling.
* A read does not see the transaction's own write (`piece_impl.h:100`), although
  `read_own_writes` is set in the traits (`txn.h:764`).
* The durable epoch can go back, against the assertion at `txn_ic3_impl.cc:200`:
  `thread_end`, which takes no lock, pushes a buffer between the persister's second
  peek and its store of the core's epoch, and the logger's test and store of the
  same epoch (`txn_ic3_impl.cc:377-381`) surround that store.
* A commit id is not always above the versions it replaces.  The epoch is loaded at
  `txn_ic3_impl.h:980`, the version of a dirty read at `:1014`, of a record nobody has to
  hold.  If that version is by then of the next tick, the INVARIANT at `:1036` (the id met is of the
  commit epoch; compiled out by default) does not hold, and `:1037` puts that version's number into
  the older epoch: the version of a locked record falls within its epoch, say from number 3 to
  number 2, and a core may draw an id a second time.  The test of a clean read
  (`txn_impl.h:1044`) takes a version that fell for one that is not newer.
  It takes a dirty read and a tick between two loads; `VersionsIncrease` says that
  nothing else can go wrong with the order, and `GenCommitTidOvertaken` fires in `polyjuice_reuse`.
* A peek by the persister may see an empty ring that never was
  (`txn_ic3_impl.cc:168`), because the logger moves the tail in between: its first item is
  dequeued and there are others behind (`PeekIsTimely`).
* A leaf's version counts its keys (`masstree_btree.h:446`): a removal and an insert
  between a miss and its validation restore it, and a key that was absent at the
  one may be there at the other.  `AbsentReadsValidated` therefore excludes
  transactions during which a key has left the leaf.
* Markers of inserts stay in the tree after aborts by the application and by the first
  phase of a commit (`txn_impl.h:140`), although the comment at `txn_impl.h:210`
  lists their removal.  Nothing committed is lost by it (`CommittedIsFound`,
  `ReadsCommitted`).
* A dirty read of a marker's write keeps `MAX_TID` as the version it would have to
  find, from which a commit id overflows (`txn_ic3_impl.h:1037`) if it passes.

## 6. The proofs

All theorems hold for every value of the constants under the named assumptions of
the modules.

* `RcuProofs`, the ticker.  `CoresLagAtMostOne` and `RegionsAreNotOver` are not inductive: a
  core between reading the tick and storing it holds a tick the daemon may have
  passed.  The inductive invariant adds where the daemon is: while it walks, the
  cores it has passed are in the current tick and the others at most one behind; the
  published bound is one behind the current tick while it sleeps and two while it
  walks; a core that has read the tick holds its lock until its region ends, so
  that the daemon cannot pass it if it is behind.  From it
  follow `RegionSafety`, `LagSafety`, `BoundSafety`, and, step by step,
  `Refinement`: `Ticker` implements `Epochs`.
* `PolyjuiceProofs`.  `TypeCorrect`: one lemma per group of actions, with
  lemmas about what `Unlink`, `SubSeq` and `RemoveAt` return.  The part that is
  not mere typing is `PieceInSets`: the piece under construction starts inside
  the read and the write set, so that the rollback never cuts into an exposed piece.
  `LockDiscipline` speaks of the phases in which a lock is
  held; to prove it one must know exactly which, in every phase.  The invariant
  `LockInv` has one conjunct per phase: an unlocked transaction owns nothing, an
  exposing one the records of its piece so far, without intent, a validating one
  its whole write set with intent, an installing one what is still to be installed.
  Frame lemmas say that a step of another transaction
  does not touch the locks of these records, nor their versions, because it would need
  the lock; so each action has to be looked at for one transaction only.
* `PolyjuiceProofs`, the order of versions.  `VersionOrder` needs to know where an epoch can
  come from.  `ClockInv` says that nothing is of a tick to come (`NotAhead`, `RecordClock`); that while a
  transaction draws its id, the versions of its locked write set and of its clean
  reads are of epochs up to its own, so that only a dirty read can have brought a later
  one (`Drawing`, `Met`); and that the id drawn exceeds what is still to be replaced, unless that has
  happened (`Replacing`, `Replaces`).  What a write set has locked was
  installed before the epoch was loaded.
* `PolyjuiceProofs`, what is read, in three steps.
  `ListsAlive`: `EntryInv` says of each transaction, phase by phase, up to which index its
  sets may have entries (`ReadTop`, `WriteTop`), that it has each entry at most once, and
  that all are gone when it ends.  A retried piece cuts its sets below these
  indices only after the rollback has unlinked what is above.
  `Recoverable`: a value read clean is decided because only decided transactions
  install; a value read dirty is named by its dependency, and `ReadInv` counts the
  dependencies the validation has passed (`Passed`).  What is decided stays decided
  (`DecidedStays`), through the reuse of the object.
  `TestsRight`: that version, sequence number and commit id identify the installed
  write cannot be had from commit ids being new, because an overtaken one need not be.  It needs
  that a version names the core of the value installed with it (`CoresFit`) and that what an object has
  installed carries the id of its last commit as long as it is not reused (`VersionsFit`);
  that a sequence number differs from its record's value only between install and release
  (`SeqInv`), and that the write read dirty stays exposed by its writer as long as the
  writer's object has not been reused (`DepInv`).
* `PolyjuiceProofs`, policies that read clean.  `CleanSerializable` assumes that the policy only reads clean
  (`CleanOnly`, which is what the engine does under Silo's policy) and leaves the rest of the
  policy free: pieces, waits and the exposure of writes.  The serial order is that in which
  transactions get the last lock of their write set (`WritesLocked`).  `OrderInv` says that there is a
  numbering `p` of transactions such that the installs of a record ascend in it, whoever is
  about to install (`Pending`) comes after what is installed, a read value
  comes from before its reader (`ReadBefore`), and whoever has overwritten a
  validated value, or is about to, comes after its reader (`StillLast`).  The step that
  takes the last lock puts its transaction at the end; the steps that could break the order
  are a validation, which finds by version and intent that nobody has overwritten
  or will (`ValidatedLast`), and an install, whose place `Pending` has reserved.
  Dependencies then ascend, and a set of transactions has a least one.
* `RcuProofs`, reclamation.  `NoUseAfterFree` needs to know of entries that are only queued: the
  stamp of an entry is a tick that no region that can hold its object is beyond, and
  entries in the scratch queue have ticks that are over.  With `Epochs`' promise that
  a tick is over only after all its regions, an entry is freed when nobody
  holds its object.  `RcuKeepsEpochs`: what RCU does to the clock is what `Epochs` allows.
  `OnePlace` and `QueueOrder` have an invariant of their own, `WaitInv`, over the same
  lemmas: each object has one position in all queues (`Placed`, as an injection rather than
  a cardinality), the scratch queue is filled only while the core is in a region,
  and the stamps in it are not behind what the core has reaped, so that moving
  the scratch queue behind the queue keeps the order.
* `CircbufProofs`.  The ring is read and written access by access, and its indices are
  those of slots, so that "what is queued" has to be found first: `RingInv` says that the
  `n` items lie behind `tail_`, that `head_` is right behind them, or one further between the
  compare-and-swap of an `enq` and its store, and that outside them only the slot
  that `deq` has yet to clear is filled.  With it the length and the content that the refinement
  mapping takes from the slots are unique, and each access is a step of `Fifo` or a
  stutter (`Refinement`).  `PeekAll` needs that a slot `peekall` has found
  empty stays empty behind the items, which only a single enqueuer keeps; both theorems
  therefore assume `OneEnqueuer`, as the logger and its cores use the ring.  `TimelyPeek` numbers
  the items (`Numbered`): those in the ring follow those dequeued without a gap, so that a
  slot loaded a round or more later holds an item dequeued after the call began, or a queued
  one, and a slot found empty has lost what it held to a dequeue.  It too assumes one enqueuer, and at least two
  slots, without which it is false.
* `LoggerProofs`.  `LogInOrder` is an equation of sequences.  To keep it over a
  `writev` one must know which buffers are marked as scheduled: the first `n` of
  the ring, and some only while the logger is between the marking and the return of the
  last buffer (`InLog`).  The equation then says that the disk, the ring without these `n` once they
  are written, and the buffers of the core are 1 to the number of commits, and
  that all but the first of the core's buffers are empty.  `CommitsAreLater` needs every value on the way
  from a pushed buffer to the durable epoch: `Past(c, e)` says that core `c` commits in
  no epoch up to `e` any more, and holds of the epoch below each buffer, of the prefixes, of
  `epochs`, and of the minimum the persister is computing (`AllPast`); it is stable
  because the clock of `Epochs` does not go back.  What a sequence of buffers contains is a
  fold; that it distributes over concatenation is proved by a least counterexample
  (`Smallest`, `NatInd`).
* `InsertsProofs`.  `CommittedIsFound` is kept by a step only if that step's tuple is the one in
  the tree, and a transaction tests that once, when it locks.  The heart of the
  invariant `InsertsInv` is therefore `Locks`: who has passed the test owns each tuple he
  will still write and each is in the tree; a failed commit has in `unclean` each
  tuple it has locked.  `Others` and `Frame` carry this over a step of anybody else, who would
  need the lock, and `TupleStep` says when a tuple may leave the tree: as a marker, or
  with a deleted value.  `TypeCorrect` and `CommittedSafety` follow.  `CleanReads`
  (`ReadsCommitted`) adds that every tuple but a marker has a value installed for its key, and that a
  key with a marker has been absent once (`KnownInv`), because it was not found when the
  marker was made.  `AbsentSafety` (`AbsentReadsValidated`) says what the version of a leaf
  proves though it only counts keys: as long as no key has left it, the version a
  transaction has kept is the number of a set of keys that are all still there, and what it has missed is
  not among them unless it has inserted it itself (`Counted`); an equal number of keys is then the
  same set.  That its own insert is what is in the tree follows from `Locks`.  The inserts
  of the proof are as the model's, into one leaf.
* `TupleVersionProofs`.  A clean read rests on one number: the version of the header counts
  the unlocks after a write, and `TupleAssumption` says there are fewer locks than versions, so
  that it does not wrap while somebody reads (the invariant bounds it by `locks`).  The
  invariant `TInv` says at each step of a writer what its tuple holds, marked as long as it is half
  written; and of a reader that, while the header still has the version it has seen and no
  mark, what it has copied is what the tuple holds (`CleanInv`).  The two meet in `Kept`,
  what any step of a writer leaves to a reader of the same tuple, which `WriterChange`
  and `TupleChange` turn into one obligation per action.  A replacement is nobody's
  until the tree holds it (`Unseen`); a reader that validates has an older version than
  the writer at work makes (`Older`), which is why the test of the tuple's version may come
  between two looks at the header.  `TypeCorrect`, `CleanReads`, `TreeIsCurrent` and
  `ValidationSound` follow.  That a power of two is a number is part of the assumption
  because the provers do not know it.

* `VersionsProofs`.  `Types` are the types of heap, transactions, queues and locks, for any
  number of cores that delete (`TypeCorrect`).  `Stamps` is about commit ids: none is of a tick to come, each
  new one exceeds all it has met, and the numbers drawn in a tick and those still to be
  drawn are no more than the transactions begun, so that within the bound of the model a number never
  carries into the epoch.  `Tombs`: a queued tombstone is still the deleted version that queued it.
  `Locks` says per phase which tuples a core holds, that they are the latest of their
  keys while its test of that holds, and that the tree has a key's latest tuple and only that one
  (`Rooted`).  From it follows `OnlyTombstones` (`RemovesTombstones`): what the collector takes out of the
  tree is a tombstone.  `Places` says of every tuple in which entries of the cores' queues it is, whether RCU has it
  and whether it is free, that these exclude each other, and that what is queued by a
  replacement is no longer the latest; it gives `OnePlaceEach` (`EachVersionInOnePlace`).
* `VersionsSnapshotProofs`.  `Timed` relates what is queued to who may still use it.  An
  entry is taken only when its read-only tick is over; whoever uses a queued version
  began before that tick ended, so does a snapshot of an id above the version's
  successor; and who uses a tuple that is retired is in a region RCU waits for.  Hence
  `NothingUsedIsFree` (`NoUseAfterFree`).  For `SnapshotsStable` (`SnapshotIsStable`)
  `Stable` ties the tuples to the history of installs: a tuple's version is an install of
  its key, the latest is the newest, and what was installed between it and the one behind it was of
  its own read-only tick (`Chained`), because an overwrite in place happens only within one;
  a key that is not in the tree was deleted last, in a read-only tick that is over (`Absent`);
  what is about to be installed is above what it replaces (`Newer`).  A snapshot id cuts
  off whole read-only ticks that are over (`Aligned`), so that nothing is installed at or
  below it any more; a walk has passed no version it could have seen (`Walking`), and finds
  the one it should.
  All theorems of the two modules but `TypeCorrect` are about `UncontendedSpec`: any core may
  write, delete, revive, snapshot and collect any key, but no collector comes to the MCS lock of a key
  while another one is there.  Then whoever is at the lock has it, releases it to nobody, and
  holds the spin lock of the tuple it looks at (`Alone`, `Locked`).  Without it the hand-over
  leaves the second tuple's spin lock free while the collector works on it, and `RemovesTombstones`
  is false (finding 3, run `versions_lock`); nothing is claimed of the other three then.

Only model-checked: `Serializable` of `Polyjuice` for policies that read dirty (with two
transactions; with three it fails); `SnapshotReadsNewest` of `TupleVersion`, which
would need an invariant of the chain at every step of a replacement, beyond what `TInv`
says of the tuple at its head (`SnapshotIsStable` is proved where a replacement is one step); and
the liveness properties.  Nothing is claimed of `Versions` once two collectors have met at
one MCS lock.  `SnapshotsSerializable`, `Serializable` of `Inserts`
and, when two collectors meet, `RemovesTombstones` fail, and are findings.  Out of the
provers' reach: liveness under fairness and `ENABLED`.  The library's induction theorems
take operators as parameters, which the provers cannot instantiate; where an induction
over data is needed it is done over a set of numbers (`NatInd` of
`LoggerProofs`), or by a least element (`Smallest`).  There are no `RECURSIVE` operators.

## 7. Not modelled

Range scans and their absent set, leaves that split, and what else
Masstree does: the B-tree is vendored, and `Inserts` takes the version of a leaf as
its interface.  Dirty reads and exposure of inserted records (`do_insert` under a
policy that exposes).  The pointers of an access list, and what becomes of the list when
its tuple is replaced: the replacement copies head and tail (`tuple.h:1279`), and the
entries go on naming the old tuple.  The links of the MCS lock's nodes.  Of the logger,
compression (the horizon buffers) and the statistics per epoch, and the liveness of the
cycle of buffers.  Overflow of the number in a commit id.  Exceptions out of
`commit(true)`.  Policy inference has no protocol state and is covered by free
choice.  Benchmarks, codecs, allocators, counters, the training scripts and the
baselines are outside; `PROJECT.json` gives the reason for each.  The repository is
eighteen copies of one code base with vendored libraries and generators, so that the
share of its lines that any model of one copy stands for is small.
