------------------------------ MODULE Versions ------------------------------
(***************************************************************************)
(* Commit ids, version chains, snapshots and the garbage collection of old *)
(* versions (txn_ic3_impl.h, txn_ic3_impl.cc, the install loop of commit   *)
(* in txn_impl.h) on top of the epochs.  A record's old versions hang      *)
(* behind the tuple in the tree; a snapshot transaction reads the newest   *)
(* version of the last read-only tick that is over; an old version is      *)
(* freed, without RCU and without unlinking it, when its read-only tick    *)
(* can no longer matter; a tombstone is removed from the tree under its    *)
(* lock and given to RCU.  What locking and validation do to each other is *)
(* in Polyjuice and what happens inside a tuple in TupleVersion: here a    *)
(* commit locks in one step, validates in one, and installs key by key.    *)
(***************************************************************************)
EXTENDS Epochs, Sequences, FiniteSets, SequencesExt, History

CONSTANTS
    Keys,
    Programs,                 \* Programs[c]: what a transaction on c may do
    ReadOnlyEpochMultiplier,  \* ticks in a read-only tick: 25 in the code
    CoreSpan, NumSpan,        \* the cores and numbers a commit id has room for
    KeepHistory,              \* whether hist is kept: for SnapshotsSerializable
    Deletes,                  \* Deletes[c]: whether writes on c may delete
    MaxTick,                  \* bound: ticks
    MaxTxns                   \* bound: transactions

(* No commit numbers overflow their field.                                 *)
ASSUME VersionsAssumption ==
    /\ CoreSpan \in Nat \ {0} /\ NumSpan \in Nat /\ MaxTick \in Nat \ {0} /\ MaxTxns \in Nat
    /\ Cores \subseteq 0..(CoreSpan - 1) /\ MaxTxns + 1 < NumSpan
    /\ ReadOnlyEpochMultiplier \in Nat \ {0}
    /\ IsFiniteSet(Keys) /\ Keys = 1..Cardinality(Keys)  \* a loaded tuple has its key's address
    /\ Programs \in [Cores -> SUBSET [snapshot : BOOLEAN, reads : SUBSET Keys, writes : SUBSET Keys]]
    /\ Deletes \in [Cores -> SUBSET BOOLEAN]

VARIABLES
    heap,      \* the tuples ever allocated, by address
    tree,      \* tree[k]: the tuple the tree holds for k, or Nil
    txn,       \* txn[c]: the transaction on c and how far it is
    last_commit_tid,
    queue,     \* queue_ of each core: the versions to collect
    scratch,   \* scratch_: those clean_up_to_including has taken
    reaped,    \* last_reaped_epoch_
    retired,   \* tuples given to RCU, and the regions it waits for
    freed,     \* the addresses that were released
    mcs,       \* mcs[m]: the collectors queued at MCS lock m, its holder first
    begun,     \* how many transactions were begun
    installs,  \* history: installs[k], the versions of k, oldest first
    hist       \* history: the committed transactions and what they read

gc == <<queue, scratch, reaped, retired, freed, mcs>>
vvars == <<vars, heap, tree, txn, last_commit_tid, gc, begun, installs, hist>>

Nil == 0
MIN_TID == 0
to_read_only_tick(tick) == tick \div ReadOnlyEpochMultiplier

MakeTid(core, num, epoch) == core + CoreSpan * (num + NumSpan * epoch)
NumId(t) == (t \div CoreSpan) % NumSpan
EpochId(t) == t \div (CoreSpan * NumSpan)
LoadTid == MakeTid(0, 1, 0)

global_last_tick_exclusive == over + 1

(* The last id of the read-only ticks that ended before tick_ex.           *)
ComputeReadOnlyTid(tick_ex) ==
    LET b == to_read_only_tick(tick_ex) * ReadOnlyEpochMultiplier IN
    IF b = 0 THEN MakeTid(0, 0, 0) ELSE MakeTid(CoreSpan - 1, NumSpan - 1, b - 1)

Idle == [pc |-> "idle", prog |-> [snapshot |-> FALSE, reads |-> {}, writes |-> {}],
         refs |-> <<>>, got |-> <<>>, t |-> MIN_TID, todo |-> {}, key |-> Nil, at |-> Nil]
UpTo(q, tick) == {n \in 0..Len(q) : \A i \in 1..n : q[i].tick <= tick}
With(f, k, v) == [x \in DOMAIN f \cup {k} |-> IF x = k THEN v ELSE f[x]]

VersionsInit ==
    /\ Init
    /\ tree = [k \in Keys |-> k]
    /\ heap = [k \in Keys |-> [key |-> k, version |-> LoadTid, next |-> Nil,
                               latest |-> TRUE, deleting |-> FALSE, locked |-> FALSE, m_lock |-> k]]
    /\ txn = [c \in Cores |-> Idle]
    /\ last_commit_tid = [c \in Cores |-> MIN_TID]
    /\ queue = [c \in Cores |-> <<>>] /\ scratch = [c \in Cores |-> <<>>]
    /\ reaped = [c \in Cores |-> 0]
    /\ retired = {} /\ freed = {} /\ begun = 0 /\ mcs = [k \in Keys |-> <<>>]
    /\ installs = [k \in Keys |-> <<>>] /\ hist = {}

Go(c, pc) == txn' = [txn EXCEPT ![c].pc = pc]
SameStore == UNCHANGED <<heap, tree, last_commit_tid, installs>>
SameGc == UNCHANGED gc

(***************************************************************************)
(* Transactions.  Each runs in a region of the ticker.                     *)
(***************************************************************************)
Begin(c) ==
    /\ txn[c].pc = "idle" /\ begun < MaxTxns
    /\ Start(c)
    /\ \E p \in Programs[c] :
          txn' = [txn EXCEPT ![c] = [Idle EXCEPT !.prog = p,
                                      !.pc = IF p.snapshot THEN "begin" ELSE "run"]]
    /\ begun' = begun + 1
    /\ SameStore /\ SameGc /\ UNCHANGED hist

(* A key is looked up in the tree; a read takes the version it finds.      *)
Access(c, k) ==
    LET i == tree[k] IN
    /\ txn[c].pc = "run" /\ i # Nil
    /\ k \in (txn[c].prog.reads \cup txn[c].prog.writes) \ DOMAIN txn[c].refs
    /\ k \in txn[c].prog.reads => ~heap[i].locked /\ ~heap[i].deleting
    /\ txn' = [txn EXCEPT ![c].refs = With(@, k, i),
                 ![c].got = IF k \in txn[c].prog.reads THEN With(@, k, heap[i].version) ELSE @]
    /\ UNCHANGED vars /\ SameStore /\ SameGc /\ UNCHANGED <<begun, hist>>

Writes(c) == {txn[c].refs[k] : k \in txn[c].prog.writes}
SetLocks(S, b) == heap' = [i \in DOMAIN heap |->
                             IF i \in S THEN [heap[i] EXCEPT !.locked = b] ELSE heap[i]]

(* handle_last_tuple_in_group of every written tuple.                      *)
LockWrites(c) ==
    /\ txn[c].pc = "run"
    /\ DOMAIN txn[c].refs = txn[c].prog.reads \cup txn[c].prog.writes
    /\ \A i \in Writes(c) : ~heap[i].locked
    /\ IF \A i \in Writes(c) : heap[i].latest
       THEN SetLocks(Writes(c), TRUE) /\ Go(c, "validate")
       ELSE UNCHANGED heap /\ Go(c, "end")
    /\ UNCHANGED vars /\ UNCHANGED <<tree, last_commit_tid, installs, begun, hist>> /\ SameGc

StillLatest(c, k) ==
    LET i == txn[c].refs[k] IN
    /\ heap[i].latest /\ heap[i].version <= txn[c].got[k]
    /\ heap[i].locked => k \in txn[c].prog.writes

Validate(c) ==
    /\ txn[c].pc = "validate"
    /\ IF \A k \in txn[c].prog.reads : StillLatest(c, k)
       THEN Go(c, "gen_tid") /\ UNCHANGED heap
       ELSE Go(c, "end") /\ SetLocks(Writes(c), FALSE)
    /\ UNCHANGED vars /\ UNCHANGED <<tree, last_commit_tid, installs, begun, hist>> /\ SameGc

(* A key that is absent ends the transaction here; see Inserts.            *)
Abort(c) ==
    /\ txn[c].pc = "run"
    /\ \/ \E k \in txn[c].prog.reads \cup txn[c].prog.writes : tree[k] = Nil
       \/ \E k \in txn[c].prog.reads : heap[tree[k]].deleting
    /\ Go(c, "end")
    /\ UNCHANGED vars /\ SameStore /\ SameGc /\ UNCHANGED <<begun, hist>>

CommitEpochNext == now + 1  \* mutant: the tick to come
CommitEpoch == now

(* The current tick, read after validation, and a number above those of    *)
(* the tick's ids that the transaction has met.                            *)
gen_commit_tid(c) ==
    LET epoch == CommitEpoch
        met == {last_commit_tid[c]} \cup {txn[c].got[k] : k \in DOMAIN txn[c].got}
                 \cup {heap[i].version : i \in Writes(c)}
        nums == {0} \cup {NumId(t) : t \in {u \in met : EpochId(u) = epoch}}
        num == CHOOSE n \in nums : \A m \in nums : m <= n
        tid == MakeTid(c, num + 1, epoch)
    IN
    /\ txn[c].pc = "gen_tid"
    /\ txn' = [txn EXCEPT ![c].pc = "install", ![c].t = tid, ![c].todo = txn[c].prog.writes]
    /\ last_commit_tid' = [last_commit_tid EXCEPT ![c] = tid]
    /\ UNCHANGED vars /\ UNCHANGED <<heap, tree, installs, begun, hist>> /\ SameGc

CanOverwriteAlways(prev, cur) == TRUE  \* mutant: no version is kept
can_overwrite_record_tid(prev, cur) ==
    to_read_only_tick(EpochId(prev)) = to_read_only_tick(EpochId(cur)) \/ prev = MIN_TID

Entry(i, tick, key) == [tuple |-> i, tick |-> tick, key |-> key]
EntryIf(b, e) == IF b THEN <<e>> ELSE <<>>

(* The rest of an install: what commit queues (on_dbtuple_spill,           *)
(* on_logical_delete), the history, and the end of the transaction.        *)
Installed(c, k, delete, entries) ==
    /\ queue' = [queue EXCEPT ![c] = @ \o entries]
    /\ installs' = [installs EXCEPT ![k] = Append(@, [tid |-> txn[c].t, deleted |-> delete])]
    /\ txn' = [txn EXCEPT ![c].todo = @ \ {k},
                          ![c].pc = IF txn[c].todo = {k} THEN "committed" ELSE @]
    /\ UNCHANGED vars
    /\ UNCHANGED <<last_commit_tid, scratch, reaped, retired, freed, mcs, begun, hist>>

(* write_record_at on a tuple with room and a value: the new version goes  *)
(* into the tuple, and the old one, if a snapshot may need it, into a copy *)
(* behind it.                                                              *)
InstallInPlace(c, k, delete) ==
    LET i == txn[c].refs[k]
        t == txn[c].t
        keep == ~can_overwrite_record_tid(heap[i].version, t)
        spill == Len(heap) + 1
        ro_tick == to_read_only_tick(EpochId(t))
    IN
    /\ txn[c].pc = "install" /\ k \in txn[c].todo /\ ~heap[i].deleting
    /\ heap' = [heap EXCEPT ![i].version = t, ![i].deleting = delete, ![i].locked = FALSE,
                            ![i].next = IF keep THEN spill ELSE @]
                \o EntryIf(keep, [heap[i] EXCEPT !.latest = FALSE, !.locked = FALSE])
    /\ UNCHANGED tree
    /\ Installed(c, k, delete, EntryIf(keep, Entry(spill, ro_tick, FALSE))
                                 \o EntryIf(delete, Entry(i, ro_tick, TRUE)))

QueuedBySpillAlways(i) == TRUE  \* mutant: a tombstone is queued a second time
(* A replaced tombstone is on a queue already.                             *)
QueuedBySpill(i) == ~heap[i].deleting

(* The value does not fit, or the tuple is a tombstone: a new tuple, with  *)
(* the same MCS lock, takes its place in the tree.                         *)
InstallReplacement(c, k, delete) ==
    LET i == txn[c].refs[k]
        rep == Len(heap) + 1
        ro_tick == to_read_only_tick(EpochId(txn[c].t))
    IN
    /\ txn[c].pc = "install" /\ k \in txn[c].todo
    /\ delete => heap[i].deleting
    /\ heap' = Append([heap EXCEPT ![i].latest = FALSE, ![i].locked = FALSE],
                  [heap[i] EXCEPT !.version = txn[c].t, !.next = i, !.deleting = delete, !.locked = FALSE])
    /\ tree' = [tree EXCEPT ![k] = rep]
    /\ Installed(c, k, delete, EntryIf(QueuedBySpill(i), Entry(i, ro_tick, FALSE))
                                 \o EntryIf(delete, Entry(rep, ro_tick, TRUE)))

(***************************************************************************)
(* Snapshot transactions.                                                  *)
(***************************************************************************)
TakeSnapshot(c) ==
    /\ txn[c].pc = "begin"
    /\ txn' = [txn EXCEPT ![c].pc = "snapshot",
                          ![c].t = ComputeReadOnlyTid(global_last_tick_exclusive)]
    /\ UNCHANGED vars /\ SameStore /\ SameGc /\ UNCHANGED <<begun, hist>>

(* The tuple of a key is looked up; a key that is not there is absent.     *)
FindHead(c, k) ==
    /\ txn[c].pc = "snapshot" /\ k \in txn[c].prog.reads \ DOMAIN txn[c].got
    /\ txn' = IF tree[k] = Nil THEN [txn EXCEPT ![c].got = With(@, k, MIN_TID)]
              ELSE [txn EXCEPT ![c].pc = "walk", ![c].key = k, ![c].at = tree[k]]
    /\ UNCHANGED vars /\ SameStore /\ SameGc /\ UNCHANGED <<begun, hist>>

(* record_at: this version, or the one behind it.                          *)
Walk(c) ==
    LET n == heap[txn[c].at]
        found(v) == [txn EXCEPT ![c].pc = "snapshot", ![c].got = With(@, txn[c].key, v), ![c].at = Nil]
    IN
    /\ txn[c].pc = "walk"
    /\ txn' = IF n.version <= txn[c].t THEN found(IF n.deleting THEN MIN_TID ELSE n.version)
              ELSE IF n.next = Nil THEN found(MIN_TID)
              ELSE [txn EXCEPT ![c].at = n.next]
    /\ UNCHANGED vars /\ SameStore /\ SameGc /\ UNCHANGED <<begun, hist>>

EndSnapshot(c) ==
    /\ txn[c].pc = "snapshot" /\ DOMAIN txn[c].got = txn[c].prog.reads
    /\ Go(c, "committed")
    /\ UNCHANGED vars /\ SameStore /\ SameGc /\ UNCHANGED <<begun, hist>>

RegionOver(c) == {[r EXCEPT !.regions = @ \ {c}] : r \in retired}

(* The transaction is over; its region ends with it.                       *)
EndTxn(c) ==
    /\ txn[c].pc \in {"committed", "end"}
    /\ End(c)
    /\ txn' = [txn EXCEPT ![c] = [Idle EXCEPT !.pc = "post"]]
    /\ hist' = IF txn[c].pc = "end" \/ ~KeepHistory THEN hist
               ELSE hist \cup {[tid |-> IF txn[c].prog.snapshot THEN 0 - begun ELSE txn[c].t,
                                reads |-> {[key |-> k, val |-> [tid |-> txn[c].got[k]]] : k \in DOMAIN txn[c].got}]}
    /\ retired' = RegionOver(c)
    /\ SameStore /\ UNCHANGED <<queue, scratch, reaped, freed, mcs, begun>>

(***************************************************************************)
(* Collection, by the thread that queued, after its transactions.          *)
(***************************************************************************)
(* Mutant: no allowance for what a running transaction saw.                *)
ro_tick_ex_eager == to_read_only_tick(global_last_tick_exclusive)
(* One tick less: a running transaction may have seen the tick before.     *)
ro_tick_ex == to_read_only_tick(global_last_tick_exclusive - 1)

on_post_rcu_region_completion(c) ==
    LET ro_tick_geq == ro_tick_ex - 1 IN
    /\ txn[c].pc = "post"
    /\ IF ro_tick_ex = 0 \/ reaped[c] = ro_tick_geq
       THEN Go(c, "idle") /\ SameGc
       ELSE \E n \in UpTo(queue[c], ro_tick_geq) :
              /\ n + 1 \notin UpTo(queue[c], ro_tick_geq)
              /\ scratch' = [scratch EXCEPT ![c] = SubSeq(queue[c], 1, n)]
              /\ queue' = [queue EXCEPT ![c] = SubSeq(@, n + 1, Len(@))]
              /\ reaped' = [reaped EXCEPT ![c] = ro_tick_geq]
              /\ Go(c, "collect")
              /\ UNCHANGED <<retired, freed, mcs>>
    /\ UNCHANGED vars /\ SameStore /\ UNCHANGED <<begun, hist>>

(* An old version is freed at once; nothing unlinks it from its chain.     *)
FreeVersion(c) ==
    /\ txn[c].pc = "collect" /\ scratch[c] # <<>> /\ ~Head(scratch[c]).key
    /\ freed' = freed \cup {Head(scratch[c]).tuple}
    /\ scratch' = [scratch EXCEPT ![c] = Tail(@)]
    /\ UNCHANGED vars /\ SameStore /\ UNCHANGED <<queue, reaped, retired, mcs, txn, begun, hist>>

(* A tombstone is examined under its lock, which mcs_lock takes in two     *)
(* steps: the MCS lock, and for the first in its queue the spin lock that  *)
(* transactions use.  The MCS lock is that of the key's first tuple.       *)
Tombstone(c) == Head(scratch[c]).tuple

McsAcquire(c) ==
    LET m == heap[Tombstone(c)].m_lock IN
    /\ txn[c].pc = "collect" /\ scratch[c] # <<>> /\ Head(scratch[c]).key
    /\ mcs' = [mcs EXCEPT ![m] = Append(@, c)]
    /\ Go(c, IF mcs[m] = <<>> THEN "spin" ELSE "wait")
    /\ UNCHANGED vars /\ SameStore /\ UNCHANGED <<queue, scratch, reaped, retired, freed, begun, hist>>

(* Mutant: only the MCS lock is taken, which keeps no transaction out.     *)
McsLockAlone(c) ==
    /\ txn[c].pc = "spin"
    /\ Go(c, "locked")
    /\ UNCHANGED vars /\ SameStore /\ SameGc /\ UNCHANGED <<begun, hist>>

SpinLock(c) ==
    /\ txn[c].pc = "spin" /\ ~heap[Tombstone(c)].locked
    /\ SetLocks({Tombstone(c)}, TRUE)
    /\ Go(c, "locked")
    /\ UNCHANGED vars /\ UNCHANGED <<tree, last_commit_tid, installs, begun, hist>> /\ SameGc

(* One that a later version has replaced is queued again, as a version.    *)
Requeue(c) ==
    LET i == Tombstone(c) IN
    /\ txn[c].pc = "locked" /\ ~heap[i].latest
    /\ queue' = [queue EXCEPT ![c] = Append(@, Entry(i, to_read_only_tick(now), FALSE))]
    /\ Go(c, "release")
    /\ UNCHANGED vars /\ SameStore /\ UNCHANGED <<scratch, reaped, retired, freed, mcs, begun, hist>>

(* Any other is removed from the tree and handed to RCU, in a region.      *)
StillTombstone(c) ==
    /\ txn[c].pc = "locked" /\ heap[Tombstone(c)].latest
    /\ IF region[c] = None THEN Start(c) ELSE UNCHANGED vars
    /\ Go(c, "remove")
    /\ SameStore /\ SameGc /\ UNCHANGED <<begun, hist>>

RemoveTombstone(c) ==
    LET i == Tombstone(c) IN
    /\ txn[c].pc = "remove"
    /\ tree' = [tree EXCEPT ![heap[i].key] = Nil]
    /\ heap' = [heap EXCEPT ![i].latest = FALSE]
    /\ retired' = retired \cup {[tuple |-> i, regions |-> {d \in Cores : region[d] # None}]}
    /\ Go(c, "release")
    /\ UNCHANGED vars
    /\ UNCHANGED <<queue, scratch, reaped, freed, mcs, last_commit_tid, installs, begun, hist>>

(* mcs_unlock: a successor in the queue gets both locks, as they are;      *)
(* without one the tuple is unlocked.                                      *)
McsRelease(c) ==
    LET i == Tombstone(c)
        m == heap[i].m_lock
        waiting == Tail(mcs[m])
        pc(d) == IF d = c THEN "collect"
                 ELSE IF waiting # <<>> /\ d = Head(waiting) THEN "locked" ELSE txn[d].pc
    IN
    /\ txn[c].pc = "release"
    /\ mcs' = [mcs EXCEPT ![m] = waiting]
    /\ txn' = [d \in Cores |-> [txn[d] EXCEPT !.pc = pc(d)]]
    /\ SetLocks(IF waiting = <<>> THEN {i} ELSE {}, FALSE)
    /\ scratch' = [scratch EXCEPT ![c] = Tail(@)]
    /\ UNCHANGED vars
    /\ UNCHANGED <<queue, reaped, retired, freed, tree, last_commit_tid, installs, begun, hist>>

Collected(c) ==
    /\ txn[c].pc = "collect" /\ scratch[c] = <<>>
    /\ IF region[c] = None THEN UNCHANGED <<vars, retired>> ELSE End(c) /\ retired' = RegionOver(c)
    /\ Go(c, "idle")
    /\ SameStore /\ UNCHANGED <<queue, scratch, reaped, freed, mcs, begun, hist>>

(* What RCU promises: no region that was running is running any more.      *)
RcuFree ==
    /\ \E r \in retired : /\ r.regions = {}
                          /\ retired' = retired \ {r}
                          /\ freed' = freed \cup {r.tuple}
    /\ UNCHANGED vars /\ SameStore /\ UNCHANGED <<queue, scratch, reaped, mcs, txn, begun, hist>>

Tick ==
    /\ (now < MaxTick /\ Advance) \/ (over < now - 1 /\ DeclareOver)
    /\ SameStore /\ SameGc /\ UNCHANGED <<txn, begun, hist>>

TxnStep(c) ==
    \/ LockWrites(c) \/ Validate(c) \/ Abort(c) \/ gen_commit_tid(c)
    \/ \E k \in Keys : Access(c, k) \/ FindHead(c, k)
    \/ \E k \in Keys, delete \in Deletes[c] : InstallInPlace(c, k, delete) \/ InstallReplacement(c, k, delete)
    \/ TakeSnapshot(c) \/ Walk(c) \/ EndSnapshot(c) \/ EndTxn(c)

CollectStep(c) ==
    \/ on_post_rcu_region_completion(c)
    \/ FreeVersion(c) \/ McsAcquire(c) \/ SpinLock(c)
    \/ Requeue(c) \/ StillTombstone(c) \/ RemoveTombstone(c) \/ McsRelease(c)
    \/ Collected(c)

VersionsNext ==
    \/ \E c \in Cores : Begin(c) \/ TxnStep(c) \/ CollectStep(c)
    \/ RcuFree \/ Tick

VersionsSpec == VersionsInit /\ [][VersionsNext]_vvars

(* No two collectors are ever at the MCS lock of one key at the same time. *)
(* mcs_unlock hands the next in the queue the lock of the wrong tuple, so  *)
(* what collectors that meet there do is a specification of its own.       *)
Uncontended == \A k \in Keys : Len(mcs[k]) <= 1
UncontendedSpec == VersionsInit /\ [][VersionsNext /\ Uncontended']_vvars

(***************************************************************************)
(* Properties                                                              *)
(***************************************************************************)
Addresses == DOMAIN heap
Queued(c) == queue[c] \o IF txn[c].pc = "release" THEN Tail(scratch[c]) ELSE scratch[c]
VersionsTypeOK ==
    /\ now \in 1..MaxTick /\ over \in 0..MaxTick
    /\ tree \in [Keys -> Addresses \cup {Nil}]
    /\ freed \subseteq Addresses
    /\ \A i \in Addresses : heap[i].next \in Addresses \cup {Nil} /\ EpochId(heap[i].version) <= now
    /\ \A c \in Cores : /\ \A n \in DOMAIN Queued(c) : Queued(c)[n].tuple \in Addresses
                        /\ txn[c].at \in Addresses \cup {Nil}
    /\ mcs \in [Keys -> Seq(Cores)]

(* No transaction gets hold of memory that was released: not the tuples it *)
(* has found in the tree, which it still locks and validates, nor the      *)
(* versions a snapshot walks to.                                           *)
NoUseAfterFree ==
    \A c \in Cores : ({txn[c].refs[k] : k \in DOMAIN txn[c].refs} \cup {txn[c].at}) \cap freed = {}

(* The version of a key up to an id, by the order of the installs.         *)
Newest(k, t) ==
    LET upTo == {n \in DOMAIN installs[k] : installs[k][n].tid <= t}
        v == installs[k][Max(upTo)]
    IN  IF upTo = {} THEN (IF LoadTid <= t THEN LoadTid ELSE MIN_TID)
        ELSE IF v.deleted THEN MIN_TID ELSE v.tid

(* What a snapshot has read of a key stays the newest version up to its    *)
(* id: nothing collected too early, no commit of that tick comes later,    *)
(* and so of a transaction all writes are seen or none.                    *)
SnapshotIsStable ==
    \A c \in Cores : txn[c].prog.snapshot =>
        \A k \in DOMAIN txn[c].got : txn[c].got[k] = Newest(k, txn[c].t)

(* A tuple that no key is found under is at one place: on one queue, with  *)
(* RCU, or free; nothing is released twice, and nothing is lost.           *)
EachVersionInOnePlace ==
    LET places(i) == (UNION {{<<"queue", c, n>> : n \in {m \in DOMAIN Queued(c) : Queued(c)[m].tuple = i}} : c \in Cores})
                     \cup {<<"rcu", r>> : r \in {x \in retired : x.tuple = i}}
                     \cup (IF i \in freed THEN {<<"free">>} ELSE {})
    IN  \A i \in Addresses :
           /\ Cardinality(places(i)) <= 1
           /\ tree[heap[i].key] # i => Cardinality(places(i)) = 1

(* What the collector removes from the tree is a tombstone: the            *)
(* INVARIANT(removed == delent.tuple()) of clean_up_to_including.          *)
RemovesTombstones ==
    [][\A k \in Keys : tree[k] # Nil /\ tree'[k] = Nil => heap[tree[k]].deleting]_vvars

(* The committed transactions, snapshots among them, have a serial order.  *)
SnapshotsSerializable == IsSerializable(hist, installs, LoadTid)
=============================================================================
