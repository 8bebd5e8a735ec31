------------------------------- MODULE Inserts -------------------------------
(***************************************************************************)
(* Keys that come and go: inserts, deletes and absent reads (piece_impl.h, *)
(* txn_impl.h), with clean reads.  An insert puts a marker, a tuple that   *)
(* nobody has committed, into the tree at once; a delete leaves a          *)
(* tombstone that is collected later; a read that finds nothing keeps the  *)
(* version of the B-tree leaf, which commit compares.  The leaf is one     *)
(* with room for all the keys, so that it never splits.                    *)
(***************************************************************************)
EXTENDS Integers, Sequences, FiniteSets, SequencesExt, History

CONSTANTS
    Txns, Keys,
    Loaded,      \* the keys that are there at the start
    Programs,    \* Programs[t]: the sequences of operations t may run
    UserAborts   \* whether the application may abort

Ops == [op : {"get"}, key : Keys] \cup [op : {"put"}, key : Keys, delete : BOOLEAN]
ASSUME InsertsAssumption ==
    /\ Txns \subseteq Nat \ {0} /\ IsFiniteSet(Keys) /\ Loaded \subseteq Keys
    /\ \A t \in Txns : Programs[t] \subseteq Seq(Ops)

VARIABLES
    heap,     \* the tuples, by address
    tree,     \* tree[k]: the tuple of key k, or Nil
    txn,      \* txn[t]: t's local state and its read, write and absent sets
    commits,  \* how many commit ids were drawn
    chain,    \* history: chain[k], the values installed for k, oldest first
    hist      \* history: the committed transactions and what they read

vars == <<heap, tree, txn, commits, chain, hist>>

Nil == 0
Loader == 0
LoadTid == 1
MAX_TID == 1000       \* the version of a marker; bound: commit ids are below
NoVersion == -1
Unwritten == -1

(* full_version_value: nothing but the number of keys changes it when a    *)
(* key is added to or removed from a leaf that has room.                   *)
ExtractVersionNumber == Cardinality({k \in Keys : tree[k] # Nil})

Value(t, delete) == [tid |-> t, deleted |-> delete]
Values(k) == <<Value(Loader, k \notin Loaded)>> \o chain[k]
CurrentValue(k) == Last(Values(k))
(* during: the transactions that ran when a tombstone was made.            *)
Tuple(i, k, version, value) ==
    [key |-> k, version |-> version, value |-> value, latest |-> TRUE, locked |-> Nil,
     m_lock |-> i, during |-> {}]

Init ==
    /\ \E place \in Bijection(Loaded, 1..Cardinality(Loaded)) :
          /\ tree = [k \in Keys |-> IF k \in Loaded THEN place[k] ELSE Nil]
          /\ heap = [i \in 1..Cardinality(Loaded) |->
                       LET k == CHOOSE k \in Loaded : place[k] = i
                       IN  Tuple(i, k, LoadTid, Value(Loader, FALSE))]
    /\ \E run \in [Txns -> UNION {Programs[t] : t \in Txns}] :
          /\ \A t \in Txns : run[t] \in Programs[t]
          /\ txn = [t \in Txns |-> [pc |-> "run", ops |-> run[t], at |-> Nil, node |-> NoVersion,
                 reads |-> {}, absent |-> NoVersion, missing |-> {}, removed |-> FALSE,
                 writes |-> <<>>, commit_tid |-> 0, unclean |-> {}, seen |-> {}]]
    /\ commits = LoadTid
    /\ chain = [k \in Keys |-> <<>>] /\ hist = {}

(***************************************************************************)
(* Operations.                                                             *)
(***************************************************************************)
Set(t, new) == txn' = [txn EXCEPT ![t] = new]
Running(t, op) == txn[t].pc = "run" /\ txn[t].ops # <<>> /\ Head(txn[t].ops).op = op
Key(t) == Head(txn[t].ops).key
SameStore == UNCHANGED <<heap, tree, commits, chain>>

(* A read that finds no tuple, or a marker, reads the last state of the    *)
(* key in which it was not there.                                          *)
Absence(k) ==
    LET gone == {v \in DOMAIN Values(k) : Values(k)[v].deleted}
    IN  [key |-> k, val |-> IF gone = {} THEN Value(Unwritten, TRUE) ELSE Values(k)[Max(gone)]]
Done(x) == [x EXCEPT !.pc = "run", !.ops = Tail(@), !.at = Nil, !.node = NoVersion]

(* do_node_read: the first version of the leaf is kept; another one ends   *)
(* the transaction, as an abort of the application does.                   *)
do_node_read(x, v) ==
    IF x.absent = NoVersion THEN [x EXCEPT !.absent = v]
    ELSE IF x.absent = v THEN x ELSE [x EXCEPT !.pc = "aborted"]

(* A get looks the key up, and with it the leaf's version...               *)
GetMissing(t) ==
    LET k == Key(t)
        x == do_node_read(Done(txn[t]), ExtractVersionNumber) IN
    /\ Running(t, "get") /\ tree[k] = Nil
    /\ Set(t, [x EXCEPT !.missing = @ \cup {k}, !.seen = @ \cup {Absence(k)}])
    /\ SameStore /\ UNCHANGED hist

GetFind(t) ==
    /\ Running(t, "get") /\ tree[Key(t)] # Nil
    /\ Set(t, [txn[t] EXCEPT !.pc = "found", !.at = tree[Key(t)], !.node = ExtractVersionNumber])
    /\ SameStore /\ UNCHANGED hist

IsRecordNoMarker(n) == ~n.value.deleted  \* mutant: a marker is read
(* Neither a marker nor a tombstone is a record.                           *)
IsRecord(n) == n.version # MAX_TID /\ ~n.value.deleted

(* ... and then reads the tuple: a marker at once, any other when no       *)
(* commit has it locked.                                                   *)
GetRead(t) ==
    LET n == heap[txn[t].at]
        x == Done(txn[t]) IN
    /\ txn[t].pc = "found" /\ (n.version = MAX_TID \/ n.locked = Nil)
    /\ Set(t, IF IsRecord(n)
              THEN [x EXCEPT !.reads = @ \cup {[tuple |-> txn[t].at, version |-> n.version]},
                             !.seen = @ \cup {[key |-> n.key, val |-> n.value]}]
              ELSE [do_node_read(x, txn[t].node) EXCEPT !.seen = @ \cup
                     {IF n.version = MAX_TID THEN Absence(n.key) ELSE [key |-> n.key, val |-> n.value]}])
    /\ SameStore /\ UNCHANGED hist

Write(i, k, delete, insert) == [tuple |-> i, key |-> k, delete |-> delete, insert |-> insert]

(* do_put of a key that is there, if only as a marker or a tombstone.      *)
PutFound(t) ==
    LET k == Key(t) IN
    /\ Running(t, "put") /\ tree[k] # Nil
    /\ Set(t, [Done(txn[t]) EXCEPT !.writes = Append(@, Write(tree[k], k, Head(txn[t].ops).delete, FALSE))])
    /\ SameStore /\ UNCHANGED hist

InsertedUnchecked(x, old, new) ==  \* mutant: whatever the version was
    IF x.absent = NoVersion THEN x ELSE [x EXCEPT !.absent = new]
(* An insert changes the version of the leaf: the transaction's own, if it *)
(* is the one it has seen; otherwise the transaction ends.                 *)
AfterInsert(x, old, new) ==
    IF x.absent = NoVersion THEN x
    ELSE IF x.absent = old THEN [x EXCEPT !.absent = new] ELSE [x EXCEPT !.pc = "aborted"]

(* try_insert_new_tuple: the marker holds the value already and is not     *)
(* locked.                                                                 *)
PutInsert(t) ==
    LET k == Key(t)
        delete == Head(txn[t].ops).delete
        i == Len(heap) + 1
        v == ExtractVersionNumber
        x == [Done(txn[t]) EXCEPT !.writes = Append(@, Write(i, k, delete, TRUE))] IN
    /\ Running(t, "put") /\ tree[k] = Nil
    /\ heap' = Append(heap, Tuple(i, k, MAX_TID, Value(t, delete)))
    /\ tree' = [tree EXCEPT ![k] = i]
    /\ Set(t, AfterInsert(x, v, v + 1))
    /\ UNCHANGED <<commits, chain, hist>>

(***************************************************************************)
(* Commit.                                                                 *)
(***************************************************************************)
Written(t) == {txn[t].writes[n].tuple : n \in DOMAIN txn[t].writes}
LockedBy(t) == {i \in Written(t) : heap[i].locked = t}

(* abort_impl passes no write list: markers stay.  The application aborts  *)
(* between its operations; phase 1 of a commit does, with nothing locked.  *)
UserAbort(t) ==
    /\ UserAborts /\ txn[t].pc = "run" /\ LockedBy(t) = {}
    /\ Set(t, [txn[t] EXCEPT !.pc = "aborted"])
    /\ SameStore /\ UNCHANGED hist

InAnyOrder(S, i) == i \in S  \* mutant
(* The tuples are locked, and cleaned, in the order of their locks'        *)
(* addresses; a replacement has the lock of what it replaces.              *)
InLockOrder(S, i) ==
    /\ i \in S
    /\ \A j \in S \ {i} :
          \/ heap[i].m_lock < heap[j].m_lock
          \/ heap[i].m_lock = heap[j].m_lock /\ i < j

IsLatestUnchecked(i) == TRUE  \* mutant
is_latest(i) == heap[i].latest

Failed(t) == [txn[t] EXCEPT !.pc = "abort", !.unclean = Written(t)]

LockWrite(t, i) ==
    /\ txn[t].pc = "run" /\ txn[t].ops = <<>>
    /\ InLockOrder(Written(t) \ LockedBy(t), i)
    /\ heap[i].locked = Nil
    /\ heap' = [heap EXCEPT ![i].locked = t]
    /\ Set(t, IF is_latest(i) THEN txn[t] ELSE Failed(t))
    /\ UNCHANGED <<tree, commits, chain, hist>>

ReadIsValid(t, r) ==
    /\ heap[r.tuple].latest /\ heap[r.tuple].version <= r.version
    /\ heap[r.tuple].locked \in {Nil, t}
AbsentIsValid(t) == txn[t].absent \in {NoVersion, ExtractVersionNumber}

ValidateReads(t) ==
    /\ txn[t].pc = "run" /\ txn[t].ops = <<>> /\ LockedBy(t) = Written(t)
    /\ Set(t, IF \A r \in txn[t].reads : ReadIsValid(t, r)
              THEN [txn[t] EXCEPT !.pc = "validated"] ELSE Failed(t))
    /\ SameStore /\ UNCHANGED hist

ValidateAbsent(t) ==
    LET valid == AbsentIsValid(t) IN
    /\ txn[t].pc = "validated" /\ commits + 1 < MAX_TID
    /\ Set(t, IF valid THEN [txn[t] EXCEPT !.pc = "install", !.commit_tid = commits + 1]
                       ELSE Failed(t))
    /\ commits' = IF valid THEN commits + 1 ELSE commits
    /\ UNCHANGED <<heap, tree, chain, hist>>

(* The next write, unless a later one of the same tuple replaces it: into  *)
(* the tuple, or, when that has no value, into a new tuple that takes its  *)
(* place.                                                                  *)
Begun(u) == txn[u].seen # {} \/ txn[u].writes # <<>> \/ txn[u].at # Nil
Ended(t) == txn[t].pc \in {"committed", "aborted"}
Install(t) ==
    LET w == Head(txn[t].writes)
        n == heap[w.tuple]
        last == \A m \in DOMAIN Tail(txn[t].writes) : Tail(txn[t].writes)[m].tuple # w.tuple
        v == Value(t, w.delete)
        new == [n EXCEPT !.version = txn[t].commit_tid, !.value = v, !.locked = Nil,
                         !.during = {u \in Txns : Begun(u) /\ ~Ended(u)}]
    IN
    /\ txn[t].pc = "install" /\ txn[t].writes # <<>>
    /\ Set(t, [txn[t] EXCEPT !.writes = Tail(@)])
    /\ \/ ~last /\ UNCHANGED <<heap, tree, chain>>
       \/ /\ last /\ ~n.value.deleted
          /\ heap' = [heap EXCEPT ![w.tuple] = new]
          /\ chain' = [chain EXCEPT ![w.key] = Append(@, v)]
          /\ UNCHANGED tree
       \/ /\ last /\ n.value.deleted
          /\ heap' = Append([heap EXCEPT ![w.tuple].latest = FALSE, ![w.tuple].locked = Nil], new)
          /\ tree' = [tree EXCEPT ![w.key] = Len(heap) + 1]
          /\ chain' = [chain EXCEPT ![w.key] = Append(@, v)]
    /\ UNCHANGED <<commits, hist>>

Commit(t) ==
    /\ txn[t].pc = "install" /\ txn[t].writes = <<>>
    /\ Set(t, [txn[t] EXCEPT !.pc = "committed"])
    /\ hist' = hist \cup {[tid |-> t, reads |-> txn[t].seen]}
    /\ SameStore

IsMarkerReplaced(n) == n.version = MAX_TID  \* mutant: also when it was replaced
IsMarker(n) == n.version = MAX_TID /\ n.latest

(* A key leaves the leaf; removed is a history of the leaf for those who   *)
(* have its version.                                                       *)
RemoveKey(k, x) ==
    /\ tree' = [tree EXCEPT ![k] = Nil]
    /\ txn' = [t \in Txns |-> [x[t] EXCEPT !.removed = x[t].absent # NoVersion]]

(* chamcc_abort_impl, a tuple at a time: an inserted one is locked, if it  *)
(* is not yet, and removed from the tree, if it is a marker still; any     *)
(* other is unlocked, if it is locked.                                     *)
CleanInserted(t, i) ==
    LET removed == IsMarker(heap[i]) IN
    /\ txn[t].pc = "abort" /\ InLockOrder(txn[t].unclean, i)
    /\ \E n \in DOMAIN txn[t].writes : txn[t].writes[n].tuple = i /\ txn[t].writes[n].insert
    /\ heap[i].locked \in {Nil, t}
    /\ heap' = [heap EXCEPT ![i].locked = Nil, ![i].latest = @ /\ ~removed]
    /\ LET x == [txn EXCEPT ![t].unclean = @ \ {i}] IN
          IF removed THEN RemoveKey(heap[i].key, x) ELSE txn' = x /\ UNCHANGED tree
    /\ UNCHANGED <<commits, chain, hist>>

CleanWritten(t, i) ==
    /\ txn[t].pc = "abort" /\ InLockOrder(txn[t].unclean, i)
    /\ \A n \in DOMAIN txn[t].writes : txn[t].writes[n].tuple = i => ~txn[t].writes[n].insert
    /\ heap' = [heap EXCEPT ![i].locked = IF @ = t THEN Nil ELSE @]
    /\ Set(t, [txn[t] EXCEPT !.unclean = @ \ {i}])
    /\ UNCHANGED <<tree, commits, chain, hist>>

Aborted(t) ==
    /\ txn[t].pc = "abort" /\ txn[t].unclean = {}
    /\ Set(t, [txn[t] EXCEPT !.pc = "aborted"])
    /\ SameStore /\ UNCHANGED hist

(* The collector removes a tombstone, under its lock, when the             *)
(* transactions that ran when it was made are over (see Versions).         *)
Collect(k) ==
    LET i == tree[k] IN
    /\ i # Nil
    /\ heap[i].version # MAX_TID /\ heap[i].value.deleted /\ heap[i].locked = Nil
    /\ \A t \in heap[i].during : Ended(t)
    /\ heap' = [heap EXCEPT ![i].latest = FALSE]
    /\ RemoveKey(k, txn)
    /\ UNCHANGED <<commits, chain, hist>>

Step(t) ==
    \/ GetMissing(t) \/ GetFind(t) \/ GetRead(t) \/ PutFound(t) \/ PutInsert(t)
    \/ \E i \in DOMAIN heap : LockWrite(t, i)
    \/ ValidateReads(t) \/ ValidateAbsent(t) \/ Install(t) \/ Commit(t)
    \/ \E i \in DOMAIN heap : CleanInserted(t, i) \/ CleanWritten(t, i)
    \/ Aborted(t)

Next == (\E t \in Txns : Step(t) \/ UserAbort(t)) \/ \E k \in Keys : Collect(k)

Spec == Init /\ [][Next]_vars
(* A worker runs its transaction to the end.                               *)
FairSpec == Spec /\ \A t \in Txns : WF_vars(Step(t))

(***************************************************************************)
(* Properties.                                                             *)
(***************************************************************************)
(* Types; the tree holds, for each key, the one tuple of it that claims to *)
(* be the latest; a lock is held by a transaction that is committing or    *)
(* aborting.                                                               *)
InsertsTypeOK ==
    /\ \A i \in DOMAIN heap :
          /\ heap[i].key \in Keys /\ heap[i].locked \in Txns \cup {Nil}
          /\ heap[i].latest <=> tree[heap[i].key] = i
          /\ heap[i].locked # Nil =>
                txn[heap[i].locked].pc \in {"run", "validated", "install", "abort"}
    /\ \A k \in Keys : tree[k] # Nil => tree[k] \in DOMAIN heap /\ heap[tree[k]].key = k
    /\ \A t \in Txns : /\ txn[t].pc \in {"run", "found", "validated", "install", "abort",
                                          "aborted", "committed"}
                       /\ txn[t].reads \subseteq [tuple : DOMAIN heap, version : Nat]
                       /\ txn[t].commit_tid \in 0..commits

(* What was committed last is what a search finds: the tuple in the tree   *)
(* has the last value installed, and where there is none, or a marker, the *)
(* key is deleted or was never there.  An aborting insert never takes away *)
(* what another transaction has committed into its marker, and nobody      *)
(* commits into a marker or tombstone that has left the tree               *)
(* (handle_last_tuple_in_group, cleanup_inserted_tuple_marker).            *)
CommittedIsFound ==
    \A k \in Keys :
        IF tree[k] # Nil /\ heap[tree[k]].version # MAX_TID
        THEN heap[tree[k]].value = CurrentValue(k)
        ELSE CurrentValue(k).deleted

(* A clean read returns what some transaction has committed, or the        *)
(* absence of the key where it was absent: never the value an insert has   *)
(* put into its marker, which may yet abort.                               *)
ReadsCommitted ==
    \A t \in Txns : \A r \in txn[t].seen : \E i \in DOMAIN Values(r.key) : Values(r.key)[i] = r.val

(* When the absent set passes validation, every key that was not in the    *)
(* tree when the transaction looked for it still is not, or is there by    *)
(* the transaction's own insert: so long as no key has left the leaf,      *)
(* whose version is then no proof.                                         *)
AbsentReadsValidated ==
    [][\A t \in Txns :
          txn[t].pc = "validated" /\ txn'[t].pc = "install" /\ ~txn[t].removed =>
            \A k \in txn[t].missing :
                \/ tree[k] = Nil
                \/ \E n \in DOMAIN txn[t].writes :
                      txn[t].writes[n].insert /\ txn[t].writes[n].tuple = tree[k]]_vars

(* Every transaction commits or aborts: locking the write set in the order *)
(* of addresses, and the markers of a failed commit after the locks    *)
(* below them are given back, never ends in a deadlock.                    *)
TransactionsEnd == \A t \in Txns : <>Ended(t)

(* The committed transactions are serializable.  They are not when two     *)
(* find the same marker or tombstone: a commit into it changes no version  *)
(* of the leaf.                                                            *)
Serializable == IsSerializable(hist, chain, Loader)
=============================================================================
