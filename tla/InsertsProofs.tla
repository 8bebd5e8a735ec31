---------------------------- MODULE InsertsProofs ----------------------------
(* Proofs about Inserts, for any number of transactions and keys and any   *)
(* programs: types, that what was committed last is what is found, what a  *)
(* clean read returns, and what the validation of an absent read shows.    *)
EXTENDS Inserts, FiniteSetTheorems, SequenceTheorems, WellFoundedInduction, TLAPS

(* The inductive invariant.  Its heart is Locks: from the test of          *)
(* is_latest on, a tuple that a transaction has locked stays in the tree,  *)
(* and a transaction that has passed it owns every tuple it will write.    *)
StoredValues == [tid : Txns \cup {Loader}, deleted : BOOLEAN]
Tuples == [key : Keys, version : Nat, value : StoredValues, latest : BOOLEAN,
           locked : Txns \cup {Nil}, m_lock : Nat, during : SUBSET Txns]
WriteRecords == [tuple : Nat, key : Keys, delete : BOOLEAN, insert : BOOLEAN]
Pcs == {"run", "found", "validated", "install", "abort", "aborted", "committed"}
Local(seen) ==
    [pc : Pcs, ops : Seq(Ops), at : Nat, node : Int,
     reads : SUBSET [tuple : Nat, version : Nat], absent : Int, missing : SUBSET Keys,
     removed : BOOLEAN, writes : Seq(WriteRecords), commit_tid : Nat,
     unclean : SUBSET Nat, seen : {seen}]

HeapInv ==
    /\ heap \in Seq(Tuples) /\ tree \in [Keys -> Nat]
    /\ commits \in Nat /\ commits < MAX_TID
    /\ chain \in [Keys -> Seq(StoredValues)]
    /\ \A k \in Keys : tree[k] # Nil => tree[k] \in DOMAIN heap /\ heap[tree[k]].key = k
    /\ \A i \in DOMAIN heap : heap[i].latest <=> tree[heap[i].key] = i

Refs(t) ==
    /\ \A n \in DOMAIN txn[t].writes :
          /\ txn[t].writes[n].tuple \in DOMAIN heap
          /\ heap[txn[t].writes[n].tuple].key = txn[t].writes[n].key
    /\ \A r \in txn[t].reads : r.tuple \in DOMAIN heap
    /\ txn[t].pc = "found" => txn[t].ops # <<>> /\ txn[t].at \in DOMAIN heap
    /\ txn[t].commit_tid <= commits

Holds(t, i) ==
    \/ txn[t].pc = "run" /\ txn[t].ops = <<>> /\ i \in Written(t) /\ heap[i].latest
    \/ txn[t].pc \in {"validated", "install"} /\ i \in Written(t)
    \/ txn[t].pc = "abort" /\ i \in txn[t].unclean
Locks(t) ==
    /\ \A i \in DOMAIN heap : heap[i].locked = t => Holds(t, i)
    /\ txn[t].pc \in {"validated", "install"} =>
          \A i \in Written(t) : heap[i].locked = t /\ heap[i].latest

TxnInv(t) == txn[t] \in Local(txn[t].seen) /\ Refs(t) /\ Locks(t)
InsertsInv ==
    /\ HeapInv /\ CommittedIsFound
    /\ DOMAIN txn = Txns /\ \A t \in Txns : TxnInv(t)

(* What is written is the tuples of the write records.                     *)
TuplesOf(writes) == {writes[n].tuple : n \in DOMAIN writes}

LEMMA TailWrites ==
    ASSUME NEW w \in Seq(WriteRecords), w # <<>>
    PROVE  /\ Tail(w) \in Seq(WriteRecords) /\ Head(w) \in WriteRecords
           /\ TuplesOf(w) = {Head(w).tuple} \cup TuplesOf(Tail(w))
           /\ \A n \in DOMAIN Tail(w) : n + 1 \in DOMAIN w /\ Tail(w)[n] = w[n + 1]
<1>1. Len(w) \in Nat \ {0} /\ DOMAIN w = 1..Len(w) /\ Head(w) = w[1]
  OBVIOUS
<1>2. /\ Tail(w) \in Seq(WriteRecords) /\ Head(w) \in WriteRecords
      /\ Len(Tail(w)) = Len(w) - 1
      /\ \A n \in 1..Len(Tail(w)) : Tail(w)[n] = w[n + 1]
  BY <1>1
<1>3. DOMAIN Tail(w) = 1..(Len(w) - 1)
  BY <1>2
<1>4. \A n \in DOMAIN w : n = 1 \/ (n - 1 \in DOMAIN Tail(w) /\ Tail(w)[n - 1] = w[n])
  BY <1>1, <1>2, <1>3
<1>5. \A n \in DOMAIN Tail(w) : n + 1 \in DOMAIN w /\ Tail(w)[n] = w[n + 1]
  BY <1>1, <1>2, <1>3
<1> QED
  BY <1>1, <1>2, <1>4, <1>5 DEF TuplesOf

LEMMA AppendWrites ==
    ASSUME NEW w \in Seq(WriteRecords), NEW e \in WriteRecords
    PROVE  /\ Append(w, e) \in Seq(WriteRecords)
           /\ TuplesOf(Append(w, e)) = TuplesOf(w) \cup {e.tuple}
           /\ \A n \in DOMAIN Append(w, e) : Append(w, e)[n] = e \/
                 (n \in DOMAIN w /\ Append(w, e)[n] = w[n])
<1>1. /\ Append(w, e) \in Seq(WriteRecords) /\ Len(Append(w, e)) = Len(w) + 1
      /\ \A n \in 1..Len(w) : Append(w, e)[n] = w[n]
      /\ Append(w, e)[Len(w) + 1] = e
      /\ Len(w) \in Nat
  OBVIOUS
<1>2. DOMAIN w = 1..Len(w) /\ DOMAIN Append(w, e) = 1..(Len(w) + 1)
  BY <1>1
<1> QED
  BY <1>1, <1>2 DEF TuplesOf

(* A step of another transaction leaves t's invariant alone, if it neither *)
(* takes nor gives t's locks and does not touch what they protect.         *)
LEMMA Frame ==
    ASSUME NEW t \in Txns, TxnInv(t),
           txn'[t] = txn[t] \/ \E b \in BOOLEAN : txn'[t] = [txn[t] EXCEPT !.removed = b],
           commits \in Nat, commits' \in Nat, commits <= commits',
           DOMAIN heap \subseteq DOMAIN heap',
           \A i \in DOMAIN heap :
              /\ heap'[i].key = heap[i].key
              /\ heap[i].locked = t => heap'[i].locked = t /\ heap'[i].latest = heap[i].latest,
           \A i \in DOMAIN heap' :
              heap'[i].locked = t => i \in DOMAIN heap /\ heap[i].locked = t
    PROVE  TxnInv(t)'
<1>1. /\ txn'[t] \in Local(txn'[t].seen)
      /\ txn'[t].pc = txn[t].pc /\ txn'[t].ops = txn[t].ops /\ txn'[t].at = txn[t].at
      /\ txn'[t].reads = txn[t].reads /\ txn'[t].writes = txn[t].writes
      /\ txn'[t].commit_tid = txn[t].commit_tid /\ txn'[t].unclean = txn[t].unclean
  BY DEF TxnInv, Local
<1>2. Written(t)' = Written(t) /\ Written(t) \subseteq DOMAIN heap
  BY <1>1 DEF TxnInv, Refs, Written
<1>3. Refs(t)'
  BY <1>1, SMTT(30) DEF TxnInv, Refs, Local
<1>4. Locks(t)'
  BY <1>1, <1>2 DEF TxnInv, Locks, Holds
<1> QED
  BY <1>1, <1>3, <1>4 DEF TxnInv

LEMMA LastInstalled ==
    ASSUME NEW k \in Keys, NEW c \in Seq(StoredValues)
    PROVE  Last(<<Value(Loader, k \notin Loaded)>> \o c) =
              IF c = <<>> THEN Value(Loader, k \notin Loaded) ELSE c[Len(c)]
<1> DEFINE first == <<Value(Loader, k \notin Loaded)>>
<1>1. first \in Seq(StoredValues) /\ Len(first) = 1
  BY DEF Value, StoredValues
<1>2. /\ Len(first \o c) = 1 + Len(c)
      /\ (first \o c)[1] = Value(Loader, k \notin Loaded)
      /\ \A n \in 1..Len(c) : (first \o c)[n + 1] = c[n]
  BY <1>1
<1>3. Len(c) \in Nat /\ (c = <<>> <=> Len(c) = 0)
  OBVIOUS
<1> QED
  BY <1>2, <1>3 DEF Last

LEMMA InstalledIsCurrent ==
    ASSUME HeapInv, NEW k \in Keys, NEW v \in StoredValues,
           chain' = [chain EXCEPT ![k] = Append(@, v)]
    PROVE  /\ chain' \in [Keys -> Seq(StoredValues)]
           /\ \A j \in Keys : CurrentValue(j)' = IF j = k THEN v ELSE CurrentValue(j)
<1>1. chain \in [Keys -> Seq(StoredValues)]
  BY DEF HeapInv
<1>2. /\ Append(chain[k], v) \in Seq(StoredValues)
      /\ Len(Append(chain[k], v)) = Len(chain[k]) + 1 /\ Len(chain[k]) \in Nat
      /\ Append(chain[k], v)[Len(chain[k]) + 1] = v
      /\ Append(chain[k], v) # <<>>
  BY <1>1
<1>3. chain' \in [Keys -> Seq(StoredValues)] /\ chain'[k] = Append(chain[k], v)
  BY <1>1, <1>2
<1>4. CurrentValue(k)' = IF chain'[k] = <<>> THEN Value(Loader, k \notin Loaded)
                                           ELSE chain'[k][Len(chain'[k])]
  BY <1>3, LastInstalled DEF CurrentValue, Values
<1>5. \A j \in Keys \ {k} : chain'[j] = chain[j]
  BY <1>1
<1> QED
  BY <1>2, <1>3, <1>4, <1>5 DEF CurrentValue, Values

LEMMA SameHistory ==
    ASSUME UNCHANGED chain
    PROVE  \A k \in Keys : CurrentValue(k)' = CurrentValue(k)
BY DEF CurrentValue, Values

(* A step changes the local state of t and of no other transaction.        *)
OthersSame(t) == DOMAIN txn' = Txns /\ \A u \in Txns \ {t} : txn'[u] = txn[u]
Only(t, z) == txn'[t] = z /\ OthersSame(t)

(* A step that changes nothing but t's local state, and the commit ids.    *)
LEMMA LocalStep ==
    ASSUME InsertsInv, NEW t \in Txns, OthersSame(t),
           UNCHANGED <<heap, tree, chain>>,
           commits' = commits \/ (commits' = commits + 1 /\ commits' < MAX_TID),
           TxnInv(t)'
    PROVE  InsertsInv'
<1>1. HeapInv' /\ commits' \in Nat /\ commits <= commits'
  BY DEF InsertsInv, HeapInv, MAX_TID
<1>2. CommittedIsFound'
  BY SameHistory DEF InsertsInv, CommittedIsFound
<1>3. DOMAIN txn' = Txns /\ \A u \in Txns \ {t} : txn'[u] = txn[u]
  BY DEF OthersSame
<1>4. ASSUME NEW u \in Txns \ {t} PROVE TxnInv(u)'
  BY <1>1, <1>3, <1>4, Frame DEF InsertsInv, HeapInv
<1> QED
  BY <1>1, <1>2, <1>3, <1>4 DEF InsertsInv

LEMMA VersionIsInt == ExtractVersionNumber \in Int
BY InsertsAssumption, FS_Subset, FS_CardinalityType DEF ExtractVersionNumber

LEMMA OperationTypes ==
    ASSUME NEW t \in Txns, TxnInv(t), NEW op, Running(t, op)
    PROVE  Key(t) \in Keys /\ (op = "put" => Head(txn[t].ops).delete \in BOOLEAN)
<1>1. txn[t].ops \in Seq(Ops) /\ txn[t].ops # <<>>
  BY DEF TxnInv, Local, Running
<1>2. Head(txn[t].ops) \in Ops /\ Head(txn[t].ops).op = op
  BY <1>1 DEF Running
<1> QED
  BY <1>2 DEF Ops, Key

LEMMA DoneTypes ==
    ASSUME NEW s, NEW x \in Local(s), x.ops # <<>>
    PROVE  /\ Done(x) \in Local(s) /\ Done(x).pc = "run"
           /\ Done(x).reads = x.reads /\ Done(x).writes = x.writes
           /\ Done(x).commit_tid = x.commit_tid /\ Done(x).seen = x.seen
           /\ Done(x).missing = x.missing
<1>1. Tail(x.ops) \in Seq(Ops)
  BY DEF Local
<1> DEFINE y == [x EXCEPT !.pc = "run", !.ops = Tail(@)]
<1>2. /\ y \in Local(s) /\ y.pc = "run"
      /\ y.reads = x.reads /\ y.writes = x.writes
      /\ y.commit_tid = x.commit_tid /\ y.seen = x.seen /\ y.missing = x.missing
  BY <1>1 DEF Local, Pcs
<1> DEFINE z == [y EXCEPT !.at = Nil]
<1>3. Done(x) = [z EXCEPT !.node = NoVersion] /\ NoVersion \in Int
  BY DEF Done, NoVersion
<1> HIDE DEF y
<1>4. /\ z \in Local(s) /\ z.pc = "run"
      /\ z.reads = x.reads /\ z.writes = x.writes
      /\ z.commit_tid = x.commit_tid /\ z.seen = x.seen /\ z.missing = x.missing
  BY <1>2 DEF Local, Nil
<1> HIDE DEF z
<1> QED
  BY <1>3, <1>4 DEF Local

LEMMA NodeReadTypes ==
    ASSUME NEW s, NEW x \in Local(s), x.pc = "run", NEW v \in Int
    PROVE  LET y == do_node_read(x, v) IN
           /\ y \in Local(s) /\ y.pc \in {"run", "aborted"}
           /\ y.reads = x.reads /\ y.writes = x.writes
           /\ y.commit_tid = x.commit_tid /\ y.seen = x.seen /\ y.missing = x.missing
BY DEF do_node_read, Local, Pcs

(* Before its commit, and after its end, a transaction holds no lock.      *)
LEMMA HoldsNothing ==
    ASSUME NEW t \in Txns, TxnInv(t),
           \/ txn[t].pc = "run" /\ txn[t].ops # <<>>
           \/ txn[t].pc \in {"found", "aborted", "committed"}
    PROVE  \A i \in DOMAIN heap : heap[i].locked # t
BY DEF TxnInv, Locks, Holds

LEMMA HoldsNothingStill ==
    ASSUME NEW t \in Txns, \A i \in DOMAIN heap' : heap'[i].locked # t,
           txn'[t] \in Local(txn'[t].seen), txn'[t].pc \notin {"validated", "install"}, Refs(t)'
    PROVE  TxnInv(t)'
BY DEF TxnInv, Locks

LEMMA Looking ==
    ASSUME InsertsInv, NEW t \in Txns,
           GetMissing(t) \/ GetFind(t) \/ GetRead(t) \/ PutFound(t) \/ UserAbort(t)
    PROVE  InsertsInv'
<1> DEFINE x == txn[t]
<1>0. /\ TxnInv(t) /\ DOMAIN txn = Txns /\ x \in Local(x.seen) /\ Refs(t)
      /\ commits \in Nat /\ commits < MAX_TID
  BY DEF InsertsInv, TxnInv, HeapInv
<1>1. CASE GetMissing(t)
  <2> DEFINE y == do_node_read(Done(x), ExtractVersionNumber)
             z == [y EXCEPT !.missing = @ \cup {Key(t)}, !.seen = @ \cup {Absence(Key(t))}]
  <2>1. Running(t, "get") /\ x.pc = "run" /\ x.ops # <<>> /\ Key(t) \in Keys
    BY <1>0, <1>1, OperationTypes DEF GetMissing, Running
  <2>2. /\ y \in Local(x.seen) /\ y.pc \in {"run", "aborted"}
        /\ y.reads = x.reads /\ y.writes = x.writes /\ y.commit_tid = x.commit_tid
    <3>1. Done(x) \in Local(x.seen) /\ Done(x).pc = "run"
          /\ Done(x).reads = x.reads /\ Done(x).writes = x.writes
          /\ Done(x).commit_tid = x.commit_tid
      BY <1>0, <2>1, DoneTypes
    <3> HIDE DEF x
    <3> QED
      BY <3>1, NodeReadTypes, VersionIsInt
  <2>3. /\ z \in Local(z.seen) /\ z.pc = y.pc /\ z.reads = x.reads
        /\ z.writes = x.writes /\ z.commit_tid = x.commit_tid
    <3> HIDE DEF y
    <3> QED
      BY <2>1, <2>2 DEF Local
  <2>4. txn' = [txn EXCEPT ![t] = z] /\ UNCHANGED <<heap, tree, commits, chain>>
    BY <1>1 DEF GetMissing, Set, SameStore
  <2> HIDE DEF z, y
  <2>5. Only(t, z)
    BY <2>4, <1>0 DEF Only, OthersSame
  <2>6. Refs(t)'
    BY <1>0, <2>2, <2>3, <2>4, <2>5 DEF Refs, Only
  <2>7. TxnInv(t)'
    BY <1>0, <2>1, <2>2, <2>3, <2>4, <2>5, <2>6, HoldsNothing, HoldsNothingStill DEF Only
  <2> QED
    <3>1. UNCHANGED <<heap, tree, chain>> /\ OthersSame(t)
      BY <1>0, <2>4, <2>5 DEF Only
    <3>2. commits' = commits \/ (commits' = commits + 1 /\ commits' < MAX_TID)
      BY <1>0, <2>4
    <3> QED
      BY <3>1, <3>2, <2>7, LocalStep
<1>2. CASE GetFind(t)
  <2> DEFINE z == [x EXCEPT !.pc = "found", !.at = tree[Key(t)], !.node = ExtractVersionNumber]
  <2>1. /\ Running(t, "get") /\ x.pc = "run" /\ x.ops # <<>> /\ Key(t) \in Keys
        /\ tree[Key(t)] # Nil
    BY <1>0, <1>2, OperationTypes DEF GetFind, Running
  <2>2. tree[Key(t)] \in DOMAIN heap /\ tree[Key(t)] \in Nat
    BY <2>1 DEF InsertsInv, HeapInv
  <2>3. /\ z \in Local(z.seen) /\ z.pc = "found" /\ z.at = tree[Key(t)] /\ z.ops = x.ops
        /\ z.reads = x.reads /\ z.writes = x.writes /\ z.commit_tid = x.commit_tid
    BY <1>0, <2>2, VersionIsInt DEF Local, Pcs
  <2>4. txn' = [txn EXCEPT ![t] = z] /\ UNCHANGED <<heap, tree, commits, chain>>
    BY <1>2 DEF GetFind, Set, SameStore
  <2> HIDE DEF z
  <2>5. Only(t, z)
    BY <2>4, <1>0 DEF Only, OthersSame
  <2>6. Refs(t)'
    BY <1>0, <2>1, <2>2, <2>3, <2>4, <2>5 DEF Refs, Only
  <2>7. TxnInv(t)'
    BY <1>0, <2>1, <2>3, <2>4, <2>5, <2>6, HoldsNothing, HoldsNothingStill DEF Only
  <2> QED
    <3>1. UNCHANGED <<heap, tree, chain>> /\ OthersSame(t)
      BY <1>0, <2>4, <2>5 DEF Only
    <3>2. commits' = commits \/ (commits' = commits + 1 /\ commits' < MAX_TID)
      BY <1>0, <2>4
    <3> QED
      BY <3>1, <3>2, <2>7, LocalStep
<1>3. CASE GetRead(t)
  <2> DEFINE n == heap[x.at]
             d == Done(x)
             r == [d EXCEPT !.reads = @ \cup {[tuple |-> x.at, version |-> n.version]},
                            !.seen = @ \cup {[key |-> n.key, val |-> n.value]}]
             y == do_node_read(d, x.node)
             e == IF n.version = MAX_TID THEN Absence(n.key) ELSE [key |-> n.key, val |-> n.value]
             m == [y EXCEPT !.seen = @ \cup {e}]
             z == IF IsRecord(n) THEN r ELSE m
  <2>1. x.pc = "found" /\ x.ops # <<>> /\ x.at \in DOMAIN heap /\ x.at \in Nat /\ n.version \in Nat
    <3>1. x.pc = "found" /\ x.ops # <<>> /\ x.at \in DOMAIN heap
      BY <1>0, <1>3 DEF GetRead, Refs
    <3>2. heap[x.at] \in Tuples /\ x.at \in Nat
      BY <3>1 DEF InsertsInv, HeapInv
    <3> QED
      BY <3>1, <3>2 DEF Tuples
  <2>2. d \in Local(x.seen) /\ d.pc = "run" /\ d.reads = x.reads /\ d.writes = x.writes
        /\ d.commit_tid = x.commit_tid
    BY <1>0, <2>1, DoneTypes
  <2>3. x.node \in Int
    BY <1>0 DEF Local
  <2>4. txn' = [txn EXCEPT ![t] = z] /\ UNCHANGED <<heap, tree, commits, chain>>
    BY <1>3 DEF GetRead, Set, SameStore
  <2>5. /\ y \in Local(x.seen) /\ y.pc \in {"run", "aborted"}
        /\ y.reads = x.reads /\ y.writes = x.writes /\ y.commit_tid = x.commit_tid
    <3> HIDE DEF d, x
    <3> QED
      BY <2>2, <2>3, NodeReadTypes
  <2> HIDE DEF d, y, e
  <2>6. /\ r \in Local(r.seen) /\ r.pc = "run" /\ r.writes = x.writes /\ r.commit_tid = x.commit_tid
        /\ \A q \in r.reads : q \in x.reads \/ q.tuple = x.at
    <3> DEFINE q == [tuple |-> x.at, version |-> n.version]
               o == [key |-> n.key, val |-> n.value]
    <3>1. q \in [tuple : Nat, version : Nat] /\ q.tuple = x.at
      BY <2>1
    <3>2. d.reads \cup {q} \in SUBSET [tuple : Nat, version : Nat]
      BY <2>2, <3>1 DEF Local
    <3>3. r = [d EXCEPT !.reads = @ \cup {q}, !.seen = @ \cup {o}]
      BY DEF r
    <3> HIDE DEF q, o, r, x, n
    <3>4. /\ r \in Local(r.seen) /\ r.pc = d.pc /\ r.writes = d.writes
          /\ r.commit_tid = d.commit_tid /\ r.reads = d.reads \cup {q}
      BY <2>2, <3>2, <3>3 DEF Local
    <3> QED
      BY <2>2, <3>1, <3>4
  <2>7. /\ m \in Local(m.seen) /\ m.pc = y.pc /\ m.reads = x.reads
        /\ m.writes = x.writes /\ m.commit_tid = x.commit_tid
    BY <2>5 DEF Local
  <2> HIDE DEF r, m
  <2>8. /\ z \in Local(z.seen) /\ z.pc \in {"run", "aborted"} /\ z.writes = x.writes
        /\ z.commit_tid = x.commit_tid /\ \A q \in z.reads : q \in x.reads \/ q.tuple = x.at
    BY <2>5, <2>6, <2>7
  <2> HIDE DEF z
  <2>9. Only(t, z)
    BY <2>4, <1>0 DEF Only, OthersSame
  <2>10. Refs(t)'
    BY <1>0, <2>1, <2>4, <2>8, <2>9 DEF Refs, Only
  <2>11. TxnInv(t)'
    BY <1>0, <2>1, <2>4, <2>8, <2>9, <2>10, HoldsNothing, HoldsNothingStill DEF Only
  <2> QED
    <3>1. UNCHANGED <<heap, tree, chain>> /\ OthersSame(t)
      BY <1>0, <2>4, <2>9 DEF Only
    <3>2. commits' = commits \/ (commits' = commits + 1 /\ commits' < MAX_TID)
      BY <1>0, <2>4
    <3> QED
      BY <3>1, <3>2, <2>11, LocalStep
<1>4. CASE PutFound(t)
  <2> DEFINE k == Key(t)
             w == Write(tree[k], k, Head(x.ops).delete, FALSE)
             z == [Done(x) EXCEPT !.writes = Append(@, w)]
  <2>1. /\ Running(t, "put") /\ x.pc = "run" /\ x.ops # <<>> /\ k \in Keys
        /\ Head(x.ops).delete \in BOOLEAN /\ tree[k] # Nil
    BY <1>0, <1>4, OperationTypes DEF PutFound, Running
  <2>2. tree[k] \in DOMAIN heap /\ heap[tree[k]].key = k /\ tree[k] \in Nat
    BY <2>1 DEF InsertsInv, HeapInv
  <2>3. w \in WriteRecords /\ w.tuple = tree[k] /\ w.key = k
    BY <2>1, <2>2 DEF Write, WriteRecords
  <2>4. txn' = [txn EXCEPT ![t] = z] /\ UNCHANGED <<heap, tree, commits, chain>>
    BY <1>4 DEF PutFound, Set, SameStore
  <2>5. /\ Done(x) \in Local(x.seen) /\ Done(x).pc = "run" /\ Done(x).reads = x.reads
        /\ Done(x).writes = x.writes /\ Done(x).commit_tid = x.commit_tid
    BY <1>0, <2>1, DoneTypes
  <2> HIDE DEF w
  <2>6. x.writes \in Seq(WriteRecords)
    BY <1>0 DEF Local
  <2>7. /\ Append(x.writes, w) \in Seq(WriteRecords)
        /\ \A n \in DOMAIN Append(x.writes, w) : Append(x.writes, w)[n] = w \/
                 (n \in DOMAIN x.writes /\ Append(x.writes, w)[n] = x.writes[n])
    BY <2>3, <2>6, AppendWrites
  <2>8. /\ z \in Local(z.seen) /\ z.pc = "run" /\ z.reads = x.reads
        /\ z.writes = Append(x.writes, w) /\ z.commit_tid = x.commit_tid
    BY <2>5, <2>7 DEF Local
  <2> HIDE DEF z
  <2>9. Only(t, z)
    BY <2>4, <1>0 DEF Only, OthersSame
  <2>10. Refs(t)'
    <3>1. /\ txn'[t].writes = Append(x.writes, w) /\ txn'[t].reads = x.reads
          /\ txn'[t].pc = "run" /\ txn'[t].commit_tid = x.commit_tid
      BY <2>8, <2>9 DEF Only
    <3>2. \A n \in DOMAIN Append(x.writes, w) :
             /\ Append(x.writes, w)[n].tuple \in DOMAIN heap
             /\ heap[Append(x.writes, w)[n].tuple].key = Append(x.writes, w)[n].key
      BY <1>0, <2>2, <2>3, <2>7 DEF Refs
    <3> QED
      BY <1>0, <2>4, <3>1, <3>2 DEF Refs
  <2>11. TxnInv(t)'
    BY <1>0, <2>1, <2>4, <2>8, <2>9, <2>10, HoldsNothing, HoldsNothingStill DEF Only
  <2> QED
    <3>1. UNCHANGED <<heap, tree, chain>> /\ OthersSame(t)
      BY <1>0, <2>4, <2>9 DEF Only
    <3>2. commits' = commits \/ (commits' = commits + 1 /\ commits' < MAX_TID)
      BY <1>0, <2>4
    <3> QED
      BY <3>1, <3>2, <2>11, LocalStep
<1>5. CASE UserAbort(t)
  <2> DEFINE z == [x EXCEPT !.pc = "aborted"]
  <2>1. x.pc = "run" /\ LockedBy(t) = {}
    BY <1>5 DEF UserAbort
  <2>2. \A i \in DOMAIN heap : heap[i].locked # t
    BY <1>0, <2>1 DEF TxnInv, Locks, Holds, LockedBy
  <2>3. /\ z \in Local(z.seen) /\ z.pc = "aborted" /\ z.reads = x.reads
        /\ z.writes = x.writes /\ z.commit_tid = x.commit_tid
    BY <1>0 DEF Local, Pcs
  <2>4. txn' = [txn EXCEPT ![t] = z] /\ UNCHANGED <<heap, tree, commits, chain>>
    BY <1>5 DEF UserAbort, Set, SameStore
  <2> HIDE DEF z
  <2>5. Only(t, z)
    BY <2>4, <1>0 DEF Only, OthersSame
  <2>6. Refs(t)'
    BY <1>0, <2>3, <2>4, <2>5 DEF Refs, Only
  <2>7. TxnInv(t)'
    BY <2>2, <2>3, <2>4, <2>5, <2>6, HoldsNothingStill DEF Only
  <2> QED
    <3>1. UNCHANGED <<heap, tree, chain>> /\ OthersSame(t)
      BY <1>0, <2>4, <2>5 DEF Only
    <3>2. commits' = commits \/ (commits' = commits + 1 /\ commits' < MAX_TID)
      BY <1>0, <2>4
    <3> QED
      BY <3>1, <3>2, <2>7, LocalStep
<1> QED
  BY <1>1, <1>2, <1>3, <1>4, <1>5

LEMMA FailedTypes ==
    ASSUME InsertsInv, NEW t \in Txns
    PROVE  LET z == Failed(t) IN
           /\ z \in Local(z.seen) /\ z.pc = "abort" /\ z.unclean = Written(t)
           /\ z.reads = txn[t].reads /\ z.writes = txn[t].writes
           /\ z.commit_tid = txn[t].commit_tid
<1>1. Written(t) \in SUBSET Nat /\ txn[t] \in Local(txn[t].seen)
  BY DEF InsertsInv, TxnInv, Refs, HeapInv, Written
<1> QED
  BY <1>1 DEF Failed, Local, Pcs

(* A commit fails: what is locked is what is to be cleaned.                *)
LEMMA Fails ==
    ASSUME InsertsInv, NEW t \in Txns, Only(t, Failed(t)),
           DOMAIN heap' = DOMAIN heap, commits' = commits,
           \A i \in DOMAIN heap : heap'[i].key = heap[i].key,
           \A i \in DOMAIN heap : heap'[i].locked = t => i \in Written(t)
    PROVE  TxnInv(t)'
<1>1. /\ txn'[t] \in Local(txn'[t].seen) /\ txn'[t].pc = "abort"
      /\ txn'[t].unclean = Written(t) /\ txn'[t].reads = txn[t].reads
      /\ txn'[t].writes = txn[t].writes /\ txn'[t].commit_tid = txn[t].commit_tid
  BY FailedTypes DEF Only
<1>2. Refs(t)
  BY DEF InsertsInv, TxnInv
<1>3. Refs(t)'
  BY <1>1, <1>2 DEF Refs
<1>4. Locks(t)'
  BY <1>1 DEF Locks, Holds
<1> QED
  BY <1>1, <1>3, <1>4 DEF TxnInv

LEMMA Committing ==
    ASSUME InsertsInv, NEW t \in Txns,
           ValidateReads(t) \/ ValidateAbsent(t) \/ Commit(t) \/ Aborted(t)
    PROVE  InsertsInv'
<1> DEFINE x == txn[t]
<1>0. /\ TxnInv(t) /\ DOMAIN txn = Txns /\ x \in Local(x.seen) /\ Refs(t) /\ Locks(t)
      /\ Written(t) \subseteq DOMAIN heap /\ commits \in Nat /\ commits < MAX_TID
  BY DEF InsertsInv, TxnInv, HeapInv, Refs, Written
<1>1. CASE ValidateReads(t)
  <2> DEFINE z == [x EXCEPT !.pc = "validated"]
  <2>1. /\ x.pc = "run" /\ x.ops = <<>> /\ LockedBy(t) = Written(t)
        /\ UNCHANGED <<heap, tree, commits, chain>>
    BY <1>1 DEF ValidateReads, SameStore
  <2>2. \A i \in Written(t) : heap[i].locked = t /\ heap[i].latest
    BY <1>0, <2>1 DEF LockedBy, Locks, Holds
  <2>3. \A i \in DOMAIN heap : heap[i].locked = t => i \in Written(t)
    BY <1>0, <2>1 DEF Locks, Holds
  <2>4. Only(t, z) \/ Only(t, Failed(t))
    BY <1>0, <1>1 DEF ValidateReads, Set, Only, OthersSame
  <2>5. CASE Only(t, z)
    <3>1. /\ z \in Local(z.seen) /\ z.pc = "validated" /\ z.reads = x.reads
          /\ z.writes = x.writes /\ z.commit_tid = x.commit_tid
      BY <1>0 DEF Local, Pcs
    <3> HIDE DEF z
    <3>2. Refs(t)'
      BY <1>0, <2>1, <2>5, <3>1 DEF Refs, Only
    <3>3. Written(t)' = Written(t)
      BY <2>5, <3>1 DEF Written, Only
    <3>4. Locks(t)'
      BY <2>1, <2>2, <2>3, <2>5, <3>1, <3>3 DEF Locks, Holds, Only
    <3>5. TxnInv(t)'
      BY <2>5, <3>1, <3>2, <3>4 DEF TxnInv, Only
    <3> QED
      <4>1. UNCHANGED <<heap, tree, chain>> /\ OthersSame(t)
        BY <2>1, <2>5 DEF Only
      <4>2. commits' = commits \/ (commits' = commits + 1 /\ commits' < MAX_TID)
        BY <1>0, <2>1, <2>5
      <4> QED
        BY <4>1, <4>2, <3>5, LocalStep
  <2>6. CASE Only(t, Failed(t))
    <3>1. TxnInv(t)'
      BY <2>1, <2>3, <2>6, Fails
    <3> QED
      <4>1. UNCHANGED <<heap, tree, chain>> /\ OthersSame(t)
        BY <2>1, <2>6 DEF Only
      <4>2. commits' = commits \/ (commits' = commits + 1 /\ commits' < MAX_TID)
        BY <1>0, <2>1, <2>6
      <4> QED
        BY <4>1, <4>2, <3>1, LocalStep
  <2> QED
    BY <2>4, <2>5, <2>6
<1>2. CASE ValidateAbsent(t)
  <2> DEFINE z == [x EXCEPT !.pc = "install", !.commit_tid = commits + 1]
  <2>1. x.pc = "validated" /\ UNCHANGED <<heap, tree, chain>> /\ commits + 1 < MAX_TID
    BY <1>2 DEF ValidateAbsent
  <2>2. \/ Only(t, z) /\ commits' = commits + 1
        \/ Only(t, Failed(t)) /\ commits' = commits
    BY <1>0, <1>2 DEF ValidateAbsent, Set, Only, OthersSame
  <2>3. /\ \A i \in DOMAIN heap : heap[i].locked = t => i \in Written(t)
        /\ \A i \in Written(t) : heap[i].locked = t /\ heap[i].latest
    BY <1>0, <2>1 DEF Locks, Holds
  <2>4. CASE Only(t, z) /\ commits' = commits + 1
    <3>1. /\ z \in Local(z.seen) /\ z.pc = "install" /\ z.reads = x.reads
          /\ z.writes = x.writes /\ z.commit_tid = commits + 1
      <4>1. commits + 1 \in Nat
        BY <1>0
      <4> QED
        BY <1>0, <4>1 DEF Local, Pcs
    <3> HIDE DEF z
    <3>2. Refs(t)'
      BY <1>0, <2>1, <2>4, <3>1 DEF Refs, Only
    <3>3. Written(t)' = Written(t)
      BY <2>4, <3>1 DEF Written, Only
    <3>4. Locks(t)'
      BY <2>1, <2>3, <2>4, <3>1, <3>3 DEF Locks, Holds, Only
    <3>5. TxnInv(t)'
      BY <2>4, <3>1, <3>2, <3>4 DEF TxnInv, Only
    <3> QED
      <4>1. UNCHANGED <<heap, tree, chain>> /\ OthersSame(t)
        BY <2>1, <2>4 DEF Only
      <4>2. commits' = commits \/ (commits' = commits + 1 /\ commits' < MAX_TID)
        BY <1>0, <2>1, <2>4
      <4> QED
        BY <4>1, <4>2, <3>5, LocalStep
  <2>5. CASE Only(t, Failed(t)) /\ commits' = commits
    <3>1. TxnInv(t)'
      BY <2>1, <2>3, <2>5, Fails
    <3> QED
      <4>1. UNCHANGED <<heap, tree, chain>> /\ OthersSame(t)
        BY <2>1, <2>5 DEF Only
      <4>2. commits' = commits \/ (commits' = commits + 1 /\ commits' < MAX_TID)
        BY <1>0, <2>1, <2>5
      <4> QED
        BY <4>1, <4>2, <3>1, LocalStep
  <2> QED
    BY <2>2, <2>4, <2>5
<1>3. CASE Commit(t)
  <2> DEFINE z == [x EXCEPT !.pc = "committed"]
  <2>1. x.pc = "install" /\ x.writes = <<>> /\ UNCHANGED <<heap, tree, commits, chain>>
    BY <1>3 DEF Commit, SameStore
  <2>2. Only(t, z)
    BY <1>0, <1>3 DEF Commit, Set, Only, OthersSame
  <2>3. \A i \in DOMAIN heap : heap[i].locked # t
    BY <1>0, <2>1 DEF Locks, Holds, Written
  <2>4. /\ z \in Local(z.seen) /\ z.pc = "committed" /\ z.reads = x.reads
        /\ z.writes = x.writes /\ z.commit_tid = x.commit_tid
    BY <1>0 DEF Local, Pcs
  <2> HIDE DEF z
  <2>5. Refs(t)'
    BY <1>0, <2>1, <2>2, <2>4 DEF Refs, Only
  <2>6. TxnInv(t)'
    BY <2>1, <2>2, <2>3, <2>4, <2>5, HoldsNothingStill DEF Only
  <2> QED
    <3>1. UNCHANGED <<heap, tree, chain>> /\ OthersSame(t)
      BY <2>1, <2>2 DEF Only
    <3>2. commits' = commits \/ (commits' = commits + 1 /\ commits' < MAX_TID)
      BY <1>0, <2>1, <2>2
    <3> QED
      BY <3>1, <3>2, <2>6, LocalStep
<1>4. CASE Aborted(t)
  <2> DEFINE z == [x EXCEPT !.pc = "aborted"]
  <2>1. x.pc = "abort" /\ x.unclean = {} /\ UNCHANGED <<heap, tree, commits, chain>>
    BY <1>4 DEF Aborted, SameStore
  <2>2. Only(t, z)
    BY <1>0, <1>4 DEF Aborted, Set, Only, OthersSame
  <2>3. \A i \in DOMAIN heap : heap[i].locked # t
    BY <1>0, <2>1 DEF Locks, Holds
  <2>4. /\ z \in Local(z.seen) /\ z.pc = "aborted" /\ z.reads = x.reads
        /\ z.writes = x.writes /\ z.commit_tid = x.commit_tid
    BY <1>0 DEF Local, Pcs
  <2> HIDE DEF z
  <2>5. Refs(t)'
    BY <1>0, <2>1, <2>2, <2>4 DEF Refs, Only
  <2>6. TxnInv(t)'
    BY <2>1, <2>2, <2>3, <2>4, <2>5, HoldsNothingStill DEF Only
  <2> QED
    <3>1. UNCHANGED <<heap, tree, chain>> /\ OthersSame(t)
      BY <2>1, <2>2 DEF Only
    <3>2. commits' = commits \/ (commits' = commits + 1 /\ commits' < MAX_TID)
      BY <1>0, <2>1, <2>2
    <3> QED
      BY <3>1, <3>2, <2>6, LocalStep
<1> QED
  BY <1>1, <1>2, <1>3, <1>4

(* A tuple is replaced in its place.                                       *)
LEMMA SeqExcept ==
    ASSUME NEW h \in Seq(Tuples), NEW i \in DOMAIN h, NEW e \in Tuples
    PROVE  /\ [h EXCEPT ![i] = e] \in Seq(Tuples) /\ DOMAIN [h EXCEPT ![i] = e] = DOMAIN h
           /\ Len([h EXCEPT ![i] = e]) = Len(h) /\ [h EXCEPT ![i] = e][i] = e
           /\ \A j \in DOMAIN h \ {i} : [h EXCEPT ![i] = e][j] = h[j]
<1>1. DOMAIN h = 1..Len(h)
  OBVIOUS
<1> QED
  BY <1>1, ExceptSeq

(* A tuple changes in nothing that a search finds, or one without a value  *)
(* leaves the tree.                                                        *)
LEMMA TupleStep ==
    ASSUME HeapInv, CommittedIsFound, NEW i \in DOMAIN heap, NEW e \in Tuples,
           heap' = [heap EXCEPT ![i] = e], UNCHANGED <<commits, chain>>,
           e.key = heap[i].key, e.version = heap[i].version, e.value = heap[i].value,
           \/ e.latest = heap[i].latest /\ tree' = tree
           \/ /\ ~e.latest /\ heap[i].latest
              /\ heap[i].version = MAX_TID \/ heap[i].value.deleted
              /\ tree' = [tree EXCEPT ![heap[i].key] = Nil]
    PROVE  /\ HeapInv' /\ CommittedIsFound' /\ DOMAIN heap' = DOMAIN heap /\ heap'[i] = e
           /\ \A j \in DOMAIN heap \ {i} : heap'[j] = heap[j]
<1>1. /\ heap' \in Seq(Tuples) /\ DOMAIN heap' = DOMAIN heap /\ heap'[i] = e
      /\ \A j \in DOMAIN heap \ {i} : heap'[j] = heap[j]
  BY SeqExcept DEF HeapInv
<1>2. \A j \in DOMAIN heap : heap'[j].key = heap[j].key /\ heap'[j].version = heap[j].version
         /\ heap'[j].value = heap[j].value /\ heap[j].key \in Keys /\ j # Nil
  <2>1. \A j \in DOMAIN heap : heap[j] \in Tuples /\ j # Nil
    BY DEF HeapInv, Nil
  <2> QED
    BY <1>1, <2>1 DEF Tuples
<1>3. \A k \in Keys : CurrentValue(k)' = CurrentValue(k)
  BY SameHistory
<1>4. CASE e.latest = heap[i].latest /\ tree' = tree
  <2>1. HeapInv'
    BY <1>1, <1>2, <1>4 DEF HeapInv
  <2>2. CommittedIsFound'
    BY <1>2, <1>3, <1>4 DEF CommittedIsFound, HeapInv
  <2> QED
    BY <1>1, <2>1, <2>2
<1>5. CASE /\ ~e.latest /\ heap[i].latest
           /\ heap[i].version = MAX_TID \/ heap[i].value.deleted
           /\ tree' = [tree EXCEPT ![heap[i].key] = Nil]
  <2> DEFINE k == heap[i].key
  <2>1. k \in Keys /\ tree[k] = i /\ i # Nil
    BY <1>2, <1>5 DEF HeapInv
  <2>2. tree' \in [Keys -> Nat] /\ tree'[k] = Nil /\ \A j \in Keys \ {k} : tree'[j] = tree[j]
    BY <1>5, <2>1 DEF HeapInv, Nil
  <2>3. CurrentValue(k).deleted
    BY <1>5, <2>1 DEF CommittedIsFound
  <2>4. \A j \in DOMAIN heap : heap'[j].latest <=> tree'[heap'[j].key] = j
    BY <1>1, <1>2, <1>5, <2>1, <2>2 DEF HeapInv
  <2>5. \A j \in Keys : tree'[j] # Nil => tree'[j] \in DOMAIN heap' /\ heap'[tree'[j]].key = j
    BY <1>1, <1>2, <2>2 DEF HeapInv
  <2>6. HeapInv'
    BY <1>1, <2>2, <2>4, <2>5 DEF HeapInv
  <2>7. CommittedIsFound'
    BY <1>2, <1>3, <2>2, <2>3 DEF CommittedIsFound, HeapInv
  <2> QED
    BY <1>1, <2>6, <2>7
<1> QED
  BY <1>4, <1>5

(* The transactions other than t, when a step changes no tuple but i,      *)
(* which is t's or nobody's, before and after.                             *)
LEMMA Others ==
    ASSUME InsertsInv, NEW t, NEW i \in DOMAIN heap,
           \A u \in Txns \ {t} : txn'[u] = txn[u] \/
              \E b \in BOOLEAN : txn'[u] = [txn[u] EXCEPT !.removed = b],
           commits' = commits, DOMAIN heap \subseteq DOMAIN heap',
           \A j \in DOMAIN heap \ {i} : heap'[j] = heap[j],
           \A j \in DOMAIN heap' \ DOMAIN heap : heap'[j].locked = Nil,
           heap'[i].key = heap[i].key,
           \/ heap[i].locked \in {Nil, t} /\ heap'[i].locked \in {Nil, t}
           \/ heap'[i].locked = heap[i].locked /\ heap'[i].latest = heap[i].latest
    PROVE  \A u \in Txns \ {t} : TxnInv(u)'
<1> SUFFICES ASSUME NEW u \in Txns \ {t} PROVE TxnInv(u)'
  OBVIOUS
<1>1. u # Nil /\ u \in Txns /\ TxnInv(u) /\ commits \in Nat
  BY InsertsAssumption DEF Nil, InsertsInv, HeapInv
<1>2. \A j \in DOMAIN heap :
         /\ heap'[j].key = heap[j].key
         /\ heap[j].locked = u => heap'[j].locked = u /\ heap'[j].latest = heap[j].latest
  BY <1>1
<1>3. \A j \in DOMAIN heap' : heap'[j].locked = u => j \in DOMAIN heap /\ heap[j].locked = u
  BY <1>1
<1> QED
  BY <1>1, <1>2, <1>3, Frame

LEMMA Locking ==
    ASSUME InsertsInv, NEW t \in Txns, NEW i \in DOMAIN heap, LockWrite(t, i)
    PROVE  InsertsInv'
<1> DEFINE x == txn[t]
           e == [heap[i] EXCEPT !.locked = t]
<1>1. /\ x.pc = "run" /\ x.ops = <<>> /\ i \in Written(t) /\ heap[i].locked = Nil
      /\ heap' = [heap EXCEPT ![i] = e] /\ UNCHANGED <<tree, commits, chain>>
  BY DEF LockWrite, InLockOrder
<1>2. heap[i] \in Tuples /\ HeapInv /\ CommittedIsFound /\ DOMAIN txn = Txns
  BY DEF InsertsInv, HeapInv
<1>3. /\ e \in Tuples /\ e.locked = t /\ e.latest = heap[i].latest
      /\ e.key = heap[i].key /\ e.version = heap[i].version /\ e.value = heap[i].value
  BY <1>2 DEF Tuples
<1> HIDE DEF e
<1>4. /\ HeapInv' /\ CommittedIsFound' /\ DOMAIN heap' = DOMAIN heap /\ heap'[i] = e
      /\ \A j \in DOMAIN heap \ {i} : heap'[j] = heap[j]
  BY <1>1, <1>2, <1>3, TupleStep
<1>5. OthersSame(t) /\ IF heap[i].latest THEN txn'[t] = x ELSE txn'[t] = Failed(t)
  BY <1>2 DEF LockWrite, Set, OthersSame, is_latest
<1>6. \A j \in DOMAIN heap : heap'[j].key = heap[j].key
  BY <1>3, <1>4
<1>7. TxnInv(t) /\ Locks(t) /\ Refs(t)
  BY DEF InsertsInv, TxnInv
<1>8. \A j \in DOMAIN heap : heap'[j].locked = t =>
         j \in Written(t) /\ (j # i => heap[j].latest)
  BY <1>1, <1>4, <1>7 DEF Locks, Holds
<1>9. TxnInv(t)'
  <2>1. CASE heap[i].latest
    <3>1. txn'[t] = x /\ Written(t)' = Written(t)
      BY <1>5, <2>1 DEF Written
    <3>2. Refs(t)'
      BY <1>1, <1>4, <1>6, <1>7, <3>1 DEF Refs
    <3>3. Locks(t)'
      BY <1>1, <1>3, <1>4, <1>8, <2>1, <3>1 DEF Locks, Holds
    <3> QED
      BY <1>7, <3>1, <3>2, <3>3 DEF TxnInv
  <2>2. CASE ~heap[i].latest
    <3>1. Only(t, Failed(t))
      BY <1>5, <2>2 DEF Only
    <3> QED
      BY <1>1, <1>4, <1>6, <1>8, <3>1, Fails
  <2> QED
    BY <2>1, <2>2
<1>10. \A u \in Txns \ {t} : TxnInv(u)'
  BY <1>1, <1>3, <1>4, <1>5, Others DEF OthersSame
<1> QED
  BY <1>4, <1>5, <1>9, <1>10 DEF InsertsInv, OthersSame

LEMMA Collecting ==
    ASSUME InsertsInv, NEW k \in Keys, Collect(k)
    PROVE  InsertsInv'
<1> DEFINE i == tree[k]
           e == [heap[i] EXCEPT !.latest = FALSE]
<1>1. /\ i # Nil /\ heap[i].value.deleted /\ heap[i].locked = Nil
      /\ heap' = [heap EXCEPT ![i] = e] /\ UNCHANGED <<commits, chain>> /\ RemoveKey(k, txn)
  BY DEF Collect
<1>2. /\ i \in DOMAIN heap /\ heap[i].key = k /\ heap[i].latest
      /\ heap[i] \in Tuples /\ HeapInv /\ CommittedIsFound
  BY <1>1 DEF InsertsInv, HeapInv
<1>3. /\ e \in Tuples /\ ~e.latest /\ e.locked = Nil
      /\ e.key = heap[i].key /\ e.version = heap[i].version /\ e.value = heap[i].value
  BY <1>1, <1>2 DEF Tuples
<1> HIDE DEF e
<1>4. tree' = [tree EXCEPT ![heap[i].key] = Nil]
  BY <1>1, <1>2 DEF RemoveKey
<1>5. /\ HeapInv' /\ CommittedIsFound' /\ DOMAIN heap' = DOMAIN heap /\ heap'[i] = e
      /\ \A j \in DOMAIN heap \ {i} : heap'[j] = heap[j]
  BY <1>1, <1>2, <1>3, <1>4, TupleStep
<1>6. /\ DOMAIN txn' = Txns
      /\ \A u \in Txns : \E b \in BOOLEAN : txn'[u] = [txn[u] EXCEPT !.removed = b]
  BY <1>1 DEF RemoveKey
<1>7. \A u \in Txns \ {Nil} : TxnInv(u)'
  BY <1>1, <1>2, <1>3, <1>5, <1>6, Others
<1>8. \A u \in Txns : TxnInv(u)'
  BY <1>7, InsertsAssumption DEF Nil
<1> QED
  BY <1>5, <1>6, <1>8 DEF InsertsInv

LEMMA Cleaning ==
    ASSUME InsertsInv, NEW t \in Txns, NEW i \in DOMAIN heap,
           CleanInserted(t, i) \/ CleanWritten(t, i)
    PROVE  InsertsInv'
<1> DEFINE x == txn[t]
           z == [x EXCEPT !.unclean = @ \ {i}]
<1>1. /\ heap[i] \in Tuples /\ HeapInv /\ CommittedIsFound /\ DOMAIN txn = Txns
      /\ TxnInv(t) /\ Locks(t) /\ Refs(t) /\ x \in Local(x.seen)
  BY DEF InsertsInv, HeapInv, TxnInv
<1>2. /\ z \in Local(z.seen) /\ z.pc = x.pc /\ z.unclean = x.unclean \ {i}
      /\ z.reads = x.reads /\ z.writes = x.writes /\ z.commit_tid = x.commit_tid
  BY <1>1 DEF Local
<1> HIDE DEF z
(* What is left to be cleaned holds the locks that t has left.             *)
<1>3. ASSUME x.pc = "abort", DOMAIN heap' = DOMAIN heap, commits' = commits,
             \A j \in DOMAIN heap \ {i} : heap'[j] = heap[j],
             heap'[i].key = heap[i].key, heap'[i].locked # t,
             txn'[t] = z \/ \E b \in BOOLEAN : txn'[t] = [z EXCEPT !.removed = b]
      PROVE  TxnInv(t)'
  <2>1. /\ txn'[t] \in Local(txn'[t].seen) /\ txn'[t].pc = "abort"
        /\ txn'[t].unclean = x.unclean \ {i} /\ txn'[t].reads = x.reads
        /\ txn'[t].writes = x.writes /\ txn'[t].commit_tid = x.commit_tid
    BY <1>2, <1>3 DEF Local
  <2>2. Refs(t)'
    <3>1. \A j \in DOMAIN heap : heap'[j].key = heap[j].key
      BY <1>3
    <3> QED
      BY <1>1, <1>3, <2>1, <3>1 DEF Refs
  <2>3. Locks(t)'
    BY <1>1, <1>3, <2>1 DEF Locks, Holds
  <2> QED
    BY <2>1, <2>2, <2>3 DEF TxnInv
<1>4. CASE CleanInserted(t, i)
  <2> DEFINE removed == IsMarker(heap[i])
             e == [heap[i] EXCEPT !.locked = Nil, !.latest = @ /\ ~removed]
             y == [txn EXCEPT ![t].unclean = @ \ {i}]
  <2>1. /\ x.pc = "abort" /\ heap[i].locked \in {Nil, t}
        /\ heap' = [heap EXCEPT ![i] = e] /\ UNCHANGED <<commits, chain>>
        /\ IF removed THEN RemoveKey(heap[i].key, y) ELSE txn' = y /\ UNCHANGED tree
    BY <1>4 DEF CleanInserted
  <2>2. removed \in BOOLEAN /\ (removed => heap[i].latest /\ heap[i].version = MAX_TID)
    BY DEF IsMarker
  <2>3. heap[i].latest \in BOOLEAN
    BY <1>1 DEF Tuples
  <2> HIDE DEF removed
  <2>4. /\ e \in Tuples /\ e.locked = Nil /\ e.latest = (heap[i].latest /\ ~removed)
        /\ e.key = heap[i].key /\ e.version = heap[i].version /\ e.value = heap[i].value
    BY <1>1, <2>2, <2>3 DEF Tuples, Nil
  <2> HIDE DEF e
  <2>5. \/ e.latest = heap[i].latest /\ tree' = tree
        \/ /\ ~e.latest /\ heap[i].latest
           /\ heap[i].version = MAX_TID \/ heap[i].value.deleted
           /\ tree' = [tree EXCEPT ![heap[i].key] = Nil]
    BY <2>1, <2>2, <2>3, <2>4 DEF RemoveKey
  <2>6. /\ HeapInv' /\ CommittedIsFound' /\ DOMAIN heap' = DOMAIN heap /\ heap'[i] = e
        /\ \A j \in DOMAIN heap \ {i} : heap'[j] = heap[j]
    BY <1>1, <2>1, <2>4, <2>5, TupleStep
  <2>7. DOMAIN y = Txns /\ y[t] = z /\ \A u \in Txns \ {t} : y[u] = txn[u]
    BY <1>1 DEF z
  <2> HIDE DEF y
  <2>8. /\ DOMAIN txn' = Txns
        /\ txn'[t] = z \/ \E b \in BOOLEAN : txn'[t] = [z EXCEPT !.removed = b]
        /\ \A u \in Txns \ {t} : txn'[u] = txn[u] \/
              \E b \in BOOLEAN : txn'[u] = [txn[u] EXCEPT !.removed = b]
    <3>1. CASE removed
      <4>1. txn' = [u \in Txns |-> [y[u] EXCEPT !.removed = y[u].absent # NoVersion]]
        BY <2>1, <3>1 DEF RemoveKey
      <4>2. \A u \in Txns : \E b \in BOOLEAN : txn'[u] = [y[u] EXCEPT !.removed = b]
        BY <4>1
      <4> QED
        BY <2>7, <4>1, <4>2
    <3>2. CASE ~removed
      BY <2>1, <2>7, <3>2
    <3> QED
      BY <3>1, <3>2
  <2>9. t # Nil
    BY InsertsAssumption DEF Nil
  <2>10. TxnInv(t)'
    BY <1>3, <2>1, <2>4, <2>6, <2>8, <2>9
  <2>11. \A u \in Txns \ {t} : TxnInv(u)'
    BY <2>1, <2>4, <2>6, <2>8, Others
  <2> QED
    BY <2>6, <2>8, <2>10, <2>11 DEF InsertsInv
<1>5. CASE CleanWritten(t, i)
  <2> DEFINE e == [heap[i] EXCEPT !.locked = IF @ = t THEN Nil ELSE @]
  <2>1. /\ x.pc = "abort" /\ heap' = [heap EXCEPT ![i] = e]
        /\ UNCHANGED <<tree, commits, chain>> /\ txn' = [txn EXCEPT ![t] = z]
    BY <1>5 DEF CleanWritten, Set, z
  <2>2. t # Nil /\ heap[i].locked \in Txns \cup {Nil}
    BY <1>1, InsertsAssumption DEF Nil, Tuples
  <2>3. /\ e \in Tuples /\ e.locked = (IF heap[i].locked = t THEN Nil ELSE heap[i].locked)
        /\ e.latest = heap[i].latest
        /\ e.key = heap[i].key /\ e.version = heap[i].version /\ e.value = heap[i].value
    BY <1>1, <2>2 DEF Tuples
  <2> HIDE DEF e
  <2>4. /\ HeapInv' /\ CommittedIsFound' /\ DOMAIN heap' = DOMAIN heap /\ heap'[i] = e
        /\ \A j \in DOMAIN heap \ {i} : heap'[j] = heap[j]
    BY <1>1, <2>1, <2>3, TupleStep
  <2>5. DOMAIN txn' = Txns /\ txn'[t] = z /\ \A u \in Txns \ {t} : txn'[u] = txn[u]
    BY <1>1, <2>1
  <2>6. TxnInv(t)'
    BY <1>3, <2>1, <2>2, <2>3, <2>4, <2>5
  <2>7. \A u \in Txns \ {t} : TxnInv(u)'
    BY <2>1, <2>3, <2>4, <2>5, Others
  <2> QED
    BY <2>4, <2>5, <2>6, <2>7 DEF InsertsInv
<1> QED
  BY <1>4, <1>5

(* Installing.                                                             *)
LEMMA Installing ==
    ASSUME InsertsInv, NEW t \in Txns, Install(t)
    PROVE  InsertsInv'
<1> DEFINE x == txn[t]
           w == Head(x.writes)
           i == w.tuple
           k == w.key
           n == heap[i]
           v == Value(t, w.delete)
           during == {u \in Txns : Begun(u) /\ ~Ended(u)}
           new == [n EXCEPT !.version = x.commit_tid, !.value = v, !.locked = Nil,
                            !.during = during]
           z == [x EXCEPT !.writes = Tail(@)]
           last == \A m \in DOMAIN Tail(x.writes) : Tail(x.writes)[m].tuple # i
<1>1. /\ HeapInv /\ CommittedIsFound /\ DOMAIN txn = Txns
      /\ TxnInv(t) /\ Locks(t) /\ Refs(t) /\ x \in Local(x.seen)
  BY DEF InsertsInv, TxnInv
<1>2. /\ x.pc = "install" /\ x.writes # <<>> /\ txn' = [txn EXCEPT ![t] = z]
      /\ commits' = commits
  BY DEF Install, Set
<1>3. x.writes \in Seq(WriteRecords) /\ x.commit_tid \in Nat /\ x.commit_tid <= commits
  BY <1>1 DEF Local, Refs
<1>4. /\ Tail(x.writes) \in Seq(WriteRecords) /\ w \in WriteRecords
      /\ TuplesOf(x.writes) = {i} \cup TuplesOf(Tail(x.writes))
      /\ \A m \in DOMAIN Tail(x.writes) :
            m + 1 \in DOMAIN x.writes /\ Tail(x.writes)[m] = x.writes[m + 1]
  BY <1>2, <1>3, TailWrites
<1>5. w = x.writes[1] /\ 1 \in DOMAIN x.writes
  BY <1>2, <1>3
<1>6. i \in DOMAIN heap /\ n.key = k /\ i \in Written(t) /\ k \in Keys /\ w.delete \in BOOLEAN
  BY <1>1, <1>4, <1>5 DEF Refs, Written, WriteRecords
<1>7. n \in Tuples /\ n.locked = t /\ n.latest /\ tree[k] = i /\ i \in Nat \ {Nil}
  BY <1>1, <1>2, <1>6 DEF Locks, HeapInv, Nil
<1>8. v \in StoredValues /\ v.deleted = w.delete
  BY <1>6 DEF Value, StoredValues
<1>9. /\ z \in Local(z.seen) /\ z.pc = "install" /\ z.reads = x.reads
      /\ z.writes = Tail(x.writes) /\ z.commit_tid = x.commit_tid
  BY <1>1, <1>2, <1>4 DEF Local
<1>10. during \in SUBSET Txns
  OBVIOUS
<1> HIDE DEF during
<1>11. /\ new \in Tuples /\ new.version = x.commit_tid /\ new.value = v /\ new.locked = Nil
       /\ new.key = k /\ new.latest
  <2> DEFINE o == [n EXCEPT !.version = x.commit_tid, !.value = v]
  <2>1. /\ o \in Tuples /\ o.version = x.commit_tid /\ o.value = v
        /\ o.key = k /\ o.latest
    <3> HIDE DEF n, v
    <3> QED
      BY <1>3, <1>6, <1>7, <1>8 DEF Tuples
  <2>2. new = [o EXCEPT !.locked = Nil, !.during = during]
    OBVIOUS
  <2> HIDE DEF o
  <2> QED
    BY <1>10, <2>1, <2>2 DEF Tuples
<1>12. x.commit_tid # MAX_TID
  BY <1>1, <1>3 DEF HeapInv, MAX_TID
<1>13. \/ ~last /\ UNCHANGED <<heap, tree, chain>>
       \/ /\ last /\ heap' = [heap EXCEPT ![i] = new] /\ UNCHANGED tree
          /\ chain' = [chain EXCEPT ![k] = Append(@, v)]
       \/ /\ last
          /\ heap' = Append([heap EXCEPT ![i].latest = FALSE, ![i].locked = Nil], new)
          /\ tree' = [tree EXCEPT ![k] = Len(heap) + 1]
          /\ chain' = [chain EXCEPT ![k] = Append(@, v)]
  BY DEF Install, during
<1> HIDE DEF new, z, n, v
<1>14. txn'[t] = z /\ DOMAIN txn' = Txns /\ \A u \in Txns \ {t} : txn'[u] = txn[u]
  BY <1>1, <1>2
<1>15. /\ Written(t) = TuplesOf(x.writes) /\ Written(t)' = TuplesOf(Tail(x.writes))
       /\ Written(t)' \subseteq Written(t)
  <2>1. Written(t) = TuplesOf(x.writes)
    BY DEF Written, TuplesOf
  <2>2. txn'[t].writes = Tail(x.writes)
    BY <1>9, <1>14
  <2>3. Written(t)' = TuplesOf(Tail(x.writes))
    BY <2>2 DEF Written, TuplesOf
  <2> QED
    BY <1>4, <2>1, <2>3
<1>16. ASSUME DOMAIN heap \subseteq DOMAIN heap',
              \A j \in DOMAIN heap : heap'[j].key = heap[j].key
       PROVE  Refs(t)'
  <2>1. \A m \in DOMAIN Tail(x.writes) :
           /\ Tail(x.writes)[m].tuple \in DOMAIN heap
           /\ heap[Tail(x.writes)[m].tuple].key = Tail(x.writes)[m].key
    BY <1>1, <1>4 DEF Refs
  <2>2. \A r \in x.reads : r.tuple \in DOMAIN heap
    BY <1>1 DEF Refs
  <2> QED
    <3>1. /\ txn'[t].writes = Tail(x.writes) /\ txn'[t].reads = x.reads
          /\ txn'[t].pc = "install" /\ txn'[t].commit_tid = x.commit_tid
      BY <1>9, <1>14
    <3>2. \A m \in DOMAIN Tail(x.writes) :
             /\ Tail(x.writes)[m].tuple \in DOMAIN heap'
             /\ heap'[Tail(x.writes)[m].tuple].key = Tail(x.writes)[m].key
      BY <1>16, <2>1
    <3>3. \A r \in x.reads : r.tuple \in DOMAIN heap'
      BY <1>16, <2>2
    <3> QED
      BY <1>2, <1>3, <3>1, <3>2, <3>3 DEF Refs
<1>17. /\ \A j \in DOMAIN heap : heap[j].locked = t => j \in Written(t)
       /\ \A j \in Written(t) : heap[j].locked = t /\ heap[j].latest /\ j \in DOMAIN heap
  BY <1>1, <1>2 DEF Locks, Holds, Refs, Written
<1> HIDE DEF w, k, i
<1>18. CASE ~last /\ UNCHANGED <<heap, tree, chain>>
  <2>1. Written(t)' = Written(t)
    BY <1>4, <1>15, <1>18 DEF TuplesOf
  <2>2. Refs(t)'
    BY <1>16, <1>18
  <2>3. Locks(t)'
    BY <1>9, <1>14, <1>17, <1>18, <2>1 DEF Locks, Holds
  <2>4. TxnInv(t)'
    BY <1>9, <1>14, <2>2, <2>3 DEF TxnInv
  <2>5. UNCHANGED <<heap, tree, chain>> /\ OthersSame(t)
    BY <1>14, <1>18 DEF OthersSame
  <2>6. commits' = commits \/ (commits' = commits + 1 /\ commits' < MAX_TID)
    BY <1>1, <1>2 DEF HeapInv
  <2> QED
    BY <2>4, <2>5, <2>6, LocalStep
(* The lock of the tuple that is installed is given back.                  *)
<1>19. ASSUME last, i \in DOMAIN heap', DOMAIN heap \subseteq DOMAIN heap',
              \A j \in DOMAIN heap \ {i} : heap'[j] = heap[j],
              \A j \in DOMAIN heap' \ DOMAIN heap : heap'[j].locked = Nil,
              heap'[i].key = k, heap'[i].locked = Nil
       PROVE  \A u \in Txns : TxnInv(u)'
  <2>1. t # Nil
    BY InsertsAssumption DEF Nil
  <2>2. Written(t)' = Written(t) \ {i}
    <3>1. i \notin TuplesOf(Tail(x.writes))
      BY <1>19 DEF TuplesOf
    <3> QED
      BY <1>4, <1>15, <3>1
  <2>3. Refs(t)'
    BY <1>6, <1>16, <1>19 DEF n
  <2>4. Locks(t)'
    <3>1. \A j \in DOMAIN heap' : heap'[j].locked = t => j \in Written(t)'
      BY <1>17, <1>19, <2>1, <2>2
    <3>2. \A j \in Written(t)' : heap'[j].locked = t /\ heap'[j].latest
      BY <1>17, <1>19, <2>2
    <3> QED
      BY <1>9, <1>14, <3>1, <3>2 DEF Locks, Holds
  <2>5. TxnInv(t)'
    BY <1>9, <1>14, <2>3, <2>4 DEF TxnInv
  <2>6. \A u \in Txns \ {t} : TxnInv(u)'
    <3>1. /\ i \in DOMAIN heap /\ heap[i].locked = t /\ heap'[i].locked = Nil
          /\ heap'[i].key = heap[i].key
      BY <1>6, <1>7, <1>19 DEF n
    <3> HIDE DEF last
    <3> QED
      BY <1>2, <1>14, <1>19, <3>1, Others
  <2> QED
    BY <2>5, <2>6
<1>20. CASE /\ last /\ heap' = [heap EXCEPT ![i] = new] /\ UNCHANGED tree
            /\ chain' = [chain EXCEPT ![k] = Append(@, v)]
  <2>1. /\ heap' \in Seq(Tuples) /\ DOMAIN heap' = DOMAIN heap /\ heap'[i] = new
        /\ \A j \in DOMAIN heap \ {i} : heap'[j] = heap[j]
    BY <1>1, <1>6, <1>11, <1>20, SeqExcept DEF HeapInv
  <2>2. /\ chain' \in [Keys -> Seq(StoredValues)] /\ \A j \in Keys : CurrentValue(j)' = IF j = k THEN v ELSE CurrentValue(j)
    <3>1. HeapInv /\ k \in Keys /\ v \in StoredValues
          /\ chain' = [chain EXCEPT ![k] = Append(@, v)]
      BY <1>1, <1>6, <1>8, <1>20
    <3> QED
      BY <3>1, InstalledIsCurrent
  <2>3. \A j \in DOMAIN heap : heap'[j].key = heap[j].key /\ heap'[j].latest = heap[j].latest
    BY <1>6, <1>7, <1>11, <2>1 DEF n, Tuples
  <2>4. HeapInv'
    BY <1>1, <1>2, <1>20, <2>1, <2>2, <2>3 DEF HeapInv
  <2>5. CommittedIsFound'
    <3>1. \A j \in Keys \ {k} : tree[j] # Nil => tree[j] \in DOMAIN heap /\ tree[j] # i
      BY <1>1, <1>6 DEF HeapInv, n
    <3> QED
      BY <1>1, <1>7, <1>11, <1>12, <1>20, <2>1, <2>2, <3>1 DEF CommittedIsFound
  <2>6. \A u \in Txns : TxnInv(u)'
    BY <1>6, <1>11, <1>19, <1>20, <2>1
  <2> QED
    BY <1>14, <2>4, <2>5, <2>6 DEF InsertsInv
<1>21. CASE /\ last
            /\ heap' = Append([heap EXCEPT ![i].latest = FALSE, ![i].locked = Nil], new)
            /\ tree' = [tree EXCEPT ![k] = Len(heap) + 1]
            /\ chain' = [chain EXCEPT ![k] = Append(@, v)]
  <2> DEFINE old == [n EXCEPT !.latest = FALSE, !.locked = Nil]
             h == [heap EXCEPT ![i] = old]
  <2>1. old \in Tuples /\ old.key = k /\ ~old.latest /\ old.locked = Nil
    BY <1>6, <1>7 DEF Tuples
  <2>2. heap' = Append(h, new)
    BY <1>21 DEF n
  <2> HIDE DEF old
  <2>3. /\ h \in Seq(Tuples) /\ DOMAIN h = DOMAIN heap /\ h[i] = old /\ Len(h) = Len(heap)
        /\ \A j \in DOMAIN heap \ {i} : h[j] = heap[j]
    BY <1>1, <1>6, <2>1, SeqExcept DEF HeapInv
  <2> HIDE DEF h
  <2>4. heap \in Seq(Tuples) /\ DOMAIN heap = 1..Len(heap) /\ Len(heap) \in Nat
    BY <1>1 DEF HeapInv
  <2>5. /\ heap' \in Seq(Tuples) /\ DOMAIN heap' = 1..(Len(heap) + 1)
        /\ heap'[Len(heap) + 1] = new
        /\ \A j \in DOMAIN heap : heap'[j] = h[j]
    BY <1>11, <2>2, <2>3, <2>4
  <2>6. /\ DOMAIN heap' = DOMAIN heap \cup {Len(heap) + 1} /\ Len(heap) + 1 \notin DOMAIN heap
        /\ Len(heap) + 1 \in Nat \ {Nil} /\ heap'[i] = old
        /\ \A j \in DOMAIN heap \ {i} : heap'[j] = heap[j]
    BY <1>6, <2>3, <2>4, <2>5 DEF Nil
  <2>7. /\ chain' \in [Keys -> Seq(StoredValues)] /\ \A j \in Keys : CurrentValue(j)' = IF j = k THEN v ELSE CurrentValue(j)
    <3>1. HeapInv /\ k \in Keys /\ v \in StoredValues
          /\ chain' = [chain EXCEPT ![k] = Append(@, v)]
      BY <1>1, <1>6, <1>8, <1>21
    <3> QED
      BY <3>1, InstalledIsCurrent
  <2>8. /\ tree' \in [Keys -> Nat] /\ tree'[k] = Len(heap) + 1
        /\ \A j \in Keys \ {k} : tree'[j] = tree[j]
    BY <1>1, <1>6, <1>21, <2>6 DEF HeapInv
  <2>9. \A j \in Keys \ {k} : tree[j] # Nil => tree[j] \in DOMAIN heap \ {i} /\ heap[tree[j]].key = j
    BY <1>1, <1>6 DEF HeapInv, n
  <2>10. \A j \in DOMAIN heap : heap[j].key \in Keys /\ (heap[j].latest <=> tree[heap[j].key] = j)
    <3>1. \A j \in DOMAIN heap : heap[j] \in Tuples
      BY <2>4
    <3> QED
      BY <1>1, <3>1 DEF HeapInv, Tuples
  <2>11. \A j \in DOMAIN heap' : heap'[j].latest <=> tree'[heap'[j].key] = j
    <3>1. heap'[i].latest <=> tree'[heap'[i].key] = i
      BY <1>6, <2>1, <2>6, <2>8
    <3>2. new.latest <=> tree'[new.key] = Len(heap) + 1
      BY <1>11, <2>8
    <3>3. ASSUME NEW j \in DOMAIN heap \ {i}
          PROVE  heap'[j].latest <=> tree'[heap'[j].key] = j
      <4>1. heap'[j] = heap[j] /\ j # Len(heap) + 1
        BY <2>6, <3>3
      <4>2. CASE heap[j].key = k
        BY <1>7, <2>8, <2>10, <3>3, <4>1, <4>2
      <4>3. CASE heap[j].key # k
        BY <2>8, <2>10, <3>3, <4>1, <4>3
      <4> QED
        BY <4>2, <4>3
    <3> QED
      BY <2>5, <2>6, <3>1, <3>2, <3>3
  <2>12. \A j \in Keys : tree'[j] # Nil => tree'[j] \in DOMAIN heap' /\ heap'[tree'[j]].key = j
    <3>1. tree'[k] \in DOMAIN heap' /\ heap'[tree'[k]].key = k
      BY <1>11, <2>5, <2>6, <2>8
    <3>2. ASSUME NEW j \in Keys \ {k}, tree'[j] # Nil
          PROVE  tree'[j] \in DOMAIN heap' /\ heap'[tree'[j]].key = j
      <4>1. tree'[j] \in DOMAIN heap \ {i} /\ heap[tree'[j]].key = j
        BY <2>8, <2>9, <3>2
      <4> QED
        BY <2>6, <4>1
    <3> QED
      BY <3>1, <3>2
  <2>13. HeapInv'
    BY <1>1, <1>2, <2>5, <2>7, <2>8, <2>11, <2>12 DEF HeapInv
  <2>14. CommittedIsFound'
    BY <1>1, <1>11, <1>12, <2>5, <2>6, <2>7, <2>8, <2>9 DEF CommittedIsFound
  <2>15. \A u \in Txns : TxnInv(u)'
    <3>1. \A j \in DOMAIN heap' \ DOMAIN heap : heap'[j].locked = Nil
      BY <1>11, <2>5, <2>6
    <3> QED
      BY <1>6, <1>19, <1>21, <2>1, <2>6, <3>1
  <2> QED
    BY <1>14, <2>13, <2>14, <2>15 DEF InsertsInv
<1> QED
  BY <1>13, <1>18, <1>20, <1>21

LEMMA InsertsInit == Init => InsertsInv
<1> SUFFICES ASSUME Init PROVE InsertsInv
  OBVIOUS
<1> DEFINE N == Cardinality(Loaded)
           T(k, i) == Tuple(i, k, LoadTid, Value(Loader, FALSE))
<1>1. N \in Nat
  BY InsertsAssumption, FS_Subset, FS_CardinalityType
<1> HIDE DEF N
<1>2. PICK place \in Bijection(Loaded, 1..N) :
         /\ tree = [k \in Keys |-> IF k \in Loaded THEN place[k] ELSE Nil]
         /\ heap = [i \in 1..N |-> T(CHOOSE k \in Loaded : place[k] = i, i)]
  BY DEF Init, N
<1>3. /\ place \in [Loaded -> 1..N]
      /\ \A j, k \in Loaded : place[j] = place[k] => j = k
      /\ \A i \in 1..N : \E k \in Loaded : place[k] = i
  BY <1>2 DEF Bijection, Injection, Surjection, IsInjective
<1>4. \A k \in Keys, i \in Nat :
         /\ T(k, i) \in Tuples /\ T(k, i).key = k /\ T(k, i).latest /\ T(k, i).locked = Nil
         /\ T(k, i).version # MAX_TID /\ T(k, i).value = Value(Loader, FALSE)
  BY DEF Tuple, Tuples, Value, StoredValues, LoadTid, MAX_TID
<1> HIDE DEF T
<1>5. \A i \in 1..N : \E k \in Loaded : place[k] = i /\ heap[i] = T(k, i)
  <2> SUFFICES ASSUME NEW i \in 1..N
               PROVE  \E k \in Loaded : place[k] = i /\ heap[i] = T(k, i)
    OBVIOUS
  <2>1. \E k \in Loaded : place[k] = i
    BY <1>3
  <2>2. LET k == CHOOSE k \in Loaded : place[k] = i IN k \in Loaded /\ place[k] = i
    BY <2>1
  <2> QED
    BY <1>2, <2>2
<1>6. Loaded \subseteq Keys /\ 1..N \subseteq Nat /\ Nil \notin 1..N /\ DOMAIN heap = 1..N
  BY <1>1, <1>2, InsertsAssumption DEF Nil
<1>7. \A i \in DOMAIN heap :
         /\ heap[i] \in Tuples /\ heap[i].key \in Loaded /\ place[heap[i].key] = i
         /\ heap[i].latest /\ heap[i].locked = Nil
         /\ heap[i].version # MAX_TID /\ heap[i].value = Value(Loader, FALSE)
  <2> TAKE i \in DOMAIN heap
  <2>1. PICK k \in Loaded : place[k] = i /\ heap[i] = T(k, i)
    BY <1>5, <1>6
  <2>2. k \in Keys /\ i \in Nat
    BY <1>6
  <2>3. /\ heap[i] \in Tuples /\ heap[i].key = k /\ heap[i].latest /\ heap[i].locked = Nil
        /\ heap[i].version # MAX_TID /\ heap[i].value = Value(Loader, FALSE)
    <3>1. /\ T(k, i) \in Tuples /\ T(k, i).key = k /\ T(k, i).latest /\ T(k, i).locked = Nil
          /\ T(k, i).version # MAX_TID /\ T(k, i).value = Value(Loader, FALSE)
      BY <1>4, <2>2, Zenon
    <3> QED
      BY <2>1, <3>1, Zenon
  <2> QED
    BY <2>1, <2>3
<1>8. heap \in Seq(Tuples)
  <2>1. heap \in [1..N -> Tuples]
    BY <1>2, <1>6, <1>7
  <2> QED
    BY <1>1, <2>1
<1>9. \A k \in Keys : tree[k] = IF k \in Loaded THEN place[k] ELSE Nil
  BY <1>2
<1>10. \A k \in Loaded : place[k] \in DOMAIN heap /\ heap[place[k]].key = k
  <2> TAKE k \in Loaded
  <2>1. place[k] \in DOMAIN heap
    BY <1>3, <1>6
  <2>2. heap[place[k]].key \in Loaded /\ place[heap[place[k]].key] = place[k]
    BY <1>7, <2>1
  <2> QED
    BY <1>3, <2>1, <2>2
<1>11. /\ commits = LoadTid /\ chain = [k \in Keys |-> <<>>]
  BY DEF Init
<1>12. HeapInv
  <2>1. tree \in [Keys -> Nat]
    BY <1>2, <1>3, <1>6 DEF Nil
  <2>2. commits \in Nat /\ commits < MAX_TID /\ chain \in [Keys -> Seq(StoredValues)]
    BY <1>11 DEF LoadTid, MAX_TID
  <2>3. \A k \in Keys : tree[k] # Nil => tree[k] \in DOMAIN heap /\ heap[tree[k]].key = k
    BY <1>9, <1>10
  <2>4. \A i \in DOMAIN heap : heap[i].latest <=> tree[heap[i].key] = i
    BY <1>6, <1>7, <1>9
  <2> QED
    BY <1>8, <2>1, <2>2, <2>3, <2>4 DEF HeapInv
<1>13. CommittedIsFound
  <2>1. \A k \in Keys : CurrentValue(k) = Value(Loader, k \notin Loaded)
    <3> TAKE k \in Keys
    <3>1. chain[k] = <<>> /\ <<>> \in Seq(StoredValues)
      BY <1>11
    <3> QED
      BY <3>1, LastInstalled DEF CurrentValue, Values
  <2>2. \A k \in Keys : tree[k] # Nil => k \in Loaded /\ heap[tree[k]].value = Value(Loader, FALSE)
    BY <1>7, <1>9, <1>10
  <2>3. \A k \in Keys : tree[k] = Nil => k \notin Loaded
    BY <1>3, <1>6, <1>9
  <2>4. \A k \in Keys : tree[k] # Nil => heap[tree[k]].version # MAX_TID
    BY <1>7, <1>9, <1>10
  <2> QED
    <3>1. \A b \in BOOLEAN : Value(Loader, b).deleted = b
      BY DEF Value
    <3>2. ASSUME NEW k \in Keys, tree[k] # Nil PROVE heap[tree[k]].value = CurrentValue(k)
      <4>1. k \in Loaded /\ (k \notin Loaded) = FALSE
        BY <2>2, <3>2
      <4> QED
        BY <2>1, <2>2, <3>2, <4>1
    <3>3. \A k \in Keys : tree[k] = Nil => CurrentValue(k).deleted
      BY <2>1, <2>3, <3>1
    <3> QED
      BY <2>4, <3>2, <3>3 DEF CommittedIsFound
<1>14. PICK run \in [Txns -> UNION {Programs[t] : t \in Txns}] :
          /\ \A t \in Txns : run[t] \in Programs[t]
          /\ txn = [t \in Txns |-> [pc |-> "run", ops |-> run[t], at |-> Nil, node |-> NoVersion,
                 reads |-> {}, absent |-> NoVersion, missing |-> {}, removed |-> FALSE,
                 writes |-> <<>>, commit_tid |-> 0, unclean |-> {}, seen |-> {}]]
  BY DEF Init
<1>15. ASSUME NEW t \in Txns PROVE TxnInv(t)
  <2>1. run[t] \in Seq(Ops) /\ NoVersion \in Int /\ Nil \in Nat /\ t # Nil
    BY <1>14, InsertsAssumption DEF NoVersion, Nil
  <2>2. txn[t] \in Local(txn[t].seen) /\ txn[t].writes = <<>> /\ txn[t].pc = "run"
        /\ txn[t].reads = {} /\ txn[t].commit_tid = 0
    BY <1>14, <2>1 DEF Local, Pcs
  <2>3. Refs(t)
    BY <1>11, <2>2 DEF Refs, LoadTid
  <2>4. Locks(t)
    BY <1>7, <2>1, <2>2 DEF Locks
  <2> QED
    BY <2>2, <2>3, <2>4 DEF TxnInv
<1> QED
  BY <1>12, <1>13, <1>14, <1>15 DEF InsertsInv

LEMMA Inserting ==
    ASSUME InsertsInv, NEW t \in Txns, PutInsert(t)
    PROVE  InsertsInv'
<1> DEFINE x == txn[t]
           k == Key(t)
           d == Head(x.ops).delete
           i == Len(heap) + 1
           v == ExtractVersionNumber
           w == Write(i, k, d, TRUE)
           y == [Done(x) EXCEPT !.writes = Append(@, w)]
           z == AfterInsert(y, v, v + 1)
           new == Tuple(i, k, MAX_TID, Value(t, d))
<1>0. /\ HeapInv /\ CommittedIsFound /\ DOMAIN txn = Txns
      /\ TxnInv(t) /\ Refs(t) /\ x \in Local(x.seen)
  BY DEF InsertsInv, TxnInv
<1>1. /\ Running(t, "put") /\ tree[k] = Nil /\ heap' = Append(heap, new)
      /\ tree' = [tree EXCEPT ![k] = i] /\ txn' = [txn EXCEPT ![t] = z]
      /\ UNCHANGED <<commits, chain>>
  BY DEF PutInsert, Set
<1>2. x.pc = "run" /\ x.ops # <<>> /\ k \in Keys /\ d \in BOOLEAN
  BY <1>0, <1>1, OperationTypes DEF Running
<1>3. heap \in Seq(Tuples) /\ DOMAIN heap = 1..Len(heap) /\ Len(heap) \in Nat /\ v \in Int
  BY <1>0, VersionIsInt DEF HeapInv
<1>4. /\ new \in Tuples /\ new.key = k /\ new.latest /\ new.locked = Nil
      /\ new.version = MAX_TID
  BY <1>2, <1>3 DEF Tuple, Tuples, Value, StoredValues, MAX_TID
<1>5. w \in WriteRecords /\ w.tuple = i /\ w.key = k
  BY <1>2, <1>3 DEF Write, WriteRecords
<1> HIDE DEF new, w
<1>6. /\ Done(x) \in Local(x.seen) /\ Done(x).pc = "run" /\ Done(x).reads = x.reads
      /\ Done(x).writes = x.writes /\ Done(x).commit_tid = x.commit_tid
  BY <1>0, <1>2, DoneTypes
<1>7. x.writes \in Seq(WriteRecords)
  BY <1>0 DEF Local
<1>8. /\ Append(x.writes, w) \in Seq(WriteRecords)
      /\ \A n \in DOMAIN Append(x.writes, w) : Append(x.writes, w)[n] = w \/
               (n \in DOMAIN x.writes /\ Append(x.writes, w)[n] = x.writes[n])
  BY <1>5, <1>7, AppendWrites
<1>9. /\ y \in Local(y.seen) /\ y.pc = "run" /\ y.reads = x.reads
      /\ y.writes = Append(x.writes, w) /\ y.commit_tid = x.commit_tid
  BY <1>6, <1>8 DEF Local
<1> HIDE DEF y
<1>10. /\ z \in Local(z.seen) /\ z.pc \in {"run", "aborted"} /\ z.reads = x.reads
       /\ z.writes = Append(x.writes, w) /\ z.commit_tid = x.commit_tid
  <2>1. v + 1 \in Int
    BY <1>3
  <2> HIDE DEF v
  <2> QED
    BY <1>9, <2>1 DEF AfterInsert, Local, Pcs
<1> HIDE DEF z
<1>11. txn'[t] = z /\ OthersSame(t)
  BY <1>0, <1>1 DEF OthersSame
<1>12. /\ heap' \in Seq(Tuples) /\ DOMAIN heap' = DOMAIN heap \cup {i} /\ i \notin DOMAIN heap
       /\ heap'[i] = new /\ i \in Nat \ {Nil}
       /\ \A j \in DOMAIN heap : heap'[j] = heap[j]
  BY <1>1, <1>3, <1>4 DEF Nil
<1> HIDE DEF i, k
<1>13. /\ tree' \in [Keys -> Nat] /\ tree'[k] = i
       /\ \A j \in Keys \ {k} : tree'[j] = tree[j]
  BY <1>0, <1>1, <1>2, <1>12 DEF HeapInv
<1>14. \A j \in DOMAIN heap : heap[j].key \in Keys /\ j # Nil
  <2>1. \A j \in DOMAIN heap : heap[j] \in Tuples
    BY <1>3
  <2> QED
    BY <1>3, <2>1 DEF Tuples, Nil
<1>15. HeapInv'
  <2>1. \A j \in DOMAIN heap' : heap'[j].latest <=> tree'[heap'[j].key] = j
    <3>1. new.latest <=> tree'[new.key] = i
      BY <1>4, <1>13
    <3>2. ASSUME NEW j \in DOMAIN heap PROVE heap[j].latest <=> tree'[heap[j].key] = j
      <4>1. heap[j].latest <=> tree[heap[j].key] = j
        BY <1>0 DEF HeapInv
      <4> QED
        BY <1>1, <1>12, <1>13, <1>14, <4>1
    <3> QED
      BY <1>12, <3>1, <3>2
  <2>2. \A j \in Keys : tree'[j] # Nil => tree'[j] \in DOMAIN heap' /\ heap'[tree'[j]].key = j
    <3>1. \A j \in Keys : tree[j] # Nil => tree[j] \in DOMAIN heap /\ heap[tree[j]].key = j
      BY <1>0 DEF HeapInv
    <3> QED
      BY <1>4, <1>12, <1>13, <3>1
  <2> QED
    BY <1>0, <1>1, <1>12, <1>13, <2>1, <2>2 DEF HeapInv
<1>16. CommittedIsFound'
  <2>1. \A j \in Keys : CurrentValue(j)' = CurrentValue(j)
    BY <1>1, SameHistory
  <2>2. \A j \in Keys \ {k} : tree[j] # Nil => tree[j] \in DOMAIN heap
    BY <1>0 DEF HeapInv
  <2> QED
    BY <1>0, <1>1, <1>2, <1>4, <1>12, <1>13, <2>1, <2>2 DEF CommittedIsFound
<1>17. TxnInv(t)'
  <2>1. \A n \in DOMAIN Append(x.writes, w) :
           /\ Append(x.writes, w)[n].tuple \in DOMAIN heap'
           /\ heap'[Append(x.writes, w)[n].tuple].key = Append(x.writes, w)[n].key
    BY <1>0, <1>4, <1>5, <1>8, <1>12 DEF Refs
  <2>2. /\ txn'[t].writes = Append(x.writes, w) /\ txn'[t].reads = x.reads
        /\ txn'[t].pc \in {"run", "aborted"} /\ txn'[t].commit_tid = x.commit_tid
    BY <1>10, <1>11
  <2>3. Refs(t)'
    BY <1>0, <1>1, <1>12, <2>1, <2>2 DEF Refs
  <2>4. \A j \in DOMAIN heap' : heap'[j].locked # t
    <3>1. \A j \in DOMAIN heap : heap[j].locked # t
      BY <1>0, <1>2, HoldsNothing
    <3> QED
      BY <1>4, <1>12, <3>1, InsertsAssumption DEF Nil
  <2> QED
    BY <1>10, <1>11, <2>2, <2>3, <2>4, HoldsNothingStill
<1>18. ASSUME NEW u \in Txns \ {t} PROVE TxnInv(u)'
  <2>1. TxnInv(u) /\ txn'[u] = txn[u] /\ u # Nil
    BY <1>11, InsertsAssumption DEF InsertsInv, OthersSame, Nil
  <2>2. commits \in Nat /\ commits' \in Nat /\ commits <= commits'
    BY <1>0, <1>1 DEF HeapInv
  <2> QED
    BY <1>4, <1>12, <2>1, <2>2, Frame
<1> QED
  BY <1>11, <1>15, <1>16, <1>17, <1>18 DEF InsertsInv, OthersSame

LEMMA InsertsNext == InsertsInv /\ [Next]_vars => InsertsInv'
<1> SUFFICES ASSUME InsertsInv, [Next]_vars PROVE InsertsInv'
  OBVIOUS
<1>1. ASSUME NEW t \in Txns, Step(t) PROVE InsertsInv'
  <2>1. CASE GetMissing(t) \/ GetFind(t) \/ GetRead(t) \/ PutFound(t)
    BY <2>1, Looking
  <2>2. CASE PutInsert(t)
    BY <2>2, Inserting
  <2>3. CASE \E i \in DOMAIN heap : LockWrite(t, i)
    BY <2>3, Locking
  <2>4. CASE ValidateReads(t) \/ ValidateAbsent(t) \/ Commit(t) \/ Aborted(t)
    BY <2>4, Committing
  <2>5. CASE Install(t)
    BY <2>5, Installing
  <2>6. CASE \E i \in DOMAIN heap : CleanInserted(t, i) \/ CleanWritten(t, i)
    BY <2>6, Cleaning
  <2> QED
    BY <1>1, <2>1, <2>2, <2>3, <2>4, <2>5, <2>6 DEF Step
<1>2. ASSUME NEW t \in Txns, UserAbort(t) PROVE InsertsInv'
  BY <1>2, Looking
<1>3. ASSUME NEW k \in Keys, Collect(k) PROVE InsertsInv'
  BY <1>3, Collecting
<1>4. CASE UNCHANGED vars
  <2>1. UNCHANGED <<heap, tree, txn, commits, chain>>
    BY <1>4 DEF vars
  <2>2. HeapInv'
    BY <2>1 DEF InsertsInv, HeapInv
  <2>3. CommittedIsFound'
    BY <2>1, SameHistory DEF InsertsInv, CommittedIsFound
  <2>4. ASSUME NEW t \in Txns PROVE TxnInv(t)'
    <3>1. TxnInv(t) /\ Written(t)' = Written(t)
      BY <2>1 DEF InsertsInv, Written
    <3> QED
      BY <2>1, <3>1 DEF TxnInv, Refs, Locks, Holds
  <2> QED
    BY <2>1, <2>2, <2>3, <2>4 DEF InsertsInv
<1> QED
  BY <1>1, <1>2, <1>3, <1>4 DEF Next

LEMMA InsertsInvariant == Spec => []InsertsInv
BY InsertsInit, InsertsNext, PTL DEF Spec

(* Types; in particular the tree holds the one tuple of each key that      *)
(* claims to be the latest, and a lock's holder is committing or aborting. *)
THEOREM TypeCorrect == Spec => []InsertsTypeOK
<1>1. InsertsInv => InsertsTypeOK
  <2> SUFFICES ASSUME InsertsInv PROVE InsertsTypeOK
    OBVIOUS
  <2>1. HeapInv /\ \A t \in Txns : TxnInv(t) /\ Refs(t) /\ Locks(t)
    BY DEF InsertsInv, TxnInv
  <2>2. \A i \in DOMAIN heap : heap[i].key \in Keys /\ heap[i].locked \in Txns \cup {Nil}
    <3>1. \A i \in DOMAIN heap : heap[i] \in Tuples
      BY <2>1 DEF HeapInv
    <3> QED
      BY <3>1 DEF Tuples
  <2>3. \A i \in DOMAIN heap : heap[i].locked # Nil =>
           txn[heap[i].locked].pc \in {"run", "validated", "install", "abort"}
    BY <2>1, <2>2 DEF Locks, Holds
  <2>4. ASSUME NEW t \in Txns
        PROVE  /\ txn[t].pc \in Pcs /\ txn[t].commit_tid \in 0..commits
               /\ txn[t].reads \subseteq [tuple : DOMAIN heap, version : Nat]
    <3>1. /\ txn[t].pc \in Pcs /\ txn[t].commit_tid \in Nat /\ commits \in Nat
          /\ txn[t].reads \subseteq [tuple : Nat, version : Nat]
      BY <2>1 DEF TxnInv, Local, HeapInv
    <3>2. txn[t].commit_tid <= commits /\ \A r \in txn[t].reads : r.tuple \in DOMAIN heap
      BY <2>1 DEF Refs
    <3> QED
      BY <3>1, <3>2
  <2>5. \A i \in DOMAIN heap : heap[i].latest <=> tree[heap[i].key] = i
    BY <2>1 DEF HeapInv
  <2>6. \A k \in Keys : tree[k] # Nil => tree[k] \in DOMAIN heap /\ heap[tree[k]].key = k
    BY <2>1 DEF HeapInv
  <2> QED
    BY <2>2, <2>3, <2>4, <2>5, <2>6 DEF InsertsTypeOK, Pcs
<1> QED
  BY <1>1, InsertsInvariant, PTL

(* Whatever is inserted, deleted, aborted and collected meanwhile, what    *)
(* was committed last for a key is what a search for it finds.             *)
THEOREM CommittedSafety == Spec => []CommittedIsFound
<1>1. InsertsInv => CommittedIsFound
  BY DEF InsertsInv
<1> QED
  BY <1>1, InsertsInvariant, PTL

-----------------------------------------------------------------------------
(* What a clean read returns.  Every tuple but a marker has a value that   *)
(* was installed for its key, and a marker a key that has been absent; an  *)
(* installed value stays in the history.                                   *)
Known(k, x) == \E v \in DOMAIN Values(k) : Values(k)[v] = x
WasAbsent(k) == \E x \in StoredValues : x.deleted /\ Known(k, x)
Backed(i) ==
    IF heap[i].version = MAX_TID THEN WasAbsent(heap[i].key)
                                 ELSE Known(heap[i].key, heap[i].value)
Seen(r) == r.key \in Keys /\ Known(r.key, r.val)
KnownInv ==
    /\ \A i \in DOMAIN heap : Backed(i)
    /\ \A t \in Txns : \A r \in txn[t].seen : Seen(r)

LEMMA LastIsThere ==
    ASSUME NEW k \in Keys, NEW c \in Seq(StoredValues)
    PROVE  LET s == <<Value(Loader, k \notin Loaded)>> \o c IN
           /\ s \in Seq(StoredValues) /\ Last(s) \in StoredValues
           /\ \E v \in DOMAIN s : s[v] = Last(s)
<1> DEFINE first == <<Value(Loader, k \notin Loaded)>>
           s == first \o c
<1>1. first \in Seq(StoredValues) /\ Len(first) = 1
  BY DEF Value, StoredValues
<1> HIDE DEF first
<1>2. s \in Seq(StoredValues) /\ Len(s) \in Nat \ {0}
  BY <1>1
<1> HIDE DEF s
<1>3. Len(s) \in DOMAIN s /\ s[Len(s)] \in StoredValues
  BY <1>2
<1>4. Last(s) = s[Len(s)]
  BY DEF Last
<1>5. s \in Seq(StoredValues) /\ Last(s) \in StoredValues /\ \E v \in DOMAIN s : s[v] = Last(s)
  BY <1>2, <1>3, <1>4
<1> QED
  BY <1>5 DEF s, first

LEMMA ValuesAre ==
    ASSUME HeapInv, NEW k \in Keys
    PROVE  /\ Values(k) \in Seq(StoredValues)
           /\ CurrentValue(k) \in StoredValues /\ Known(k, CurrentValue(k))
<1>1. chain[k] \in Seq(StoredValues)
  BY DEF HeapInv
<1> QED
  BY <1>1, LastIsThere DEF Values, CurrentValue, Known

LEMMA KnownStays ==
    ASSUME HeapInv, NEW k \in Keys,
           chain'[k] = chain[k] \/ \E v \in StoredValues : chain'[k] = Append(chain[k], v)
    PROVE  \A x : Known(k, x) => Known(k, x)'
<1> DEFINE first == <<Value(Loader, k \notin Loaded)>>
<1>1. first \in Seq(StoredValues) /\ chain[k] \in Seq(StoredValues)
  <2>1. Value(Loader, k \notin Loaded) \in StoredValues
    BY DEF Value, StoredValues
  <2>2. chain[k] \in Seq(StoredValues)
    BY DEF HeapInv
  <2> QED
    BY <2>1, <2>2
<1>2. Values(k) = first \o chain[k] /\ Values(k)' = first \o chain'[k]
  BY DEF Values
<1> HIDE DEF first
<1>3. CASE chain'[k] = chain[k]
  BY <1>2, <1>3 DEF Known
<1>4. ASSUME NEW v \in StoredValues, chain'[k] = Append(chain[k], v)
      PROVE  \A x : Known(k, x) => Known(k, x)'
  <2>1. /\ Append(chain[k], v) \in Seq(StoredValues)
        /\ Len(Append(chain[k], v)) = Len(chain[k]) + 1
        /\ \A n \in 1..Len(chain[k]) : Append(chain[k], v)[n] = chain[k][n]
        /\ Len(first) \in Nat /\ Len(chain[k]) \in Nat
    BY <1>1
  <2>2. /\ DOMAIN (first \o chain[k]) = 1..(Len(first) + Len(chain[k]))
        /\ DOMAIN (first \o Append(chain[k], v)) = 1..(Len(first) + Len(chain[k]) + 1)
    BY <1>1, <2>1
  <2>3. \A n \in 1..(Len(first) + Len(chain[k])) :
           (first \o chain[k])[n] = IF n <= Len(first) THEN first[n] ELSE chain[k][n - Len(first)]
    BY <1>1
  <2>4. \A n \in 1..(Len(first) + Len(chain[k]) + 1) :
           (first \o Append(chain[k], v))[n] =
              IF n <= Len(first) THEN first[n] ELSE Append(chain[k], v)[n - Len(first)]
    BY <1>1, <2>1
  <2>5. \A n \in DOMAIN (first \o chain[k]) :
           /\ n \in DOMAIN (first \o Append(chain[k], v))
           /\ (first \o Append(chain[k], v))[n] = (first \o chain[k])[n]
    BY <2>1, <2>2, <2>3, <2>4
  <2> QED
    BY <1>2, <1>4, <2>5 DEF Known
<1> QED
  BY <1>3, <1>4

(* Natural numbers have a least one, and so a bounded set has a largest.   *)
LEMMA Smallest ==
    ASSUME NEW T, T \subseteq Nat, T # {}
    PROVE  \E x \in T : \A y \in T : x <= y
<1> DEFINE R == StrictSubsetOrdering(Nat)
           I(n) == {m \in Nat : m < n}
           U == {I(n) : n \in T}
<1>1. \A n \in Nat : IsFiniteSet(I(n))
  <2> TAKE n \in Nat
  <2>1. I(n) = 0..(n - 1) /\ 0 \in Int /\ n - 1 \in Int
    OBVIOUS
  <2>2. IsFiniteSet(0..(n - 1))
    BY <2>1, FS_Interval
  <2> QED
    BY <2>1, <2>2
<1>2. U \subseteq FiniteSubsetsOf(Nat) /\ U # {}
  BY <1>1 DEF FiniteSubsetsOf
<1>3. IsWellFoundedOn(R, FiniteSubsetsOf(Nat))
  BY FS_StrictSubsetOrderingWellFounded
<1> HIDE DEF U, R
<1>4. PICK u \in U : \A v \in U : ~(<<v, u>> \in R)
  BY <1>2, <1>3, WFMin
<1>5. PICK x \in T : u = I(x)
  BY DEF U
<1>6. ASSUME NEW y \in T, ~(x <= y) PROVE FALSE
  <2>1. I(y) \in U
    BY DEF U
  <2>2. x \in Nat /\ y \in Nat /\ y < x
    BY <1>6
  <2>3. y \in I(x) /\ y \notin I(y) /\ I(y) \subseteq I(x) /\ I(x) \subseteq Nat
    BY <2>2
  <2>4. <<I(y), I(x)>> \in R
    BY <2>3 DEF R, StrictSubsetOrdering
  <2> QED
    BY <1>4, <1>5, <2>1, <2>4
<1> QED
  BY <1>6

LEMMA MaxIn ==
    ASSUME NEW k \in Nat, NEW T, T \subseteq 1..k, T # {}
    PROVE  Max(T) \in T
<1> DEFINE U == {k - t : t \in T}
<1>1. U \subseteq Nat /\ U # {}
  <2>1. \A t \in T : k - t \in Nat
    OBVIOUS
  <2> QED
    BY <2>1
<1>2. PICK u \in U : \A v \in U : u <= v
  BY <1>1, Smallest
<1>3. PICK x \in T : u = k - x
  OBVIOUS
<1>4. ASSUME NEW y \in T PROVE x >= y
  <2>1. k - y \in U
    OBVIOUS
  <2>2. k - x <= k - y
    BY <1>2, <1>3, <2>1
  <2>3. x \in Int /\ y \in Int
    OBVIOUS
  <2> QED
    BY <2>2, <2>3
<1> QED
  BY <1>4 DEF Max

(* Where a key has been absent, an absent read has something to return.    *)
LEMMA AbsenceIsSeen ==
    ASSUME HeapInv, NEW k \in Keys, WasAbsent(k)
    PROVE  Seen(Absence(k))
<1> DEFINE gone == {v \in DOMAIN Values(k) : Values(k)[v].deleted}
<1>1. Values(k) \in Seq(StoredValues)
  BY ValuesAre
<1>2. gone # {} /\ gone \subseteq 1..Len(Values(k)) /\ Len(Values(k)) \in Nat
  BY <1>1 DEF WasAbsent, Known
<1>3. Max(gone) \in gone
  <2> HIDE DEF gone
  <2> QED
    BY <1>2, MaxIn
<1>4. Absence(k) = [key |-> k, val |-> Values(k)[Max(gone)]]
  BY <1>2 DEF Absence
<1>5. Max(gone) \in DOMAIN Values(k)
  BY <1>3
<1> HIDE DEF gone
<1>6. Absence(k).key = k /\ Absence(k).val = Values(k)[Max(gone)]
  BY <1>4
<1> QED
  BY <1>5, <1>6 DEF Seen, Known

LEMMA NotThereWasAbsent ==
    ASSUME HeapInv, CommittedIsFound, NEW k \in Keys, tree[k] = Nil
    PROVE  WasAbsent(k)
<1>1. CurrentValue(k).deleted
  BY DEF CommittedIsFound
<1> QED
  BY <1>1, ValuesAre DEF WasAbsent

(* A step that keeps what tuples and reads have, or adds what is known.    *)
LEMMA KnownStep ==
    ASSUME HeapInv, KnownInv,
           \A k \in Keys : chain'[k] = chain[k] \/
              \E v \in StoredValues : chain'[k] = Append(chain[k], v),
           \A i \in DOMAIN heap' :
              \/ /\ i \in DOMAIN heap /\ heap'[i].key = heap[i].key
                 /\ heap'[i].version = heap[i].version /\ heap'[i].value = heap[i].value
              \/ Backed(i)',
           \A t \in Txns : \A r \in txn'[t].seen : r \in txn[t].seen \/ Seen(r)
    PROVE  KnownInv'
<1>1. \A k \in Keys : \A x : Known(k, x) => Known(k, x)'
  BY KnownStays
<1>2. \A k \in Keys : WasAbsent(k) => WasAbsent(k)'
  BY <1>1 DEF WasAbsent
<1>3. \A i \in DOMAIN heap : heap[i].key \in Keys
  <2>1. \A i \in DOMAIN heap : heap[i] \in Tuples
    BY DEF HeapInv
  <2> QED
    BY <2>1 DEF Tuples
<1>4. ASSUME NEW i \in DOMAIN heap', ~Backed(i)' PROVE FALSE
  <2>1. /\ i \in DOMAIN heap /\ heap'[i].key = heap[i].key
        /\ heap'[i].version = heap[i].version /\ heap'[i].value = heap[i].value
    BY <1>4
  <2>2. Backed(i)
    BY <2>1 DEF KnownInv
  <2>3. heap[i].key \in Keys
    BY <1>3, <2>1
  <2> QED
    BY <1>1, <1>2, <1>4, <2>1, <2>2, <2>3 DEF Backed
<1>5. \A t \in Txns : \A r \in txn'[t].seen : Seen(r)'
  BY <1>1 DEF KnownInv, Seen
<1> QED
  BY <1>4, <1>5 DEF KnownInv

(* Before the commit, only a get adds to what was read.                    *)
LEMMA Reading ==
    ASSUME InsertsInv, KnownInv, NEW t \in Txns, GetMissing(t) \/ GetRead(t)
    PROVE  KnownInv'
<1>1. HeapInv /\ CommittedIsFound /\ DOMAIN txn = Txns /\ TxnInv(t) /\ txn[t] \in Local(txn[t].seen)
  BY DEF InsertsInv, TxnInv
<1>2. UNCHANGED <<heap, chain>> /\ \A u \in Txns \ {t} : txn'[u] = txn[u]
  BY <1>1 DEF GetMissing, GetRead, Set, SameStore
<1>3. \A r \in txn'[t].seen : r \in txn[t].seen \/ Seen(r)
  <2>1. CASE GetMissing(t)
    <3> DEFINE d == Done(txn[t])
               y == do_node_read(d, ExtractVersionNumber)
    <3>1. Running(t, "get") /\ txn[t].ops # <<>> /\ Key(t) \in Keys /\ tree[Key(t)] = Nil
      BY <1>1, <2>1, OperationTypes DEF GetMissing, Running
    <3>2. d \in Local(txn[t].seen) /\ d.pc = "run" /\ d.seen = txn[t].seen
      BY <1>1, <3>1, DoneTypes
    <3>3. y \in Local(txn[t].seen) /\ y.seen = txn[t].seen
      <4> HIDE DEF d
      <4> QED
        BY <3>2, NodeReadTypes, VersionIsInt
    <3>4. txn'[t] = [y EXCEPT !.missing = @ \cup {Key(t)}, !.seen = @ \cup {Absence(Key(t))}]
      BY <1>1, <2>1 DEF GetMissing, Set
    <3>5. txn'[t].seen = txn[t].seen \cup {Absence(Key(t))}
      <4> HIDE DEF y
      <4> QED
        BY <3>3, <3>4 DEF Local
    <3>6. Seen(Absence(Key(t)))
      BY <1>1, <3>1, NotThereWasAbsent, AbsenceIsSeen
    <3> QED
      BY <3>5, <3>6
  <2>2. CASE GetRead(t)
    <3> DEFINE d == Done(txn[t])
               n == heap[txn[t].at]
               y == do_node_read(d, txn[t].node)
               e == IF n.version = MAX_TID THEN Absence(n.key) ELSE [key |-> n.key, val |-> n.value]
    <3>1. txn[t].ops # <<>> /\ txn[t].at \in DOMAIN heap /\ txn[t].node \in Int
      BY <1>1, <2>2 DEF GetRead, TxnInv, Refs, Local
    <3>2. n \in Tuples /\ n.key \in Keys
      <4>1. n \in Tuples
        BY <1>1, <3>1 DEF HeapInv
      <4> QED
        BY <4>1 DEF Tuples
    <3>3. d \in Local(txn[t].seen) /\ d.pc = "run" /\ d.seen = txn[t].seen
      BY <1>1, <3>1, DoneTypes
    <3>4. y \in Local(txn[t].seen) /\ y.seen = txn[t].seen
      <4> HIDE DEF d
      <4> QED
        BY <3>1, <3>3, NodeReadTypes
    <3>5. IF n.version = MAX_TID THEN WasAbsent(n.key) ELSE Known(n.key, n.value)
      BY <3>1 DEF KnownInv, Backed
    <3>6. Seen(e) /\ (n.version # MAX_TID => e = [key |-> n.key, val |-> n.value])
      <4>1. CASE n.version = MAX_TID
        BY <1>1, <3>2, <3>5, <4>1, AbsenceIsSeen
      <4>2. CASE n.version # MAX_TID
        BY <3>2, <3>5, <4>2 DEF Seen
      <4> QED
        BY <4>1, <4>2
    <3>7. txn'[t] = IF IsRecord(n)
              THEN [d EXCEPT !.reads = @ \cup {[tuple |-> txn[t].at, version |-> n.version]},
                             !.seen = @ \cup {[key |-> n.key, val |-> n.value]}]
              ELSE [y EXCEPT !.seen = @ \cup {e}]
      BY <1>1, <2>2 DEF GetRead, Set
    <3> HIDE DEF d, y, n, e
    <3>8. txn'[t].seen = txn[t].seen \cup {e}
      BY <3>3, <3>4, <3>6, <3>7 DEF Local, IsRecord
    <3> QED
      BY <3>6, <3>8
  <2> QED
    BY <2>1, <2>2
<1>4. \A u \in Txns : \A r \in txn'[u].seen : r \in txn[u].seen \/ Seen(r)
  BY <1>2, <1>3
<1> QED
  BY <1>1, <1>2, <1>4, KnownStep

(* Every other step leaves what was read alone.                            *)
LEMMA SeenSame ==
    ASSUME InsertsInv, NEW t \in Txns,
           \/ GetFind(t) \/ PutFound(t) \/ PutInsert(t) \/ UserAbort(t)
           \/ \E i \in DOMAIN heap : LockWrite(t, i) \/ CleanInserted(t, i) \/ CleanWritten(t, i)
           \/ ValidateReads(t) \/ ValidateAbsent(t) \/ Install(t) \/ Commit(t) \/ Aborted(t)
    PROVE  \A u \in Txns : txn'[u].seen = txn[u].seen
<1> DEFINE x == txn[t]
<1>1. DOMAIN txn = Txns /\ \A u \in Txns : txn[u] \in Local(txn[u].seen)
  BY DEF InsertsInv, TxnInv
<1>2. ASSUME NEW z, Set(t, z), z.seen = x.seen
      PROVE  \A u \in Txns : txn'[u].seen = txn[u].seen
  BY <1>1, <1>2 DEF Set
<1>3. CASE GetFind(t)
  BY <1>1, <1>2, <1>3 DEF GetFind, Local
<1>4. CASE PutFound(t) \/ PutInsert(t)
  <2>1. Running(t, "put") /\ x.ops # <<>>
    BY <1>4 DEF PutFound, PutInsert, Running
  <2>2. Done(x) \in Local(x.seen) /\ Done(x).seen = x.seen
    BY <1>1, <2>1, DoneTypes
  <2>3. CASE PutFound(t)
    <3> DEFINE w == Append(Done(x).writes, Write(tree[Key(t)], Key(t), Head(x.ops).delete, FALSE))
               z == [Done(x) EXCEPT !.writes = w]
    <3>1. Set(t, z)
      BY <2>3 DEF PutFound
    <3>2. z.seen = x.seen
      BY <2>2 DEF Local
    <3> QED
      BY <1>2, <3>1, <3>2
  <2>4. CASE PutInsert(t)
    <3> DEFINE v == ExtractVersionNumber
               w == Append(Done(x).writes, Write(Len(heap) + 1, Key(t), Head(x.ops).delete, TRUE))
               y == [Done(x) EXCEPT !.writes = w]
               z == AfterInsert(y, v, v + 1)
    <3>1. Set(t, z)
      BY <2>4 DEF PutInsert
    <3>2. DOMAIN y = DOMAIN Done(x) /\ "seen" \in DOMAIN Done(x) /\ y.seen = x.seen
      BY <2>2 DEF Local
    <3>3. z.seen = x.seen
      <4> HIDE DEF y, v
      <4> QED
        BY <2>2, <3>2 DEF AfterInsert, Local
    <3> QED
      BY <1>2, <3>1, <3>3
  <2> QED
    BY <1>4, <2>3, <2>4
<1>5. CASE UserAbort(t) \/ Commit(t) \/ Aborted(t)
  BY <1>1, <1>2, <1>5 DEF UserAbort, Commit, Aborted, Local
<1>6. Failed(t).seen = x.seen
  BY <1>1 DEF Failed, Local
<1>7. ASSUME NEW i \in DOMAIN heap, LockWrite(t, i)
      PROVE  \A u \in Txns : txn'[u].seen = txn[u].seen
  BY <1>2, <1>6, <1>7 DEF LockWrite
<1>8. CASE ValidateReads(t)
  <2> DEFINE z == [x EXCEPT !.pc = "validated"]
  <2>1. z.seen = x.seen
    BY <1>1 DEF Local
  <2>2. Set(t, z) \/ Set(t, Failed(t))
    BY <1>8 DEF ValidateReads
  <2> HIDE DEF z
  <2> QED
    BY <1>2, <1>6, <2>1, <2>2
<1>9. CASE ValidateAbsent(t)
  <2> DEFINE z == [x EXCEPT !.pc = "install", !.commit_tid = commits + 1]
  <2>1. z.seen = x.seen
    BY <1>1 DEF Local
  <2>2. Set(t, z) \/ Set(t, Failed(t))
    BY <1>9 DEF ValidateAbsent
  <2> HIDE DEF z
  <2> QED
    BY <1>2, <1>6, <2>1, <2>2
<1>10. CASE Install(t)
  <2> DEFINE z == [x EXCEPT !.writes = Tail(@)]
  <2>1. z.seen = x.seen /\ Set(t, z)
    BY <1>1, <1>10 DEF Install, Local
  <2> QED
    BY <1>2, <2>1
<1>11. ASSUME NEW i \in DOMAIN heap, CleanInserted(t, i) \/ CleanWritten(t, i)
       PROVE  \A u \in Txns : txn'[u].seen = txn[u].seen
  <2> DEFINE y == [txn EXCEPT ![t].unclean = @ \ {i}]
  <2>1. DOMAIN y = Txns /\ \A u \in Txns : y[u] \in Local(y[u].seen) /\ y[u].seen = txn[u].seen
    <3> DEFINE z == [x EXCEPT !.unclean = @ \ {i}]
    <3>1. z \in Local(z.seen) /\ z.seen = x.seen
      BY <1>1 DEF Local
    <3>2. DOMAIN y = Txns /\ y[t] = z /\ \A u \in Txns \ {t} : y[u] = txn[u]
      BY <1>1
    <3> HIDE DEF y, z
    <3> QED
      BY <1>1, <3>1, <3>2
  <2>2. txn' = y \/ \E k : RemoveKey(k, y)
    BY <1>11 DEF CleanInserted, CleanWritten, Set
  <2> HIDE DEF y
  <2> QED
    BY <2>1, <2>2 DEF RemoveKey, Local
<1> QED
  BY <1>3, <1>4, <1>5, <1>7, <1>8, <1>9, <1>10, <1>11

(* Locks, collected tombstones and removed markers keep what a tuple has.  *)
LEMMA KeepsTuples ==
    ASSUME InsertsInv, NEW t \in Txns, NEW i \in DOMAIN heap,
           LockWrite(t, i) \/ CleanInserted(t, i) \/ CleanWritten(t, i)
    PROVE  \A j \in DOMAIN heap' :
              /\ j \in DOMAIN heap /\ heap'[j].key = heap[j].key
              /\ heap'[j].version = heap[j].version /\ heap'[j].value = heap[j].value
<1> DEFINE n == heap[i]
<1>1. n \in Tuples /\ heap \in Seq(Tuples)
  BY DEF InsertsInv, HeapInv
<1>2. ASSUME NEW e, DOMAIN e = DOMAIN n, heap' = [heap EXCEPT ![i] = e],
             e.key = n.key, e.version = n.version, e.value = n.value
      PROVE  \A j \in DOMAIN heap' :
                /\ j \in DOMAIN heap /\ heap'[j].key = heap[j].key
                /\ heap'[j].version = heap[j].version /\ heap'[j].value = heap[j].value
  BY <1>2
<1>3. CASE LockWrite(t, i)
  <2> DEFINE e == [n EXCEPT !.locked = t]
  <2>1. heap' = [heap EXCEPT ![i] = e]
    BY <1>3 DEF LockWrite
  <2>2. DOMAIN e = DOMAIN n /\ e.key = n.key /\ e.version = n.version /\ e.value = n.value
    BY <1>1 DEF Tuples
  <2> HIDE DEF e, n
  <2> QED
    BY <1>2, <2>1, <2>2
<1>4. CASE CleanInserted(t, i)
  <2> DEFINE e == [n EXCEPT !.locked = Nil, !.latest = @ /\ ~IsMarker(n)]
  <2>1. heap' = [heap EXCEPT ![i] = e]
    BY <1>4 DEF CleanInserted
  <2>2. DOMAIN e = DOMAIN n /\ e.key = n.key /\ e.version = n.version /\ e.value = n.value
    <3> DEFINE b == n.latest /\ ~IsMarker(n)
    <3>1. e = [n EXCEPT !.locked = Nil, !.latest = b]
      BY <1>1 DEF Tuples
    <3> HIDE DEF e, b
    <3> QED
      BY <1>1, <3>1 DEF Tuples
  <2> HIDE DEF e, n
  <2> QED
    BY <1>2, <2>1, <2>2
<1>5. CASE CleanWritten(t, i)
  <2> DEFINE e == [n EXCEPT !.locked = IF @ = t THEN Nil ELSE @]
  <2>1. heap' = [heap EXCEPT ![i] = e]
    BY <1>5 DEF CleanWritten
  <2>2. DOMAIN e = DOMAIN n /\ e.key = n.key /\ e.version = n.version /\ e.value = n.value
    BY <1>1 DEF Tuples
  <2> HIDE DEF e, n
  <2> QED
    BY <1>2, <2>1, <2>2
<1> QED
  BY <1>3, <1>4, <1>5

(* What is installed is in the history of its key.                         *)
LEMMA InstallingKnown ==
    ASSUME InsertsInv, KnownInv, NEW t \in Txns, Install(t)
    PROVE  KnownInv'
<1> DEFINE x == txn[t]
           w == Head(x.writes)
           i == w.tuple
           k == w.key
           n == heap[i]
           v == Value(t, w.delete)
           during == {u \in Txns : Begun(u) /\ ~Ended(u)}
           new == [n EXCEPT !.version = x.commit_tid, !.value = v, !.locked = Nil,
                            !.during = during]
<1>1. /\ HeapInv /\ DOMAIN txn = Txns /\ Refs(t) /\ x \in Local(x.seen)
      /\ HeapInv' /\ InsertsInv'
  BY Installing DEF InsertsInv, TxnInv
<1>2. x.pc = "install" /\ x.writes # <<>> /\ x.writes \in Seq(WriteRecords)
  BY <1>1 DEF Install, Local
<1>3. w \in WriteRecords /\ w = x.writes[1] /\ 1 \in DOMAIN x.writes
  BY <1>2, TailWrites
<1>4. /\ i \in DOMAIN heap /\ n.key = k /\ k \in Keys /\ n \in Tuples
      /\ x.commit_tid # MAX_TID /\ v \in StoredValues
  <2>1. i \in DOMAIN heap /\ n.key = k
    BY <1>1, <1>3 DEF Refs
  <2>2. k \in Keys /\ v \in StoredValues
    BY <1>3 DEF WriteRecords, Value, StoredValues
  <2>3. x.commit_tid \in Nat /\ x.commit_tid <= commits /\ commits \in Nat /\ commits < MAX_TID
    BY <1>1 DEF Refs, Local, HeapInv
  <2>4. n \in Tuples
    BY <1>1, <2>1 DEF HeapInv
  <2> QED
    BY <2>1, <2>2, <2>3, <2>4 DEF MAX_TID
<1>5. /\ new.version = x.commit_tid /\ new.value = v /\ new.key = k
  <2> DEFINE o == [n EXCEPT !.version = x.commit_tid, !.value = v]
  <2>1. DOMAIN o = DOMAIN n /\ o.version = x.commit_tid /\ o.value = v /\ o.key = k
    <3> HIDE DEF n, v
    <3> QED
      BY <1>4 DEF Tuples
  <2>2. new = [o EXCEPT !.locked = Nil, !.during = during]
    OBVIOUS
  <2>3. DOMAIN n = {"key", "version", "value", "latest", "locked", "m_lock", "during"}
    BY <1>4 DEF Tuples
  <2> HIDE DEF o, during, n
  <2> QED
    BY <2>1, <2>2, <2>3
<1>6. \/ UNCHANGED <<heap, chain>>
      \/ /\ heap' = [heap EXCEPT ![i] = new]
         /\ chain' = [chain EXCEPT ![k] = Append(@, v)]
      \/ /\ heap' = Append([heap EXCEPT ![i].latest = FALSE, ![i].locked = Nil], new)
         /\ chain' = [chain EXCEPT ![k] = Append(@, v)]
  BY DEF Install
<1>7. \A u \in Txns : txn'[u].seen = txn[u].seen
  BY SeenSame
<1> HIDE DEF new, v, n
<1>8. CASE UNCHANGED <<heap, chain>>
  BY <1>1, <1>7, <1>8, KnownStep
<1>9. ASSUME chain' = [chain EXCEPT ![k] = Append(@, v)],
             \A j \in DOMAIN heap' :
                \/ /\ j \in DOMAIN heap /\ heap'[j].key = heap[j].key
                   /\ heap'[j].version = heap[j].version /\ heap'[j].value = heap[j].value
                \/ heap'[j] = new
      PROVE  KnownInv'
  <2>1. \A j \in Keys : chain'[j] = chain[j] \/ chain'[j] = Append(chain[j], v)
    BY <1>1, <1>4, <1>9 DEF HeapInv
  <2>2. ASSUME NEW j \in Keys, NEW y, j = k, y = v PROVE Known(j, y)'
    <3>1. chain'[j] \in Seq(StoredValues)
      BY <1>1 DEF HeapInv
    <3>2. CurrentValue(j)' = y
      BY <1>1, <1>4, <1>9, <2>2, InstalledIsCurrent
    <3>3. \E u \in DOMAIN Values(j)' : Values(j)'[u] = CurrentValue(j)'
      BY <3>1, LastIsThere DEF Values, CurrentValue
    <3> QED
      BY <3>2, <3>3 DEF Known
  <2>5. \A j \in DOMAIN heap' : heap'[j] = new => Backed(j)'
    BY <1>4, <1>5, <2>2 DEF Backed
  <2> QED
    BY <1>1, <1>4, <1>7, <1>9, <2>1, <2>5, KnownStep
<1>10. CASE heap' = [heap EXCEPT ![i] = new] /\ chain' = [chain EXCEPT ![k] = Append(@, v)]
  <2>1. \A j \in DOMAIN heap' : j \in DOMAIN heap /\ (heap'[j] = heap[j] \/ heap'[j] = new)
    BY <1>1, <1>10 DEF HeapInv
  <2> QED
    BY <1>9, <1>10, <2>1
<1>11. CASE /\ heap' = Append([heap EXCEPT ![i].latest = FALSE, ![i].locked = Nil], new)
            /\ chain' = [chain EXCEPT ![k] = Append(@, v)]
  <2> DEFINE old == [n EXCEPT !.latest = FALSE, !.locked = Nil]
             h == [heap EXCEPT ![i] = old]
  <2>1. /\ old \in Tuples /\ old.key = n.key /\ old.version = n.version /\ old.value = n.value
    BY <1>4 DEF Tuples, Nil
  <2>2. heap' = Append(h, new)
    BY <1>11 DEF n
  <2> HIDE DEF old
  <2>3. /\ h \in Seq(Tuples) /\ DOMAIN h = DOMAIN heap /\ h[i] = old
        /\ \A j \in DOMAIN heap \ {i} : h[j] = heap[j]
    BY <1>1, <1>4, <2>1, SeqExcept DEF HeapInv
  <2> HIDE DEF h
  <2>4. \A j \in DOMAIN heap' : heap'[j] = new \/ (j \in DOMAIN heap /\ heap'[j] = h[j])
    <3>1. DOMAIN h = 1..Len(h) /\ Len(h) \in Nat
      BY <2>3
    <3>2. DOMAIN heap' = 1..(Len(h) + 1) /\ heap'[Len(h) + 1] = new
          /\ \A j \in 1..Len(h) : heap'[j] = h[j]
      BY <2>2, <2>3
    <3> QED
      BY <2>3, <3>1, <3>2
  <2>5. \A j \in DOMAIN heap : /\ h[j].key = heap[j].key /\ h[j].version = heap[j].version
                               /\ h[j].value = heap[j].value
    BY <2>1, <2>3 DEF n
  <2> QED
    BY <1>9, <1>11, <2>4, <2>5
<1> QED
  BY <1>6, <1>8, <1>10, <1>11

LEMMA KnownNext == InsertsInv /\ KnownInv /\ [Next]_vars => KnownInv'
<1> SUFFICES ASSUME InsertsInv, KnownInv, [Next]_vars PROVE KnownInv'
  OBVIOUS
<1>0. HeapInv /\ CommittedIsFound
  BY DEF InsertsInv
<1>1. ASSUME NEW t \in Txns, \A u \in Txns : txn'[u].seen = txn[u].seen, UNCHANGED <<heap, chain>>
      PROVE  KnownInv'
  BY <1>0, <1>1, KnownStep
<1>2. ASSUME NEW t \in Txns, Step(t) \/ UserAbort(t) PROVE KnownInv'
  <2>1. CASE GetMissing(t) \/ GetRead(t)
    BY <2>1, Reading
  <2>2. CASE GetFind(t) \/ PutFound(t) \/ UserAbort(t) \/ ValidateReads(t) \/ ValidateAbsent(t)
             \/ Commit(t) \/ Aborted(t)
    <3>1. UNCHANGED <<heap, chain>>
      BY <2>2 DEF GetFind, PutFound, UserAbort, ValidateReads, ValidateAbsent, Commit, Aborted,
                  SameStore
    <3> QED
      BY <1>1, <2>2, <3>1, SeenSame
  <2>3. CASE PutInsert(t)
    <3> DEFINE k == Key(t)
               i == Len(heap) + 1
               new == Tuple(i, k, MAX_TID, Value(t, Head(txn[t].ops).delete))
    <3>1. TxnInv(t) /\ heap \in Seq(Tuples)
      BY DEF InsertsInv, HeapInv
    <3>2. Running(t, "put") /\ tree[k] = Nil /\ heap' = Append(heap, new) /\ chain' = chain
      BY <2>3 DEF PutInsert
    <3>3. k \in Keys
      BY <3>1, <3>2, OperationTypes
    <3>4. new.key = k /\ new.version = MAX_TID
      BY DEF Tuple
    <3>5. ASSUME NEW j \in Keys, j = k PROVE WasAbsent(j)'
      <4>1. WasAbsent(j)
        BY <1>0, <3>2, <3>3, <3>5, NotThereWasAbsent
      <4> QED
        BY <3>2, <4>1 DEF WasAbsent, Known, Values
    <3> HIDE DEF k, new
    <3>6. \A j \in DOMAIN heap' : heap'[j] = new \/ (j \in DOMAIN heap /\ heap'[j] = heap[j])
      <4>1. DOMAIN heap = 1..Len(heap) /\ Len(heap) \in Nat
        BY <3>1
      <4>2. DOMAIN heap' = 1..(Len(heap) + 1) /\ heap'[Len(heap) + 1] = new
            /\ \A j \in 1..Len(heap) : heap'[j] = heap[j]
        BY <3>1, <3>2
      <4> QED
        BY <4>1, <4>2
    <3>7. \A j \in DOMAIN heap' : heap'[j] = new => Backed(j)'
      BY <3>3, <3>4, <3>5 DEF Backed
    <3> QED
      BY <1>0, <2>3, <3>2, <3>6, <3>7, SeenSame, KnownStep
  <2>4. CASE \E i \in DOMAIN heap : LockWrite(t, i) \/ CleanInserted(t, i) \/ CleanWritten(t, i)
    <3>1. PICK i \in DOMAIN heap : LockWrite(t, i) \/ CleanInserted(t, i) \/ CleanWritten(t, i)
      BY <2>4
    <3>2. chain' = chain
      BY <3>1 DEF LockWrite, CleanInserted, CleanWritten
    <3>3. \A u \in Txns : txn'[u].seen = txn[u].seen
      BY <2>4, SeenSame
    <3>4. \A j \in DOMAIN heap' :
             /\ j \in DOMAIN heap /\ heap'[j].key = heap[j].key
             /\ heap'[j].version = heap[j].version /\ heap'[j].value = heap[j].value
      BY <3>1, KeepsTuples
    <3> QED
      BY <1>0, <3>2, <3>3, <3>4, KnownStep
  <2>5. CASE Install(t)
    BY <2>5, InstallingKnown
  <2> QED
    BY <1>2, <2>1, <2>2, <2>3, <2>4, <2>5 DEF Step
<1>3. ASSUME NEW k \in Keys, Collect(k) PROVE KnownInv'
  <2> DEFINE i == tree[k]
             e == [heap[i] EXCEPT !.latest = FALSE]
  <2>1. i # Nil /\ heap' = [heap EXCEPT ![i] = e] /\ chain' = chain /\ RemoveKey(k, txn)
    BY <1>3 DEF Collect
  <2>2. i \in DOMAIN heap /\ heap[i] \in Tuples
    BY <1>0, <2>1 DEF HeapInv
  <2>3. e.key = heap[i].key /\ e.version = heap[i].version /\ e.value = heap[i].value
    BY <2>2 DEF Tuples
  <2> HIDE DEF e
  <2>4. \A j \in DOMAIN heap' :
           /\ j \in DOMAIN heap /\ heap'[j].key = heap[j].key
           /\ heap'[j].version = heap[j].version /\ heap'[j].value = heap[j].value
    BY <2>1, <2>2, <2>3
  <2>5. \A u \in Txns : txn'[u].seen = txn[u].seen
    <3>1. \A u \in Txns : txn[u] \in Local(txn[u].seen)
      BY DEF InsertsInv, TxnInv
    <3> QED
      BY <2>1, <3>1 DEF RemoveKey, Local
  <2> QED
    BY <1>0, <2>1, <2>4, <2>5, KnownStep
<1>4. CASE UNCHANGED vars
  BY <1>0, <1>4, KnownStep DEF vars
<1> QED
  BY <1>2, <1>3, <1>4 DEF Next

(* A clean read returns what some transaction has committed, or that the   *)
(* key was absent when it was: never the value of an insert that has not   *)
(* committed, whatever is inserted, deleted, aborted and collected.        *)
THEOREM CleanReads == Spec => []ReadsCommitted
<1>1. Init => InsertsInv /\ KnownInv
  <2> SUFFICES ASSUME Init PROVE InsertsInv /\ KnownInv
    OBVIOUS
  <2>1. InsertsInv
    BY InsertsInit
  <2>2. \A i \in DOMAIN heap : heap[i].version # MAX_TID /\ heap[i].latest
    <3> DEFINE N == Cardinality(Loaded)
    <3>1. PICK place \in Bijection(Loaded, 1..N) :
             heap = [i \in 1..N |-> LET k == CHOOSE k \in Loaded : place[k] = i
                                    IN  Tuple(i, k, LoadTid, Value(Loader, FALSE))]
      BY DEF Init
    <3> QED
      BY <3>1 DEF Tuple, LoadTid, MAX_TID
  <2>3. ASSUME NEW i \in DOMAIN heap PROVE Backed(i)
    <3>1. HeapInv /\ CommittedIsFound
      BY <2>1 DEF InsertsInv
    <3>2. heap[i] \in Tuples /\ i # Nil /\ tree[heap[i].key] = i
      BY <2>2, <3>1 DEF HeapInv, Nil
    <3>3. heap[i].key \in Keys
      BY <3>2 DEF Tuples
    <3>4. heap[i].value = CurrentValue(heap[i].key)
      BY <2>2, <3>1, <3>2, <3>3 DEF CommittedIsFound
    <3> QED
      BY <2>2, <3>1, <3>3, <3>4, ValuesAre DEF Backed
  <2>4. \A t \in Txns : txn[t].seen = {}
    BY DEF Init
  <2> QED
    BY <2>1, <2>3, <2>4 DEF KnownInv
<1>2. (InsertsInv /\ KnownInv) /\ [Next]_vars => (InsertsInv /\ KnownInv)'
  BY InsertsNext, KnownNext
<1>3. KnownInv => ReadsCommitted
  BY DEF KnownInv, Seen, Known, ReadsCommitted
<1> QED
  BY <1>1, <1>2, <1>3, PTL DEF Spec

-----------------------------------------------------------------------------
(* Absent reads.  As long as no key has left the leaf since the first      *)
(* version of it was kept, that version counts keys that are all still     *)
(* there, and among them is none the transaction has missed, unless it has *)
(* inserted it itself; so that with the same number of keys there are the  *)
(* same keys.                                                              *)
Present == {k \in Keys : tree[k] # Nil}
Inserted(t, k) ==
    \E n \in DOMAIN txn[t].writes : txn[t].writes[n].insert /\ txn[t].writes[n].key = k
Counted(t) ==
    \E P \in SUBSET Present :
        /\ Cardinality(P) = txn[t].absent
        /\ \A k \in txn[t].missing : k \notin P \/ Inserted(t, k)
Live(t) == txn[t].pc \in {"run", "found", "validated"}
AbsentInv(t) ==
    Live(t) /\ txn[t].missing # {} =>
        txn[t].absent # NoVersion /\ (txn[t].removed \/ Counted(t))

LEMMA PresentIsFinite ==
    /\ IsFiniteSet(Present) /\ ExtractVersionNumber = Cardinality(Present)
    /\ Cardinality(Present) \in Nat
    /\ \A P \in SUBSET Present : Cardinality(P) = Cardinality(Present) => P = Present
<1>1. IsFiniteSet(Present)
  BY InsertsAssumption, FS_Subset DEF Present
<1> QED
  BY <1>1, FS_Subset, FS_CardinalityType DEF ExtractVersionNumber, Present

(* What a step may do to a transaction's local state and to the leaf       *)
(* without any need of the leaf's version.                                 *)
LEMMA AbsentKept ==
    ASSUME NEW t \in Txns, AbsentInv(t),
           Live(t)' =>
              /\ Live(t) /\ txn'[t].missing = txn[t].missing
              /\ txn[t].missing # {} /\ txn[t].absent # NoVersion =>
                    txn'[t].absent = txn[t].absent
              /\ \A k \in Keys : Inserted(t, k) => Inserted(t, k)',
           txn[t].missing \subseteq Keys,
           \/ txn'[t].removed = txn[t].removed /\ Present \subseteq Present'
           \/ txn'[t].removed = (txn[t].absent # NoVersion)
    PROVE  AbsentInv(t)'
<1> SUFFICES ASSUME Live(t)', txn'[t].missing # {}
             PROVE  txn'[t].absent # NoVersion /\ (txn'[t].removed \/ Counted(t)')
  BY DEF AbsentInv
<1>1. txn[t].absent # NoVersion /\ txn'[t].absent = txn[t].absent
  BY DEF AbsentInv
<1>2. CASE txn'[t].removed = (txn[t].absent # NoVersion)
  BY <1>1, <1>2
<1>3. CASE txn'[t].removed = txn[t].removed /\ Present \subseteq Present'
  <2>1. CASE txn[t].removed
    BY <1>1, <1>3, <2>1
  <2>2. CASE Counted(t)
    <3>1. PICK P \in SUBSET Present :
             /\ Cardinality(P) = txn[t].absent
             /\ \A k \in txn[t].missing : k \notin P \/ Inserted(t, k)
      BY <2>2 DEF Counted
    <3>2. P \in SUBSET Present' /\ Cardinality(P) = txn'[t].absent
      BY <1>1, <1>3, <3>1
    <3>3. \A k \in txn'[t].missing : k \notin P \/ Inserted(t, k)'
      BY <3>1
    <3> QED
      BY <1>1, <3>2, <3>3 DEF Counted
  <2> QED
    BY <2>1, <2>2 DEF AbsentInv
<1> QED
  BY <1>2, <1>3

(* Another transaction's step.                                             *)
LEMMA AbsentFrame ==
    ASSUME NEW t \in Txns, TxnInv(t), AbsentInv(t),
           \/ txn'[t] = txn[t] /\ Present \subseteq Present'
           \/ txn'[t] = [txn[t] EXCEPT !.removed = txn[t].absent # NoVersion]
    PROVE  AbsentInv(t)'
<1>1. txn[t] \in Local(txn[t].seen)
  BY DEF TxnInv
<1>2. /\ txn'[t].pc = txn[t].pc /\ txn'[t].missing = txn[t].missing
      /\ txn'[t].absent = txn[t].absent /\ txn'[t].writes = txn[t].writes
      /\ \/ txn'[t].removed = txn[t].removed /\ Present \subseteq Present'
         \/ txn'[t].removed = (txn[t].absent # NoVersion)
  <2>1. (txn[t].absent # NoVersion) \in BOOLEAN
    OBVIOUS
  <2> QED
    BY <1>1, <2>1 DEF Local
<1>3. txn[t].missing \subseteq Keys
  BY <1>1 DEF Local
<1>4. (Live(t)' => Live(t)) /\ \A k \in Keys : Inserted(t, k) => Inserted(t, k)'
  BY <1>2 DEF Live, Inserted
<1> QED
  BY <1>2, <1>3, <1>4, AbsentKept

(* The fields that Done and do_node_read set.                              *)
LEMMA DoneFields ==
    ASSUME NEW s, NEW x \in Local(s)
    PROVE  /\ Done(x).missing = x.missing /\ Done(x).absent = x.absent
           /\ Done(x).writes = x.writes /\ Done(x).removed = x.removed
<1> DEFINE y == [x EXCEPT !.pc = "run", !.ops = Tail(@)]
<1>1. /\ DOMAIN y = DOMAIN x /\ y.missing = x.missing /\ y.absent = x.absent
      /\ y.writes = x.writes /\ y.removed = x.removed
  BY DEF Local
<1>2. Done(x) = [y EXCEPT !.at = Nil, !.node = NoVersion]
  BY DEF Done
<1>3. DOMAIN x = {"pc", "ops", "at", "node", "reads", "absent", "missing", "removed",
                  "writes", "commit_tid", "unclean", "seen"}
  BY DEF Local
<1> HIDE DEF y
<1> QED
  BY <1>1, <1>2, <1>3

LEMMA NodeReadFields ==
    ASSUME NEW s, NEW x \in Local(s), x.pc = "run", NEW v
    PROVE  LET y == do_node_read(x, v) IN
           /\ DOMAIN y = DOMAIN x
           /\ y.missing = x.missing /\ y.writes = x.writes /\ y.removed = x.removed
           /\ y.pc # "aborted" => y.absent = v /\ x.absent \in {v, NoVersion}
           /\ y.pc \in {"run", "aborted"}
BY DEF do_node_read, Local

LEMMA AbsentOwn ==
    ASSUME InsertsInv, NEW t \in Txns, AbsentInv(t),
           \/ GetFind(t) \/ GetRead(t) \/ PutFound(t) \/ UserAbort(t)
           \/ \E i \in DOMAIN heap : LockWrite(t, i)
           \/ ValidateReads(t) \/ ValidateAbsent(t)
    PROVE  AbsentInv(t)' /\ Present' = Present
<1> DEFINE x == txn[t]
<1>1. /\ DOMAIN txn = Txns /\ x \in Local(x.seen) /\ TxnInv(t)
      /\ x.missing \subseteq Keys /\ x.pc \in Pcs
  BY DEF InsertsInv, TxnInv, Local
<1>2. ASSUME NEW z, Set(t, z), UNCHANGED tree, z.removed = x.removed,
             z.pc \in {"run", "found", "validated"} =>
                /\ Live(t) /\ z.missing = x.missing
                /\ x.missing # {} /\ x.absent # NoVersion => z.absent = x.absent
                /\ \A n \in DOMAIN x.writes : n \in DOMAIN z.writes /\ z.writes[n] = x.writes[n]
      PROVE  AbsentInv(t)' /\ Present' = Present
  <2>1. txn'[t] = z /\ Present' = Present
    BY <1>1, <1>2 DEF Set, Present
  <2>2. Live(t)' => \A k \in Keys : Inserted(t, k) => Inserted(t, k)'
    BY <1>2, <2>1 DEF Inserted, Live
  <2> QED
    BY <1>1, <1>2, <2>1, <2>2, AbsentKept DEF Live
<1>3. CASE GetFind(t)
  <2> DEFINE z == [x EXCEPT !.pc = "found", !.at = tree[Key(t)], !.node = ExtractVersionNumber]
  <2>1. Set(t, z) /\ UNCHANGED tree /\ Live(t)
    BY <1>3 DEF GetFind, Running, SameStore, Live
  <2>2. /\ z.removed = x.removed /\ z.missing = x.missing /\ z.absent = x.absent
        /\ z.writes = x.writes
    BY <1>1 DEF Local
  <2> HIDE DEF z
  <2> QED
    BY <1>2, <2>1, <2>2
<1>4. CASE GetRead(t)
  <2> DEFINE n == heap[x.at]
             d == Done(x)
             r == [d EXCEPT !.reads = @ \cup {[tuple |-> x.at, version |-> n.version]},
                            !.seen = @ \cup {[key |-> n.key, val |-> n.value]}]
             y == do_node_read(d, x.node)
             e == IF n.version = MAX_TID THEN Absence(n.key) ELSE [key |-> n.key, val |-> n.value]
             m == [y EXCEPT !.seen = @ \cup {e}]
  <2>1. Set(t, IF IsRecord(n) THEN r ELSE m) /\ UNCHANGED tree /\ Live(t) /\ x.ops # <<>>
    BY <1>1, <1>4 DEF GetRead, SameStore, Live, TxnInv, Refs
  <2>2. d \in Local(x.seen) /\ d.pc = "run"
    BY <1>1, <2>1, DoneTypes
  <2>3. /\ d.missing = x.missing /\ d.absent = x.absent
        /\ d.writes = x.writes /\ d.removed = x.removed
    BY <1>1, DoneFields
  <2> HIDE DEF d, e, n
  <2>4. /\ r.missing = x.missing /\ r.absent = x.absent
        /\ r.writes = x.writes /\ r.removed = x.removed
    BY <2>2, <2>3 DEF Local
  <2>5. /\ y.missing = x.missing /\ y.writes = x.writes /\ y.removed = x.removed
        /\ y.pc # "aborted" => (x.absent # NoVersion => y.absent = x.absent)
        /\ DOMAIN y = DOMAIN d
    BY <2>2, <2>3, NodeReadFields
  <2> HIDE DEF y
  <2>6. /\ m.missing = x.missing /\ m.writes = x.writes /\ m.removed = x.removed
        /\ m.pc # "aborted" => (x.absent # NoVersion => m.absent = x.absent)
    BY <2>2, <2>5 DEF Local
  <2>7. CASE IsRecord(n)
    <3> HIDE DEF r, m
    <3> QED
      BY <1>2, <2>1, <2>4, <2>7
  <2>8. CASE ~IsRecord(n)
    <3> HIDE DEF r, m
    <3> QED
      BY <1>2, <2>1, <2>6, <2>8
  <2> QED
    BY <2>7, <2>8
<1>5. CASE PutFound(t)
  <2> DEFINE w == Write(tree[Key(t)], Key(t), Head(x.ops).delete, FALSE)
             z == [Done(x) EXCEPT !.writes = Append(@, w)]
  <2>1. Set(t, z) /\ UNCHANGED tree /\ Running(t, "put") /\ Live(t) /\ x.ops # <<>>
    BY <1>5 DEF PutFound, SameStore, Running, Live
  <2>2. Done(x) \in Local(x.seen)
    BY <1>1, <2>1, DoneTypes
  <2>3. /\ Done(x).missing = x.missing /\ Done(x).absent = x.absent
        /\ Done(x).writes = x.writes /\ Done(x).removed = x.removed
    BY <1>1, DoneFields
  <2> HIDE DEF w
  <2>4. /\ z.missing = x.missing /\ z.absent = x.absent
        /\ z.writes = Append(x.writes, w) /\ z.removed = x.removed
    BY <2>2, <2>3 DEF Local
  <2>5. \A n \in DOMAIN x.writes :
           n \in DOMAIN Append(x.writes, w) /\ Append(x.writes, w)[n] = x.writes[n]
    <3>1. x.writes \in Seq(WriteRecords)
      BY <1>1 DEF Local
    <3> QED
      BY <3>1
  <2> HIDE DEF z
  <2> QED
    BY <1>2, <2>1, <2>4, <2>5
<1>6. CASE UserAbort(t)
  <2> DEFINE z == [x EXCEPT !.pc = "aborted"]
  <2>1. Set(t, z) /\ UNCHANGED tree
    BY <1>6 DEF UserAbort, SameStore
  <2>2. z.removed = x.removed /\ z.pc = "aborted"
    BY <1>1 DEF Local
  <2> HIDE DEF z
  <2> QED
    BY <1>2, <2>1, <2>2
<1>7. /\ Failed(t).removed = x.removed /\ Failed(t).pc = "abort"
  BY <1>1 DEF Failed, Local
<1>8. CASE \E i \in DOMAIN heap : LockWrite(t, i)
  <2>1. (Set(t, x) \/ Set(t, Failed(t))) /\ UNCHANGED tree /\ Live(t)
    BY <1>8 DEF LockWrite, Live
  <2> HIDE DEF x
  <2> QED
    BY <1>2, <1>7, <2>1
<1>9. CASE ValidateReads(t)
  <2> DEFINE z == [x EXCEPT !.pc = "validated"]
  <2>1. (Set(t, z) \/ Set(t, Failed(t))) /\ UNCHANGED tree /\ Live(t)
    BY <1>9 DEF ValidateReads, SameStore, Live
  <2>2. z.removed = x.removed /\ z.missing = x.missing /\ z.absent = x.absent /\ z.writes = x.writes
    BY <1>1 DEF Local
  <2> HIDE DEF z
  <2> QED
    BY <1>2, <1>7, <2>1, <2>2
<1>10. CASE ValidateAbsent(t)
  <2> DEFINE z == [x EXCEPT !.pc = "install", !.commit_tid = commits + 1]
  <2>1. (Set(t, z) \/ Set(t, Failed(t))) /\ UNCHANGED tree
    BY <1>10 DEF ValidateAbsent
  <2>2. z.removed = x.removed /\ z.pc = "install"
    BY <1>1 DEF Local
  <2> HIDE DEF z
  <2> QED
    BY <1>2, <1>7, <2>1, <2>2
<1> QED
  BY <1>3, <1>4, <1>5, <1>6, <1>8, <1>9, <1>10

(* Once a transaction commits or aborts there is nothing to keep.          *)
LEMMA AbsentOver ==
    ASSUME InsertsInv, NEW t \in Txns,
           \/ Install(t) \/ Commit(t) \/ Aborted(t)
           \/ \E i \in DOMAIN heap : CleanInserted(t, i) \/ CleanWritten(t, i)
    PROVE  AbsentInv(t)' /\ ~Live(t) /\ ~Live(t)'
<1> DEFINE x == txn[t]
<1>1. DOMAIN txn = Txns /\ x \in Local(x.seen)
  BY DEF InsertsInv, TxnInv
<1>2. x.pc \in {"install", "abort"}
  BY DEF Install, Commit, Aborted, CleanInserted, CleanWritten
<1>3. txn'[t].pc \in {"install", "committed", "aborted", "abort"}
  <2>1. CASE Install(t) \/ Commit(t) \/ Aborted(t)
    <3>1. PICK z : Set(t, z) /\ z.pc \in {"install", "committed", "aborted", "abort"}
      <4>1. CASE Install(t)
        <5>1. Set(t, [x EXCEPT !.writes = Tail(@)])
          BY <4>1 DEF Install
        <5>2. [x EXCEPT !.writes = Tail(@)].pc = x.pc
          BY <1>1 DEF Local
        <5> QED
          BY <1>2, <5>1, <5>2
      <4>2. CASE Commit(t) \/ Aborted(t)
        BY <1>1, <4>2 DEF Commit, Aborted, Local
      <4> QED
        BY <2>1, <4>1, <4>2
    <3> QED
      BY <1>1, <3>1 DEF Set
  <2>2. ASSUME NEW i \in DOMAIN heap, CleanInserted(t, i) \/ CleanWritten(t, i)
        PROVE  txn'[t].pc = x.pc
    <3> DEFINE y == [txn EXCEPT ![t].unclean = @ \ {i}]
    <3>1. y[t] = [x EXCEPT !.unclean = @ \ {i}]
      BY <1>1
    <3>2. txn' = y \/ \E k : RemoveKey(k, y)
      BY <2>2 DEF CleanInserted, CleanWritten, Set
    <3> HIDE DEF y
    <3>3. txn'[t] = y[t] \/ txn'[t] = [y[t] EXCEPT !.removed = y[t].absent # NoVersion]
      BY <3>2 DEF RemoveKey
    <3>4. y[t].pc = x.pc /\ "pc" \in DOMAIN y[t]
      BY <1>1, <3>1 DEF Local
    <3> QED
      BY <3>3, <3>4
  <2> QED
    BY <1>2, <2>1, <2>2
<1> QED
  BY <1>2, <1>3 DEF AbsentInv, Live

LEMMA AbsentMissing ==
    ASSUME InsertsInv, NEW t \in Txns, AbsentInv(t), GetMissing(t)
    PROVE  AbsentInv(t)' /\ Present' = Present
<1> DEFINE x == txn[t]
           k == Key(t)
           v == ExtractVersionNumber
           y == do_node_read(Done(x), v)
           z == [y EXCEPT !.missing = @ \cup {k}, !.seen = @ \cup {Absence(k)}]
<1>1. DOMAIN txn = Txns /\ x \in Local(x.seen) /\ TxnInv(t)
  BY DEF InsertsInv, TxnInv
<1>2. Running(t, "get") /\ tree[k] = Nil /\ Set(t, z) /\ UNCHANGED tree
  BY DEF GetMissing, SameStore
<1>3. Live(t) /\ x.ops # <<>> /\ k \in Keys
  BY <1>1, <1>2, OperationTypes DEF Live, Running
<1>4. Done(x) \in Local(x.seen) /\ Done(x).pc = "run"
  BY <1>1, <1>3, DoneTypes
<1>5. /\ Done(x).missing = x.missing /\ Done(x).absent = x.absent
      /\ Done(x).writes = x.writes /\ Done(x).removed = x.removed
  BY <1>1, DoneFields
<1>6. v = Cardinality(Present) /\ v \in Nat
  BY PresentIsFinite
<1> HIDE DEF v
<1>7. /\ DOMAIN y = DOMAIN Done(x)
      /\ y.missing = x.missing /\ y.writes = x.writes /\ y.removed = x.removed
      /\ y.pc # "aborted" => y.absent = v /\ x.absent \in {v, NoVersion}
  BY <1>4, <1>5, NodeReadFields
<1> HIDE DEF y
<1>8. /\ z.missing = x.missing \cup {k} /\ z.writes = x.writes /\ z.removed = x.removed
      /\ z.pc # "aborted" => z.absent = v /\ x.absent \in {v, NoVersion}
  BY <1>4, <1>7 DEF Local
<1>9. txn'[t] = z /\ Present' = Present
  BY <1>1, <1>2 DEF Set, Present
<1> HIDE DEF z, x, k
<1>10. ASSUME Live(t)' PROVE txn'[t].absent # NoVersion /\ (txn'[t].removed \/ Counted(t)')
  <2>1. txn'[t].absent = v /\ x.absent \in {v, NoVersion} /\ v # NoVersion
    BY <1>6, <1>8, <1>9, <1>10 DEF Live, NoVersion
  <2>2. ASSUME ~txn'[t].removed, NEW j \in x.missing PROVE j \notin Present \/ Inserted(t, j)
    <3>1. x.absent = v /\ ~x.removed /\ Counted(t)
      BY <1>3, <1>8, <1>9, <2>1, <2>2 DEF AbsentInv, x
    <3>2. PICK P \in SUBSET Present :
             /\ Cardinality(P) = x.absent
             /\ \A i \in x.missing : i \notin P \/ Inserted(t, i)
      BY <3>1 DEF Counted, x
    <3>3. P = Present
      BY <1>6, <3>1, <3>2, PresentIsFinite
    <3> QED
      BY <2>2, <3>2, <3>3
  <2>3. \A j : Inserted(t, j) => Inserted(t, j)'
    BY <1>8, <1>9 DEF Inserted, x
  <2>4. k \notin Present
    BY <1>2 DEF Present, k
  <2>5. ASSUME ~txn'[t].removed PROVE Counted(t)'
    <3>1. \A j \in txn'[t].missing : j \notin Present \/ Inserted(t, j)'
      BY <1>8, <1>9, <2>2, <2>3, <2>4, <2>5
    <3>2. Present \in SUBSET Present' /\ Cardinality(Present) = txn'[t].absent
      BY <1>6, <1>9, <2>1
    <3> QED
      BY <3>1, <3>2 DEF Counted
  <2> QED
    BY <2>1, <2>5
<1> QED
  BY <1>9, <1>10 DEF AbsentInv

LEMMA AbsentInserting ==
    ASSUME InsertsInv, NEW t \in Txns, AbsentInv(t), PutInsert(t)
    PROVE  AbsentInv(t)' /\ Present \subseteq Present'
<1> DEFINE x == txn[t]
           k == Key(t)
           i == Len(heap) + 1
           v == ExtractVersionNumber
           w == Write(i, k, Head(x.ops).delete, TRUE)
           y == [Done(x) EXCEPT !.writes = Append(@, w)]
           z == AfterInsert(y, v, v + 1)
<1>1. DOMAIN txn = Txns /\ x \in Local(x.seen) /\ TxnInv(t) /\ tree \in [Keys -> Nat]
      /\ heap \in Seq(Tuples)
  BY DEF InsertsInv, TxnInv, HeapInv
<1>2. Running(t, "put") /\ tree[k] = Nil /\ Set(t, z) /\ tree' = [tree EXCEPT ![k] = i]
  BY DEF PutInsert
<1>3. Live(t) /\ x.ops # <<>> /\ k \in Keys
  BY <1>1, <1>2, OperationTypes DEF Live, Running
<1>4. Done(x) \in Local(x.seen) /\ Done(x).pc = "run"
  BY <1>1, <1>3, DoneTypes
<1>5. /\ Done(x).missing = x.missing /\ Done(x).absent = x.absent
      /\ Done(x).writes = x.writes /\ Done(x).removed = x.removed
  BY <1>1, DoneFields
<1>6. v = Cardinality(Present) /\ v \in Nat /\ IsFiniteSet(Present)
  BY PresentIsFinite
<1>7. w.insert /\ w.key = k
  BY DEF Write
<1>8. Len(heap) \in Nat /\ i # Nil
  BY <1>1 DEF Nil
<1> HIDE DEF v, w, i
<1>9. /\ y.missing = x.missing /\ y.absent = x.absent /\ y.removed = x.removed
      /\ y.writes = Append(x.writes, w) /\ "absent" \in DOMAIN y /\ "pc" \in DOMAIN y
      /\ y.pc = "run"
  BY <1>4, <1>5 DEF Local
<1> HIDE DEF y
<1>10. /\ z.missing = x.missing /\ z.removed = x.removed /\ z.writes = Append(x.writes, w)
       /\ x.absent = NoVersion \/ z.pc = "aborted" \/ (x.absent = v /\ z.absent = v + 1)
  BY <1>9 DEF AfterInsert
<1>11. txn'[t] = z
  BY <1>1, <1>2 DEF Set
<1> HIDE DEF z, k
<1>12. Present' = Present \cup {k} /\ k \notin Present
  BY <1>1, <1>2, <1>3, <1>8 DEF Present
<1>13. /\ \A j : Inserted(t, j) => Inserted(t, j)'
       /\ \A j : j = k => Inserted(t, j)'
  <2>1. x.writes \in Seq(WriteRecords)
    BY <1>1 DEF Local
  <2>2. /\ \A n \in DOMAIN x.writes :
              n \in DOMAIN Append(x.writes, w) /\ Append(x.writes, w)[n] = x.writes[n]
        /\ \E n \in DOMAIN Append(x.writes, w) : Append(x.writes, w)[n] = w
    <3>1. Len(x.writes) + 1 \in DOMAIN Append(x.writes, w)
          /\ Append(x.writes, w)[Len(x.writes) + 1] = w
      BY <2>1
    <3>2. \A n \in DOMAIN x.writes :
              n \in DOMAIN Append(x.writes, w) /\ Append(x.writes, w)[n] = x.writes[n]
      BY <2>1
    <3> QED
      BY <3>1, <3>2
  <2>3. txn'[t].writes = Append(x.writes, w)
    BY <1>10, <1>11
  <2> HIDE DEF x
  <2>4. ASSUME NEW j, j = k PROVE Inserted(t, j)'
    BY <1>7, <2>2, <2>3, <2>4 DEF Inserted
  <2>5. ASSUME NEW j, Inserted(t, j) PROVE Inserted(t, j)'
    <3>1. \E n \in DOMAIN x.writes : x.writes[n].insert /\ x.writes[n].key = j
      BY <2>5 DEF Inserted, x
    <3> QED
      BY <2>2, <2>3, <3>1 DEF Inserted
  <2> QED
    BY <2>4, <2>5
<1> HIDE DEF x
<1>14. ASSUME Live(t)', txn'[t].missing # {}
       PROVE  txn'[t].absent # NoVersion /\ (txn'[t].removed \/ Counted(t)')
  <2>1. x.missing # {} /\ x.absent # NoVersion /\ (x.removed \/ Counted(t))
    BY <1>3, <1>10, <1>11, <1>14 DEF AbsentInv, x
  <2>2. x.absent = v /\ txn'[t].absent = v + 1 /\ v + 1 # NoVersion
    BY <1>6, <1>10, <1>11, <1>14, <2>1 DEF Live, NoVersion
  <2>3. ASSUME Counted(t) PROVE Counted(t)'
    <3>1. PICK P \in SUBSET Present :
             /\ Cardinality(P) = x.absent
             /\ \A j \in x.missing : j \notin P \/ Inserted(t, j)
      BY <2>3 DEF Counted, x
    <3>2. P = Present
      BY <1>6, <2>2, <3>1, PresentIsFinite
    <3>3. \A j \in txn'[t].missing : j \notin Present' \/ Inserted(t, j)'
      BY <1>10, <1>11, <1>12, <1>13, <3>1, <3>2
    <3>4. Cardinality(Present') = v + 1
      <4> HIDE DEF Present
      <4> QED
        BY <1>6, <1>12, FS_AddElement
    <3> QED
      BY <2>2, <3>3, <3>4 DEF Counted
  <2> QED
    BY <1>10, <1>11, <2>1, <2>2, <2>3
<1> QED
  BY <1>12, <1>14 DEF AbsentInv

(* What a step of one transaction is to the others.                        *)
LEMMA AbsentOthers ==
    ASSUME InsertsInv, NEW t \in Txns, Step(t) \/ UserAbort(t),
           Present \subseteq Present' \/ \E i \in DOMAIN heap : CleanInserted(t, i)
    PROVE  \A u \in Txns \ {t} :
              \/ txn'[u] = txn[u] /\ Present \subseteq Present'
              \/ txn'[u] = [txn[u] EXCEPT !.removed = txn[u].absent # NoVersion]
<1>1. DOMAIN txn = Txns
  BY DEF InsertsInv
<1>2. ASSUME NEW z, Set(t, z) PROVE \A u \in Txns \ {t} : txn'[u] = txn[u]
  BY <1>1, <1>2 DEF Set
<1>3. ASSUME NEW i \in DOMAIN heap, CleanInserted(t, i)
      PROVE  \A u \in Txns \ {t} :
              \/ txn'[u] = txn[u] /\ Present \subseteq Present'
              \/ txn'[u] = [txn[u] EXCEPT !.removed = txn[u].absent # NoVersion]
  <2> DEFINE y == [txn EXCEPT ![t].unclean = @ \ {i}]
  <2>1. \A u \in Txns \ {t} : y[u] = txn[u]
    BY <1>1
  <2>2. RemoveKey(heap[i].key, y) \/ (txn' = y /\ UNCHANGED tree)
    BY <1>3 DEF CleanInserted
  <2> HIDE DEF y
  <2> QED
    BY <2>1, <2>2 DEF RemoveKey, Present
<1>4. ASSUME \A i \in DOMAIN heap : ~CleanInserted(t, i)
      PROVE  \A u \in Txns \ {t} : txn'[u] = txn[u] /\ Present \subseteq Present'
  <2>1. \E z : Set(t, z)
    <3>1. CASE GetMissing(t) \/ GetFind(t) \/ GetRead(t) \/ PutFound(t) \/ PutInsert(t)
      BY <3>1 DEF GetMissing, GetFind, GetRead, PutFound, PutInsert
    <3>2. CASE \E i \in DOMAIN heap : LockWrite(t, i)
      BY <3>2 DEF LockWrite
    <3>3. CASE ValidateReads(t) \/ ValidateAbsent(t) \/ Install(t) \/ Commit(t) \/ Aborted(t)
      BY <3>3 DEF ValidateReads, ValidateAbsent, Install, Commit, Aborted
    <3>4. CASE \E i \in DOMAIN heap : CleanWritten(t, i)
      BY <3>4 DEF CleanWritten
    <3>5. CASE UserAbort(t)
      BY <3>5 DEF UserAbort
    <3> QED
      BY <1>4, <3>1, <3>2, <3>3, <3>4, <3>5 DEF Step
  <2> QED
    BY <1>2, <1>4, <2>1
<1> QED
  BY <1>3, <1>4

LEMMA KeysStay ==
    ASSUME InsertsInv, NEW t \in Txns, Step(t) \/ UserAbort(t), AbsentInv(t)
    PROVE  Present \subseteq Present' \/ \E i \in DOMAIN heap : CleanInserted(t, i)
<1>1. CASE PutInsert(t)
  BY <1>1, AbsentInserting
<1>2. CASE Install(t)
  <2>1. tree' = tree \/ \E k : tree' = [tree EXCEPT ![k] = Len(heap) + 1]
    BY <1>2 DEF Install
  <2>2. Len(heap) + 1 # Nil /\ tree \in [Keys -> Nat]
    <3>1. heap \in Seq(Tuples) /\ tree \in [Keys -> Nat]
      BY DEF InsertsInv, HeapInv
    <3>2. Len(heap) \in Nat
      BY <3>1
    <3> QED
      BY <3>1, <3>2 DEF Nil
  <2> QED
    BY <2>1, <2>2 DEF Present
<1>3. CASE UNCHANGED tree
  BY <1>3 DEF Present
<1>4. GetMissing(t) \/ GetFind(t) \/ GetRead(t) \/ PutFound(t) \/ UserAbort(t) => UNCHANGED tree
  BY DEF GetMissing, GetFind, GetRead, PutFound, UserAbort, SameStore
<1>5. (\E i \in DOMAIN heap : LockWrite(t, i) \/ CleanWritten(t, i)) => UNCHANGED tree
  BY DEF LockWrite, CleanWritten
<1>6. ValidateReads(t) \/ ValidateAbsent(t) \/ Commit(t) \/ Aborted(t) => UNCHANGED tree
  BY DEF ValidateReads, ValidateAbsent, Commit, Aborted, SameStore
<1> QED
  BY <1>1, <1>2, <1>3, <1>4, <1>5, <1>6 DEF Step

Absents == \A t \in Txns : AbsentInv(t)

LEMMA AbsentNext == InsertsInv /\ Absents /\ [Next]_vars => Absents'
<1> SUFFICES ASSUME InsertsInv, Absents, [Next]_vars PROVE Absents'
  OBVIOUS
<1>0. \A u \in Txns : AbsentInv(u) /\ TxnInv(u)
  BY DEF Absents, InsertsInv
<1>1. ASSUME NEW t \in Txns, Step(t) \/ UserAbort(t) PROVE Absents'
  <2>1. AbsentInv(t)'
    <3>1. CASE GetMissing(t)
      BY <1>0, <3>1, AbsentMissing
    <3>2. CASE PutInsert(t)
      BY <1>0, <3>2, AbsentInserting
    <3>3. CASE \/ GetFind(t) \/ GetRead(t) \/ PutFound(t) \/ UserAbort(t)
               \/ \E i \in DOMAIN heap : LockWrite(t, i)
               \/ ValidateReads(t) \/ ValidateAbsent(t)
      BY <1>0, <3>3, AbsentOwn
    <3>4. CASE \/ Install(t) \/ Commit(t) \/ Aborted(t)
               \/ \E i \in DOMAIN heap : CleanInserted(t, i) \/ CleanWritten(t, i)
      BY <3>4, AbsentOver
    <3> QED
      BY <1>1, <3>1, <3>2, <3>3, <3>4 DEF Step
  <2>2. \A u \in Txns \ {t} :
           \/ txn'[u] = txn[u] /\ Present \subseteq Present'
           \/ txn'[u] = [txn[u] EXCEPT !.removed = txn[u].absent # NoVersion]
    BY <1>0, <1>1, KeysStay, AbsentOthers
  <2>3. \A u \in Txns \ {t} : AbsentInv(u)'
    BY <1>0, <2>2, AbsentFrame
  <2> QED
    BY <2>1, <2>3 DEF Absents
<1>2. ASSUME NEW k \in Keys, Collect(k) PROVE Absents'
  <2>1. \A u \in Txns : txn'[u] = [txn[u] EXCEPT !.removed = txn[u].absent # NoVersion]
    BY <1>2 DEF Collect, RemoveKey
  <2> QED
    BY <1>0, <2>1, AbsentFrame DEF Absents
<1>3. CASE UNCHANGED vars
  <2>1. txn' = txn /\ Present' = Present
    BY <1>3 DEF vars, Present
  <2> QED
    BY <1>0, <2>1, AbsentFrame DEF Absents
<1> QED
  BY <1>1, <1>2, <1>3 DEF Next

(* Only ValidateAbsent takes a transaction from validation to installing.  *)
LEMMA OnlyValidateAbsent ==
    ASSUME InsertsInv, Absents, Next, NEW t \in Txns,
           txn[t].pc = "validated", txn'[t].pc = "install"
    PROVE  ValidateAbsent(t) /\ tree' = tree
<1>1. ASSUME NEW u \in Txns \ {t}, Step(u) \/ UserAbort(u) PROVE FALSE
  <2>1. AbsentInv(u) /\ txn[t] \in Local(txn[t].seen)
    BY DEF Absents, InsertsInv, TxnInv
  <2>2. \/ txn'[t] = txn[t]
        \/ txn'[t] = [txn[t] EXCEPT !.removed = txn[t].absent # NoVersion]
    BY <1>1, <2>1, KeysStay, AbsentOthers
  <2> QED
    BY <2>1, <2>2 DEF Local
<1>2. ASSUME NEW k \in Keys, Collect(k) PROVE FALSE
  <2>1. txn[t] \in Local(txn[t].seen)
    BY DEF InsertsInv, TxnInv
  <2>2. txn'[t] = [txn[t] EXCEPT !.removed = txn[t].absent # NoVersion]
    BY <1>2 DEF Collect, RemoveKey
  <2> QED
    BY <2>1, <2>2 DEF Local
<1>3. Step(t) \/ UserAbort(t)
  BY <1>1, <1>2 DEF Next
<1>4. ~(GetMissing(t) \/ GetFind(t) \/ GetRead(t) \/ PutFound(t) \/ PutInsert(t) \/ UserAbort(t))
  BY DEF GetMissing, GetFind, GetRead, PutFound, PutInsert, UserAbort, Running
<1>5. \A i \in DOMAIN heap : ~(LockWrite(t, i) \/ CleanInserted(t, i) \/ CleanWritten(t, i))
  BY DEF LockWrite, CleanInserted, CleanWritten
<1>6. ~(ValidateReads(t) \/ Install(t) \/ Commit(t) \/ Aborted(t))
  BY DEF ValidateReads, Install, Commit, Aborted
<1> QED
  BY <1>3, <1>4, <1>5, <1>6 DEF Step, ValidateAbsent

(* When the absent set passes validation, and no key has left the leaf     *)
(* since its version was kept, every key the transaction has looked for in *)
(* vain still is not there, or is by its own insert: the number of keys,   *)
(* which is all the version shows, is then proof enough.                   *)
THEOREM AbsentSafety == Spec => AbsentReadsValidated
<1> DEFINE A ==
      \A t \in Txns :
          txn[t].pc = "validated" /\ txn'[t].pc = "install" /\ ~txn[t].removed =>
            \A k \in txn[t].missing :
                \/ tree[k] = Nil
                \/ \E n \in DOMAIN txn[t].writes :
                      txn[t].writes[n].insert /\ txn[t].writes[n].tuple = tree[k]
<1>1. InsertsInv /\ Absents /\ [Next]_vars => [A]_vars
  <2> SUFFICES ASSUME InsertsInv, Absents, Next, NEW t \in Txns,
                      txn[t].pc = "validated", txn'[t].pc = "install", ~txn[t].removed,
                      NEW k \in txn[t].missing
               PROVE  \/ tree[k] = Nil
                      \/ \E n \in DOMAIN txn[t].writes :
                            txn[t].writes[n].insert /\ txn[t].writes[n].tuple = tree[k]
    OBVIOUS
  <2>1. ValidateAbsent(t) /\ TxnInv(t) /\ AbsentInv(t) /\ DOMAIN txn = Txns
    BY OnlyValidateAbsent DEF InsertsInv, Absents
  <2>2. txn[t].absent # NoVersion /\ Counted(t)
    BY <2>1 DEF AbsentInv, Live
  <2>3. AbsentIsValid(t)
    <3>1. ~AbsentIsValid(t) => Set(t, Failed(t))
      BY <2>1 DEF ValidateAbsent
    <3>2. txn[t] \in Local(txn[t].seen)
      BY <2>1 DEF TxnInv
    <3>3. Failed(t).pc = "abort"
      BY <3>2 DEF Failed, Local
    <3> QED
      BY <2>1, <3>1, <3>3 DEF Set
  <2>4. txn[t].absent = Cardinality(Present)
    BY <2>2, <2>3, PresentIsFinite DEF AbsentIsValid
  <2>5. PICK P \in SUBSET Present :
           /\ Cardinality(P) = txn[t].absent
           /\ \A j \in txn[t].missing : j \notin P \/ Inserted(t, j)
    BY <2>2 DEF Counted
  <2>6. k \notin Present \/ Inserted(t, k)
    BY <2>4, <2>5, PresentIsFinite
  <2>7. k \in Keys
    BY <2>1 DEF TxnInv, Local
  <2>8. CASE Inserted(t, k)
    <3>1. PICK n \in DOMAIN txn[t].writes : txn[t].writes[n].insert /\ txn[t].writes[n].key = k
      BY <2>8 DEF Inserted
    <3> DEFINE i == txn[t].writes[n].tuple
    <3>2. i \in DOMAIN heap /\ heap[i].key = k /\ heap[i].latest
      BY <2>1, <3>1 DEF TxnInv, Refs, Locks, Written
    <3>3. tree[k] = i
      BY <3>2 DEF InsertsInv, HeapInv
    <3> QED
      BY <3>1, <3>3
  <2> QED
    BY <2>6, <2>7, <2>8 DEF Present
<1>2. Init => InsertsInv /\ Absents
  <2>1. Init => \A t \in Txns : txn[t].missing = {}
    BY DEF Init
  <2> QED
    BY <2>1, InsertsInit DEF Absents, AbsentInv
<1>3. (InsertsInv /\ Absents) /\ [Next]_vars => (InsertsInv /\ Absents)'
  BY InsertsNext, AbsentNext
<1>4. Spec => [](InsertsInv /\ Absents)
  BY <1>2, <1>3, PTL DEF Spec
<1>5. AbsentReadsValidated <=> [][A]_vars
  BY DEF AbsentReadsValidated
<1> HIDE DEF A
<1> QED
  BY <1>1, <1>4, <1>5, PTL DEF Spec
=============================================================================
