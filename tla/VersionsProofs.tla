--------------------------- MODULE VersionsProofs ---------------------------
(***************************************************************************)
(* Proofs about Versions, for any number of cores and keys, any programs,  *)
(* and any bounds.  Types says what the states of the heap, transactions,  *)
(* queues and MCS locks can be; Stamps, on top of it, which commit ids     *)
(* there are: none of a tick to come, and few enough of each tick for      *)
(* their numbers to fit.  Tombs: a queued tombstone is still the deleted   *)
(* version that queued it.  As long as no two collectors are at one MCS    *)
(* lock at a time (UncontendedSpec): Locks say who holds which tuple and   *)
(* that the tree has the latest one of each key, Places in which queue each*)
(* tuple is, if RCU does not have it.                                      *)
(***************************************************************************)
EXTENDS Versions, FiniteSetTheorems, SequenceTheorems, WellFoundedInduction, TLAPS

M == ReadOnlyEpochMultiplier
Span == CoreSpan * NumSpan

LEMMA Quotient ==
    ASSUME NEW a \in Nat, NEW b \in Nat \ {0}
    PROVE  /\ a \div b \in Nat
           /\ b * (a \div b) <= a /\ a < b * ((a \div b) + 1)
BY SMTT(30)

LEMMA QuotientIs ==
    ASSUME NEW a \in Nat, NEW b \in Nat \ {0}, NEW q \in Nat, b * q <= a, a < b * (q + 1)
    PROVE  a \div b = q
BY SMTT(30)

LEMMA RemainderIs ==
    ASSUME NEW a \in Nat, NEW b \in Nat \ {0}, NEW q \in Nat, NEW r \in 0..(b - 1), a = b * q + r
    PROVE  a \div b = q /\ a % b = r
BY SMTT(30)

LEMMA RemainderIn ==
    ASSUME NEW a \in Nat, NEW b \in Nat \ {0}
    PROVE  a % b \in 0..(b - 1)
BY SMTT(30)

LEMMA QuotientMono ==
    ASSUME NEW b \in Nat \ {0}, NEW p \in Nat, NEW q \in Nat, p <= q
    PROVE  p \div b <= q \div b
BY SMTT(30)

LEMMA Product ==
    ASSUME NEW a \in Nat, NEW b \in Nat, NEW c \in Nat
    PROVE  /\ a * (b + c) = a * b + a * c
           /\ a * (b * c) = (a * b) * c
           /\ a * b \in Nat
           /\ b <= c => a * b <= a * c
BY SMTT(30)

LEMMA Spans == /\ CoreSpan \in Nat \ {0} /\ NumSpan \in Nat \ {0} /\ Span \in Nat \ {0}
               /\ M \in Nat \ {0} /\ MaxTick \in Nat \ {0} /\ MaxTxns \in Nat
               /\ Cores \subseteq 0..(CoreSpan - 1) /\ MaxTxns + 1 < NumSpan
<1>1. NumSpan \in Nat \ {0}
  BY VersionsAssumption
<1>2. Span \in Nat \ {0}
  BY <1>1, VersionsAssumption, SMTT(30) DEF Span
<1> QED
  BY <1>1, <1>2, VersionsAssumption DEF M

(* The fields of a commit id.                                              *)
LEMMA TidFields ==
    ASSUME NEW c \in 0..(CoreSpan - 1), NEW n \in 0..(NumSpan - 1), NEW e \in Nat
    PROVE  /\ MakeTid(c, n, e) \in Nat
           /\ NumId(MakeTid(c, n, e)) = n
           /\ EpochId(MakeTid(c, n, e)) = e
<1> DEFINE u == n + NumSpan * e
           v == c + CoreSpan * u
<1>1. u \in Nat /\ NumSpan * e \in Nat
  BY Spans, Product
<1>2. v \in Nat /\ CoreSpan * u \in Nat
  BY <1>1, Spans, Product
<1>3. v \div CoreSpan = u
  BY <1>1, <1>2, Spans, RemainderIs
<1>4. u % NumSpan = n /\ u \div NumSpan = e
  BY <1>1, Spans, RemainderIs
<1>5. Span * e \in Nat /\ CoreSpan * u = CoreSpan * n + Span * e /\ CoreSpan * n \in Nat
  <2>1. CoreSpan * (n + NumSpan * e) = CoreSpan * n + CoreSpan * (NumSpan * e)
    BY <1>1, Spans, Product
  <2>2. CoreSpan * (NumSpan * e) = Span * e
    BY Spans, Product DEF Span
  <2> QED
    BY <2>1, <2>2, Spans, Product
<1>6. c + CoreSpan * n < Span
  <2>1. CoreSpan * (n + 1) <= CoreSpan * NumSpan
    BY Spans, Product
  <2>2. CoreSpan * (n + 1) = CoreSpan * n + CoreSpan
    BY Spans, SMTT(30)
  <2> QED
    BY <2>1, <2>2, Spans, Product DEF Span
<1>7. Span * (e + 1) = Span * e + Span
  BY Spans, SMTT(30)
<1>8. v \div Span = e
  <2>1. Span * e <= v /\ v < Span * (e + 1)
    BY <1>5, <1>6, <1>7, Spans
  <2> QED
    BY <1>2, <2>1, Spans, QuotientIs
<1> QED
  BY <1>2, <1>3, <1>4, <1>8 DEF MakeTid, NumId, EpochId, Span

LEMMA EpochMono ==
    ASSUME NEW v \in Nat, NEW w \in Nat
    PROVE  /\ EpochId(v) \in Nat /\ NumId(v) \in 0..(NumSpan - 1)
           /\ v <= w => EpochId(v) <= EpochId(w)
<1>1. EpochId(v) \in Nat /\ (v <= w => EpochId(v) <= EpochId(w))
  BY Spans, Quotient, QuotientMono DEF EpochId, Span
<1>2. v \div CoreSpan \in Nat
  BY Spans, Quotient
<1> QED
  BY <1>1, <1>2, Spans, RemainderIn DEF NumId

(* Read-only ticks.                                                        *)
LEMMA ReadOnly ==
    ASSUME NEW a \in Nat, NEW b \in Nat
    PROVE  /\ to_read_only_tick(a) \in Nat
           /\ M * to_read_only_tick(a) <= a /\ a < M * to_read_only_tick(a) + M
           /\ M * to_read_only_tick(a) \in Nat
           /\ a <= b => to_read_only_tick(a) <= to_read_only_tick(b)
<1>1. /\ a \div M \in Nat /\ M * (a \div M) <= a /\ a < M * ((a \div M) + 1)
      /\ a <= b => a \div M <= b \div M
  BY Spans, Quotient, QuotientMono
<1>2. M * ((a \div M) + 1) = M * (a \div M) + M
  BY <1>1, Spans, SMTT(30)
<1>3. M * (a \div M) \in Nat
  BY <1>1, Spans, Product
<1> QED
  BY <1>1, <1>2, <1>3 DEF to_read_only_tick, M

(* Natural numbers have a least one, and so a bounded set has a largest.   *)
LEMMA Smallest ==
    ASSUME NEW T, T \subseteq Nat, T # {}
    PROVE  \E x \in T : \A y \in T : x <= y
<1> DEFINE R == StrictSubsetOrdering(Nat)
           I(n) == {m \in Nat : m < n}
           U == {I(n) : n \in T}
<1>1. \A n \in Nat : IsFiniteSet(I(n))
  <2> TAKE n \in Nat
  <2>1. I(n) = 0..(n - 1) /\ 0 \in Int /\ n - 1 \in Int
    OBVIOUS
  <2>2. IsFiniteSet(0..(n - 1))
    BY <2>1, FS_Interval
  <2> QED
    BY <2>1, <2>2
<1>2. U \subseteq FiniteSubsetsOf(Nat) /\ U # {}
  BY <1>1 DEF FiniteSubsetsOf
<1>3. IsWellFoundedOn(R, FiniteSubsetsOf(Nat))
  BY FS_StrictSubsetOrderingWellFounded
<1> HIDE DEF U, R
<1>4. PICK u \in U : \A v \in U : ~(<<v, u>> \in R)
  BY <1>2, <1>3, WFMin
<1>5. PICK x \in T : u = I(x)
  BY DEF U
<1>6. ASSUME NEW y \in T, ~(x <= y) PROVE FALSE
  <2>1. I(y) \in U
    BY DEF U
  <2>2. x \in Nat /\ y \in Nat /\ y < x
    BY <1>6
  <2>3. y \in I(x) /\ y \notin I(y) /\ I(y) \subseteq I(x) /\ I(x) \subseteq Nat
    BY <2>2
  <2>4. <<I(y), I(x)>> \in R
    BY <2>3 DEF R, StrictSubsetOrdering
  <2> QED
    BY <1>4, <1>5, <2>1, <2>4
<1> QED
  BY <1>6

LEMMA Largest ==
    ASSUME NEW k \in Nat, NEW T, T \subseteq 0..k, T # {}
    PROVE  \E x \in T : \A y \in T : y <= x
<1> DEFINE U == {k - t : t \in T}
<1>1. U \subseteq Nat /\ U # {}
  <2>1. \A t \in T : k - t \in Nat
    OBVIOUS
  <2> QED
    BY <2>1
<1>2. PICK u \in U : \A v \in U : u <= v
  BY <1>1, Smallest
<1>3. PICK x \in T : u = k - x
  OBVIOUS
<1>4. ASSUME NEW y \in T PROVE y <= x
  <2>1. k - y \in U
    OBVIOUS
  <2>2. k - x <= k - y
    BY <1>2, <1>3, <2>1
  <2> QED
    BY <2>2
<1> QED
  BY <1>4

-----------------------------------------------------------------------------
(* Types.                                                                  *)
Tuples == [key : Keys, version : Nat, next : Nat, latest : BOOLEAN, deleting : BOOLEAN,
           locked : BOOLEAN, m_lock : Keys]
Entries == [tuple : Nat, tick : Nat, key : BOOLEAN]
Installs == [tid : Nat, deleted : BOOLEAN]
ProgramSet == [snapshot : BOOLEAN, reads : SUBSET Keys, writes : SUBSET Keys]
Partial == UNION {[K -> Nat] : K \in SUBSET Keys}

Writing == {"run", "validate", "gen_tid", "install"}
Reading == {"begin", "snapshot", "walk"}
Examining == {"spin", "locked", "remove", "release"}
Collecting == {"collect", "wait"} \cup Examining
Pcs == Writing \cup Reading \cup Collecting \cup {"idle", "committed", "end", "post"}
TxnStates == [pc : Pcs, prog : ProgramSet, refs : Partial, got : Partial, t : Nat,
              todo : SUBSET Keys, key : Keys \cup {Nil}, at : Nat]

(* What belongs to each phase of a transaction.                            *)
Shape(x) ==
    /\ x.pc \in Writing => /\ ~x.prog.snapshot
                           /\ DOMAIN x.refs \subseteq x.prog.reads \cup x.prog.writes
                           /\ DOMAIN x.got = DOMAIN x.refs \cap x.prog.reads
    /\ x.pc \in Writing \ {"run"} => DOMAIN x.refs = x.prog.reads \cup x.prog.writes
    /\ x.pc = "install" => x.todo \subseteq x.prog.writes
    /\ x.pc \in Reading => x.prog.snapshot /\ DOMAIN x.refs = {}
    /\ x.pc = "begin" => DOMAIN x.got = {}
    /\ x.pc = "walk" => x.at # Nil /\ x.key \in x.prog.reads \ DOMAIN x.got
    /\ x.pc # "walk" => x.at = Nil
    /\ x.pc = "end" => ~x.prog.snapshot
    /\ x.prog.snapshot => x.pc \in Reading \cup {"committed"} /\ DOMAIN x.refs = {}
    /\ x.pc \in Collecting \cup {"idle", "post"} => x = [Idle EXCEPT !.pc = x.pc]

HeapTypes ==
    /\ heap \in Seq(Tuples) /\ tree \in [Keys -> Nat]
    /\ \A i \in DOMAIN heap : heap[i].next \in DOMAIN heap \cup {Nil}
    /\ \A k \in Keys : tree[k] \in DOMAIN heap \cup {Nil}
TxnTypes ==
    /\ txn \in [Cores -> TxnStates] /\ \A c \in Cores : Shape(txn[c])
    /\ \A c \in Cores : \A k \in DOMAIN txn[c].refs : txn[c].refs[k] \in DOMAIN heap
    /\ \A c \in Cores : txn[c].at \in DOMAIN heap \cup {Nil}
GcTypes ==
    /\ queue \in [Cores -> Seq(Entries)] /\ scratch \in [Cores -> Seq(Entries)]
    /\ \A c \in Cores : \A n \in DOMAIN queue[c] : queue[c][n].tuple \in DOMAIN heap
    /\ \A c \in Cores : \A n \in DOMAIN scratch[c] : scratch[c][n].tuple \in DOMAIN heap
    /\ \A c \in Cores : txn[c].pc \notin Collecting => scratch[c] = <<>>
    /\ \A c \in Cores : txn[c].pc \in Examining \cup {"wait"} =>
          scratch[c] # <<>> /\ Head(scratch[c]).key
    /\ reaped \in [Cores -> Int] /\ mcs \in [Keys -> Seq(Cores)]
    /\ retired \subseteq [tuple : DOMAIN heap, regions : SUBSET Cores] /\ freed \subseteq DOMAIN heap
MiscTypes ==
    /\ last_commit_tid \in [Cores -> Nat] /\ begun \in 0..MaxTxns
    /\ installs \in [Keys -> Seq(Installs)]
    /\ now \in 1..MaxTick /\ over \in {now - 2, now - 1} /\ over \in Nat
    /\ region \in [Cores -> 0..MaxTick]
    /\ \A c \in Cores : region[c] # None => over < region[c] /\ region[c] <= now
    /\ \A c \in Cores : txn[c].pc \in Writing \cup Reading \cup {"committed", "end"} =>
          region[c] # None
(* The first in the queue of an MCS lock examines its tombstone, the others*)
(* wait; whoever does either is in the queue, once.                        *)
McsInv ==
    /\ \A m \in Keys : \A n \in DOMAIN mcs[m] :
          /\ txn[mcs[m][n]].pc \in IF n = 1 THEN Examining ELSE {"wait"}
          /\ heap[Tombstone(mcs[m][n])].m_lock = m
    /\ \A m \in Keys : \A i, j \in DOMAIN mcs[m] : mcs[m][i] = mcs[m][j] => i = j
    /\ \A c \in Cores : txn[c].pc \in Examining \cup {"wait"} =>
          \E n \in DOMAIN mcs[heap[Tombstone(c)].m_lock] : mcs[heap[Tombstone(c)].m_lock][n] = c
Types == HeapTypes /\ TxnTypes /\ GcTypes /\ MiscTypes /\ McsInv

OthersSame(c) ==
    txn' = [d \in Cores |-> txn'[d]] /\ \A d \in Cores \ {c} : txn'[d] = txn[d]

LEMMA SetTxn ==
    ASSUME txn \in [Cores -> TxnStates], NEW c \in Cores, NEW z,
           txn' = [txn EXCEPT ![c] = z]
    PROVE  txn'[c] = z /\ OthersSame(c)
BY DEF OthersSame

(* Only the place of a transaction changes.                                *)
Goes(c, p) ==
    /\ txn'[c] = [txn[c] EXCEPT !.pc = p]
    /\ OthersSame(c)

LEMMA GoStep ==
    ASSUME txn \in [Cores -> TxnStates], NEW c \in Cores, NEW p, Go(c, p)
    PROVE  Goes(c, p)
<1>1. txn' = [txn EXCEPT ![c] = [txn[c] EXCEPT !.pc = p]]
  BY DEF Go
<1> QED
  BY <1>1, SetTxn DEF Goes

LEMMA NewPc ==
    ASSUME NEW x \in TxnStates, NEW p \in Pcs
    PROVE  LET z == [x EXCEPT !.pc = p]
           IN  /\ z \in TxnStates
               /\ z.pc = p /\ z.prog = x.prog /\ z.refs = x.refs /\ z.got = x.got
               /\ z.t = x.t /\ z.todo = x.todo /\ z.key = x.key /\ z.at = x.at
BY DEF TxnStates

LEMMA IdleState ==
    /\ Idle \in TxnStates
    /\ \A p \in Pcs : LET z == [Idle EXCEPT !.pc = p]
                      IN  z \in TxnStates /\ z.pc = p /\ ~z.prog.snapshot /\ z.at = Nil
                          /\ DOMAIN z.refs = {} /\ DOMAIN z.got = {} /\ z.t = MIN_TID
<1>1. <<>> \in [{} -> Nat]
  OBVIOUS
<1>2. <<>> \in Partial
  BY <1>1 DEF Partial
<1>3. Idle.prog \in ProgramSet
  BY DEF Idle, ProgramSet
<1>4. Idle \in TxnStates
  BY <1>2, <1>3 DEF Idle, TxnStates, Pcs, Nil, MIN_TID, ProgramSet
<1>5. ASSUME NEW p \in Pcs
      PROVE  LET z == [Idle EXCEPT !.pc = p]
             IN  z \in TxnStates /\ z.pc = p /\ ~z.prog.snapshot /\ z.at = Nil
                 /\ DOMAIN z.refs = {} /\ DOMAIN z.got = {} /\ z.t = MIN_TID
  <2>1. /\ ~Idle.prog.snapshot /\ Idle.at = Nil /\ DOMAIN Idle.refs = {} /\ DOMAIN Idle.got = {}
        /\ Idle.t = MIN_TID
    BY DEF Idle
  <2> QED
    BY <1>4, <2>1, NewPc
<1> QED
  BY <1>4, <1>5

LEMMA WithType ==
    ASSUME NEW f \in Partial, NEW k \in Keys, NEW v \in Nat
    PROVE  /\ With(f, k, v) \in Partial
           /\ DOMAIN With(f, k, v) = DOMAIN f \cup {k}
           /\ With(f, k, v)[k] = v
           /\ \A j \in DOMAIN f \ {k} : With(f, k, v)[j] = f[j]
<1>1. PICK K \in SUBSET Keys : f \in [K -> Nat]
  BY DEF Partial
<1>2. With(f, k, v) \in [K \cup {k} -> Nat]
  BY <1>1 DEF With
<1>3. K \cup {k} \in SUBSET Keys
  BY <1>1
<1> QED
  BY <1>1, <1>2, <1>3 DEF With, Partial

-----------------------------------------------------------------------------
(* How the heap changes.                                                   *)
LEMMA HeapLen ==
    ASSUME NEW h \in Seq(Tuples)
    PROVE  /\ Len(h) \in Nat /\ DOMAIN h = 1..Len(h)
           /\ \A i \in DOMAIN h : h[i] \in Tuples /\ i \in Nat /\ i # Nil
BY DEF Nil

LEMMA TupleFields ==
    ASSUME NEW n \in Tuples
    PROVE  /\ n.key \in Keys /\ n.version \in Nat /\ n.next \in Nat /\ n.latest \in BOOLEAN
           /\ n.deleting \in BOOLEAN /\ n.locked \in BOOLEAN /\ n.m_lock \in Keys
BY DEF Tuples

(* All of a tuple but its lock.                                            *)
SameTuple(i) ==
    /\ heap'[i].key = heap[i].key /\ heap'[i].version = heap[i].version
    /\ heap'[i].next = heap[i].next /\ heap'[i].latest = heap[i].latest
    /\ heap'[i].deleting = heap[i].deleting /\ heap'[i].m_lock = heap[i].m_lock
LocksSet(S, b) ==
    /\ heap' \in Seq(Tuples) /\ DOMAIN heap' = DOMAIN heap /\ Len(heap') = Len(heap)
    /\ \A i \in DOMAIN heap :
          SameTuple(i) /\ heap'[i].locked = IF i \in S THEN b ELSE heap[i].locked

LEMMA SetLocksStep ==
    ASSUME heap \in Seq(Tuples), NEW S, NEW b \in BOOLEAN, SetLocks(S, b)
    PROVE  LocksSet(S, b)
<1>1. DOMAIN heap = 1..Len(heap) /\ Len(heap) \in Nat
  BY HeapLen
<1>2. heap' = [i \in 1..Len(heap) |-> IF i \in S THEN [heap[i] EXCEPT !.locked = b] ELSE heap[i]]
  BY <1>1 DEF SetLocks
<1>3. ASSUME NEW i \in DOMAIN heap
      PROVE  /\ heap'[i] \in Tuples /\ SameTuple(i)
             /\ heap'[i].locked = IF i \in S THEN b ELSE heap[i].locked
  <2>1. heap[i] \in Tuples
    BY HeapLen
  <2>2. CASE i \in S
    <3>1. heap'[i] = [heap[i] EXCEPT !.locked = b]
      BY <1>1, <1>2, <2>2
    <3> QED
      BY <2>1, <2>2, <3>1 DEF Tuples, SameTuple
  <2>3. CASE i \notin S
    <3>1. heap'[i] = heap[i]
      BY <1>1, <1>2, <2>3
    <3> QED
      BY <2>1, <2>3, <3>1 DEF SameTuple
  <2> QED
    BY <2>2, <2>3
<1>4. heap' \in [1..Len(heap) -> Tuples]
  BY <1>1, <1>2, <1>3
<1>5. heap' \in Seq(Tuples) /\ Len(heap') = Len(heap) /\ DOMAIN heap' = DOMAIN heap
  BY <1>1, <1>4
<1> QED
  BY <1>3, <1>5 DEF LocksSet

(* A tuple that changes, and one behind the last.                          *)
LEMMA Changed ==
    ASSUME NEW h \in Seq(Tuples), NEW i \in DOMAIN h, NEW e \in Tuples
    PROVE  LET g == [h EXCEPT ![i] = e]
           IN  /\ g \in Seq(Tuples) /\ DOMAIN g = DOMAIN h /\ Len(g) = Len(h) /\ g[i] = e
               /\ \A j \in DOMAIN h \ {i} : g[j] = h[j]
<1> DEFINE g == [h EXCEPT ![i] = e]
<1>1. h \in [1..Len(h) -> Tuples] /\ Len(h) \in Nat
  BY HeapLen
<1>2. g \in [1..Len(h) -> Tuples]
  BY <1>1
<1>3. g \in Seq(Tuples) /\ Len(g) = Len(h)
  BY <1>1, <1>2
<1> QED
  BY <1>1, <1>3

LEMMA Added ==
    ASSUME NEW h \in Seq(Tuples), NEW e \in Tuples
    PROVE  LET g == Append(h, e)
           IN  /\ g \in Seq(Tuples) /\ Len(g) = Len(h) + 1
               /\ DOMAIN g = DOMAIN h \cup {Len(h) + 1}
               /\ Len(h) + 1 \notin DOMAIN h /\ Len(h) + 1 \in Nat
               /\ g[Len(h) + 1] = e
               /\ \A j \in DOMAIN h : g[j] = h[j]
<1> DEFINE g == Append(h, e)
<1>1. g \in Seq(Tuples) /\ Len(g) = Len(h) + 1 /\ Len(h) \in Nat
  OBVIOUS
<1>2. DOMAIN g = 1..Len(g) /\ DOMAIN h = 1..Len(h)
  BY <1>1
<1>3. g[Len(h) + 1] = e /\ \A j \in 1..Len(h) : g[j] = h[j]
  OBVIOUS
<1> QED
  BY <1>1, <1>2, <1>3

(* The tuple that InstallInPlace leaves, and the copy it spills.           *)
Keep(c, k) == ~can_overwrite_record_tid(heap[txn[c].refs[k]].version, txn[c].t)
Overwritten(c, k, delete) ==
    LET i == txn[c].refs[k]
    IN  [heap[i] EXCEPT !.version = txn[c].t, !.deleting = delete, !.locked = FALSE,
                        !.next = IF Keep(c, k) THEN Len(heap) + 1 ELSE @]
Spilled(c, k) == [heap[txn[c].refs[k]] EXCEPT !.latest = FALSE, !.locked = FALSE]
InPlace(c, k, delete) ==
    LET i == txn[c].refs[k]
    IN  /\ heap' \in Seq(Tuples)
        /\ heap'[i] = Overwritten(c, k, delete)
        /\ \A j \in DOMAIN heap \ {i} : heap'[j] = heap[j]
        /\ Len(heap) + 1 \notin DOMAIN heap /\ Len(heap) + 1 \in Nat
        /\ IF Keep(c, k)
           THEN /\ DOMAIN heap' = DOMAIN heap \cup {Len(heap) + 1}
                /\ Len(heap') = Len(heap) + 1
                /\ heap'[Len(heap) + 1] = Spilled(c, k)
           ELSE DOMAIN heap' = DOMAIN heap /\ Len(heap') = Len(heap)

LEMMA InPlaceStep ==
    ASSUME heap \in Seq(Tuples), txn \in [Cores -> TxnStates], NEW c \in Cores,
           NEW k \in Keys, txn[c].refs[k] \in DOMAIN heap,
           NEW delete \in BOOLEAN, InstallInPlace(c, k, delete)
    PROVE  InPlace(c, k, delete)
<1> DEFINE i == txn[c].refs[k]
           e == Overwritten(c, k, delete)
           h == [heap EXCEPT ![i] = e]
<1>1. heap[i] \in Tuples /\ txn[c].t \in Nat /\ Len(heap) + 1 \in Nat
  BY HeapLen DEF TxnStates
<1>2. e \in Tuples /\ Spilled(c, k) \in Tuples
  BY <1>1 DEF Tuples, Overwritten, Spilled
<1>3. heap' = h \o EntryIf(Keep(c, k), Spilled(c, k))
  BY DEF InstallInPlace, Keep, Spilled, Overwritten
<1>4. /\ h \in Seq(Tuples) /\ DOMAIN h = DOMAIN heap /\ Len(h) = Len(heap) /\ h[i] = e
      /\ \A j \in DOMAIN heap \ {i} : h[j] = heap[j]
  BY <1>2, Changed
<1>5. Len(heap) + 1 \notin DOMAIN heap
  BY HeapLen
<1> HIDE DEF h, e
<1>6. CASE Keep(c, k)
  <2>1. heap' = Append(h, Spilled(c, k))
    BY <1>2, <1>3, <1>4, <1>6 DEF EntryIf
  <2> QED
    BY <1>1, <1>2, <1>4, <1>5, <1>6, <2>1, Added DEF InPlace, e
<1>7. CASE ~Keep(c, k)
  <2>1. heap' = h
    BY <1>3, <1>4, <1>7 DEF EntryIf
  <2> QED
    BY <1>1, <1>2, <1>4, <1>5, <1>7, <2>1 DEF InPlace, e
<1> QED
  BY <1>6, <1>7

(* The tuple that InstallReplacement leaves, and the one it adds.          *)
Superseded(i) == [heap[i] EXCEPT !.latest = FALSE, !.locked = FALSE]
Replacement(c, k, delete) ==
    LET i == txn[c].refs[k]
    IN  [heap[i] EXCEPT !.version = txn[c].t, !.next = i, !.deleting = delete, !.locked = FALSE]
Replaced(c, k, delete) ==
    LET i == txn[c].refs[k]
    IN  /\ heap' \in Seq(Tuples)
        /\ heap'[i] = Superseded(i)
        /\ \A j \in DOMAIN heap \ {i} : heap'[j] = heap[j]
        /\ Len(heap) + 1 \notin DOMAIN heap /\ Len(heap) + 1 \in Nat
        /\ DOMAIN heap' = DOMAIN heap \cup {Len(heap) + 1}
        /\ Len(heap') = Len(heap) + 1
        /\ heap'[Len(heap) + 1] = Replacement(c, k, delete)

LEMMA ReplacedStep ==
    ASSUME heap \in Seq(Tuples), txn \in [Cores -> TxnStates], NEW c \in Cores,
           NEW k \in Keys, txn[c].refs[k] \in DOMAIN heap,
           NEW delete \in BOOLEAN, InstallReplacement(c, k, delete)
    PROVE  Replaced(c, k, delete)
<1> DEFINE i == txn[c].refs[k]
           e == Superseded(i)
           n == Replacement(c, k, delete)
           h == [heap EXCEPT ![i] = e]
<1>1. heap[i] \in Tuples /\ txn[c].t \in Nat /\ i \in Nat
  BY HeapLen DEF TxnStates
<1>2. e \in Tuples /\ n \in Tuples
  BY <1>1 DEF Tuples, Superseded, Replacement
<1>3. heap' = Append(h, n)
  BY DEF InstallReplacement, Superseded, Replacement
<1>4. /\ h \in Seq(Tuples) /\ DOMAIN h = DOMAIN heap /\ Len(h) = Len(heap) /\ h[i] = e
      /\ \A j \in DOMAIN heap \ {i} : h[j] = heap[j]
  BY <1>2, Changed
<1>5. Len(heap) + 1 \notin DOMAIN heap
  BY HeapLen
<1> HIDE DEF h, e, n
<1> QED
  BY <1>2, <1>3, <1>4, <1>5, Added DEF Replaced, e, n

(* The tombstone that leaves the tree.                                     *)
Removed(i) == [heap[i] EXCEPT !.latest = FALSE]
LEMMA RemovedStep ==
    ASSUME heap \in Seq(Tuples), NEW c \in Cores, Tombstone(c) \in DOMAIN heap,
           RemoveTombstone(c)
    PROVE  LET i == Tombstone(c)
           IN  /\ heap' \in Seq(Tuples) /\ DOMAIN heap' = DOMAIN heap /\ Len(heap') = Len(heap)
               /\ heap'[i] = Removed(i)
               /\ \A j \in DOMAIN heap \ {i} : heap'[j] = heap[j]
<1> DEFINE i == Tombstone(c)
<1>1. heap' = [heap EXCEPT ![i] = Removed(i)]
  BY DEF RemoveTombstone, Removed
<1>2. Removed(i) \in Tuples
  <2>1. heap[i] \in Tuples
    BY HeapLen
  <2> QED
    BY <2>1 DEF Tuples, Removed
<1> QED
  BY <1>1, <1>2, Changed

-----------------------------------------------------------------------------
(* How a transaction changes.                                              *)
BeginState(p) == [Idle EXCEPT !.prog = p, !.pc = IF p.snapshot THEN "begin" ELSE "run"]
AccessState(c, k) ==
    [txn[c] EXCEPT !.refs = With(@, k, tree[k]),
                   !.got = IF k \in txn[c].prog.reads THEN With(@, k, heap[tree[k]].version) ELSE @]
DrawState(c, tid) == [txn[c] EXCEPT !.pc = "install", !.t = tid, !.todo = txn[c].prog.writes]
InstalledState(c, k) ==
    [txn[c] EXCEPT !.todo = @ \ {k}, !.pc = IF txn[c].todo = {k} THEN "committed" ELSE @]
SnapState(c) ==
    [txn[c] EXCEPT !.pc = "snapshot", !.t = ComputeReadOnlyTid(global_last_tick_exclusive)]
FindState(c, k) ==
    IF tree[k] = Nil THEN [txn[c] EXCEPT !.got = With(@, k, MIN_TID)]
    ELSE [txn[c] EXCEPT !.pc = "walk", !.key = k, !.at = tree[k]]
FoundState(c, v) ==
    [txn[c] EXCEPT !.pc = "snapshot", !.got = With(@, txn[c].key, v), !.at = Nil]
WalkState(c) ==
    LET n == heap[txn[c].at]
    IN  IF n.version <= txn[c].t THEN FoundState(c, IF n.deleting THEN MIN_TID ELSE n.version)
        ELSE IF n.next = Nil THEN FoundState(c, MIN_TID)
        ELSE [txn[c] EXCEPT !.at = n.next]

LEMMA BeginStep ==
    ASSUME Types, NEW c \in Cores, Begin(c)
    PROVE  \E p \in ProgramSet : txn'[c] = BeginState(p) /\ OthersSame(c)
<1>1. PICK p \in Programs[c] : txn' = [txn EXCEPT ![c] = BeginState(p)]
  BY DEF Begin, BeginState
<1>2. p \in ProgramSet
  BY VersionsAssumption DEF ProgramSet
<1> QED
  BY <1>1, <1>2, SetTxn DEF Types, TxnTypes

LEMMA AccessStep ==
    ASSUME Types, NEW c \in Cores, NEW k \in Keys, Access(c, k)
    PROVE  txn'[c] = AccessState(c, k) /\ OthersSame(c)
<1>1. txn' = [txn EXCEPT ![c] = AccessState(c, k)]
  BY DEF Access, AccessState, Types, TxnTypes
<1> QED
  BY <1>1, SetTxn DEF Types, TxnTypes

LEMMA InstalledStep ==
    ASSUME Types, NEW c \in Cores, NEW k \in Keys, NEW delete, NEW entries,
           Installed(c, k, delete, entries)
    PROVE  txn'[c] = InstalledState(c, k) /\ OthersSame(c)
<1>1. txn' = [txn EXCEPT ![c] = InstalledState(c, k)]
  BY DEF Installed, InstalledState, Types, TxnTypes
<1> QED
  BY <1>1, SetTxn DEF Types, TxnTypes

LEMMA TakeSnapshotStep ==
    ASSUME Types, NEW c \in Cores, TakeSnapshot(c)
    PROVE  txn'[c] = SnapState(c) /\ OthersSame(c)
<1>1. txn' = [txn EXCEPT ![c] = SnapState(c)]
  BY DEF TakeSnapshot, SnapState, Types, TxnTypes
<1> QED
  BY <1>1, SetTxn DEF Types, TxnTypes

LEMMA FindHeadStep ==
    ASSUME Types, NEW c \in Cores, NEW k \in Keys, FindHead(c, k)
    PROVE  txn'[c] = FindState(c, k) /\ OthersSame(c)
<1>1. txn' = [txn EXCEPT ![c] = FindState(c, k)]
  BY DEF FindHead, FindState, Types, TxnTypes
<1> QED
  BY <1>1, SetTxn DEF Types, TxnTypes

LEMMA WalkStep ==
    ASSUME Types, NEW c \in Cores, Walk(c)
    PROVE  txn'[c] = WalkState(c) /\ OthersSame(c)
<1>1. txn' = [txn EXCEPT ![c] = WalkState(c)]
  <2> DEFINE n == heap[txn[c].at]
  <2>1. CASE n.version <= txn[c].t
    BY <2>1 DEF Walk, WalkState, FoundState, Types, TxnTypes
  <2>2. CASE ~(n.version <= txn[c].t) /\ n.next = Nil
    BY <2>2 DEF Walk, WalkState, FoundState, Types, TxnTypes
  <2>3. CASE ~(n.version <= txn[c].t) /\ n.next # Nil
    BY <2>3 DEF Walk, WalkState, FoundState, Types, TxnTypes
  <2> QED
    BY <2>1, <2>2, <2>3
<1> QED
  BY <1>1, SetTxn DEF Types, TxnTypes

LEMMA EndTxnStep ==
    ASSUME Types, NEW c \in Cores, EndTxn(c)
    PROVE  txn'[c] = [Idle EXCEPT !.pc = "post"] /\ OthersSame(c)
<1>1. txn' = [txn EXCEPT ![c] = [Idle EXCEPT !.pc = "post"]]
  BY DEF EndTxn
<1> QED
  BY <1>1, SetTxn DEF Types, TxnTypes

(* The number of a commit id is one above those that were met in its tick. *)
Met(c) ==
    {last_commit_tid[c]} \cup {txn[c].got[k] : k \in DOMAIN txn[c].got}
        \cup {heap[i].version : i \in Writes(c)}
Nums(c) == {0} \cup {NumId(t) : t \in {u \in Met(c) : EpochId(u) = now}}

LEMMA MetTypes ==
    ASSUME Types, NEW c \in Cores, txn[c].pc \in {"validate", "gen_tid", "install"}
    PROVE  /\ txn[c].prog.writes \subseteq DOMAIN txn[c].refs
           /\ Writes(c) \subseteq DOMAIN heap
           /\ Met(c) \subseteq Nat
<1> DEFINE x == txn[c]
<1>1. x \in TxnStates /\ Shape(x)
  BY DEF Types, TxnTypes
<1>2. x.prog.writes \subseteq DOMAIN x.refs
  BY <1>1 DEF Shape, Writing
<1>3. Writes(c) \subseteq DOMAIN heap
  BY <1>2 DEF Writes, Types, TxnTypes
<1>4. \A i \in DOMAIN heap : heap[i].version \in Nat
  BY HeapLen, TupleFields DEF Types, HeapTypes
<1>5. \A k \in DOMAIN x.got : x.got[k] \in Nat
  <2>1. PICK K \in SUBSET Keys : x.got \in [K -> Nat]
    BY <1>1 DEF TxnStates, Partial
  <2> QED
    BY <2>1
<1>6. last_commit_tid[c] \in Nat
  BY DEF Types, MiscTypes
<1> QED
  BY <1>2, <1>3, <1>4, <1>5, <1>6 DEF Met

LEMMA GenStep ==
    ASSUME Types, NEW c \in Cores, gen_commit_tid(c)
    PROVE  \E num \in Nums(c) :
              /\ num \in 0..(NumSpan - 1) /\ \A m \in Nums(c) : m <= num
              /\ txn'[c] = DrawState(c, MakeTid(c, num + 1, now)) /\ OthersSame(c)
              /\ last_commit_tid' = [last_commit_tid EXCEPT ![c] = MakeTid(c, num + 1, now)]
<1> DEFINE num == CHOOSE n \in Nums(c) : \A m \in Nums(c) : m <= n
<1>1. Met(c) \subseteq Nat
  BY MetTypes DEF gen_commit_tid
<1>2. Nums(c) \subseteq 0..(NumSpan - 1) /\ Nums(c) # {}
  BY <1>1, EpochMono, Spans DEF Nums
<1>3. \E n \in Nums(c) : \A m \in Nums(c) : m <= n
  <2>1. NumSpan - 1 \in Nat
    BY Spans
  <2> QED
    BY <1>2, <2>1, Largest
<1>4. num \in Nums(c) /\ \A m \in Nums(c) : m <= num
  BY <1>3
<1>5. /\ txn' = [txn EXCEPT ![c].pc = "install", ![c].t = MakeTid(c, num + 1, now),
                             ![c].todo = txn[c].prog.writes]
      /\ last_commit_tid' = [last_commit_tid EXCEPT ![c] = MakeTid(c, num + 1, now)]
  BY DEF gen_commit_tid, CommitEpoch, Nums, Met
<1> HIDE DEF num
<1>6. txn' = [txn EXCEPT ![c] = DrawState(c, MakeTid(c, num + 1, now))]
  <2> DEFINE tid == MakeTid(c, num + 1, now)
  <2> HIDE DEF tid
  <2>1. txn' = [txn EXCEPT ![c].pc = "install", ![c].t = tid, ![c].todo = txn[c].prog.writes]
    BY <1>5 DEF tid
  <2>2. txn' = [txn EXCEPT ![c] = DrawState(c, tid)]
    BY <2>1 DEF DrawState, Types, TxnTypes
  <2> QED
    BY <2>2 DEF tid
<1>7. txn'[c] = DrawState(c, MakeTid(c, num + 1, now)) /\ OthersSame(c)
  BY <1>6, SetTxn DEF Types, TxnTypes
<1> QED
  BY <1>2, <1>4, <1>5, <1>7

-----------------------------------------------------------------------------
(* Transactions keep their types.                                          *)
Refs(x) == \A k \in DOMAIN x.refs : x.refs[k] \in DOMAIN heap
At(x) == x.at \in DOMAIN heap \cup {Nil}
Grows == DOMAIN heap \subseteq DOMAIN heap'

LEMMA TxnKept ==
    ASSUME TxnTypes, Grows, NEW c \in Cores, OthersSame(c),
           txn'[c] \in TxnStates, Shape(txn'[c]),
           \A k \in DOMAIN txn'[c].refs : txn'[c].refs[k] \in DOMAIN heap',
           txn'[c].at \in DOMAIN heap' \cup {Nil}
    PROVE  TxnTypes' /\ txn' \in [Cores -> TxnStates]
<1>1. txn' = [d \in Cores |-> txn'[d]]
  BY DEF OthersSame
<1>2. \A d \in Cores : txn'[d] \in TxnStates /\ Shape(txn'[d])
  BY DEF TxnTypes, OthersSame
<1>3. \A d \in Cores : /\ \A k \in DOMAIN txn'[d].refs : txn'[d].refs[k] \in DOMAIN heap'
                       /\ txn'[d].at \in DOMAIN heap' \cup {Nil}
  BY DEF TxnTypes, OthersSame, Grows
<1>4. txn' \in [Cores -> TxnStates]
  BY <1>1, <1>2
<1> QED
  BY <1>2, <1>3, <1>4 DEF TxnTypes

LEMMA TxnSame ==
    ASSUME TxnTypes, Grows, UNCHANGED txn
    PROVE  TxnTypes'
BY DEF TxnTypes, Grows

LEMMA TxnFields ==
    ASSUME NEW x \in TxnStates
    PROVE  /\ x.pc \in Pcs /\ x.prog \in ProgramSet /\ x.refs \in Partial /\ x.got \in Partial
           /\ x.t \in Nat /\ x.todo \in SUBSET Keys /\ x.key \in Keys \cup {Nil} /\ x.at \in Nat
           /\ x.prog.reads \in SUBSET Keys /\ x.prog.writes \in SUBSET Keys
           /\ x.prog.snapshot \in BOOLEAN
           /\ DOMAIN x.refs \in SUBSET Keys /\ DOMAIN x.got \in SUBSET Keys
           /\ \A k \in DOMAIN x.refs : x.refs[k] \in Nat
           /\ \A k \in DOMAIN x.got : x.got[k] \in Nat
<1>1. PICK K \in SUBSET Keys : x.refs \in [K -> Nat]
  BY DEF TxnStates, Partial
<1>2. PICK G \in SUBSET Keys : x.got \in [G -> Nat]
  BY DEF TxnStates, Partial
<1> QED
  BY <1>1, <1>2 DEF TxnStates, ProgramSet

(* A step that only changes the place of a transaction that keeps its      *)
(* phase's shape.                                                          *)
LEMMA GoesTypes ==
    ASSUME TxnTypes, Grows, NEW c \in Cores, NEW p \in Pcs, Goes(c, p),
           Shape([txn[c] EXCEPT !.pc = p])
    PROVE  TxnTypes'
<1> DEFINE z == [txn[c] EXCEPT !.pc = p]
<1>1. z \in TxnStates /\ z.refs = txn[c].refs /\ z.at = txn[c].at
  BY NewPc DEF TxnTypes
<1> HIDE DEF z
<1>2. txn'[c] = z /\ OthersSame(c) /\ Shape(z)
  BY DEF Goes, z
<1>3. \A k \in DOMAIN z.refs : z.refs[k] \in DOMAIN heap'
  BY <1>1 DEF TxnTypes, Grows
<1>4. z.at \in DOMAIN heap' \cup {Nil}
  BY <1>1 DEF TxnTypes, Grows
<1> QED
  BY <1>1, <1>2, <1>3, <1>4, TxnKept

(* Which places follow which.                                              *)
Follows(x, p) ==
    \/ x.pc = "run" /\ p \in {"validate", "end"} /\ (p = "validate" => DOMAIN x.refs = x.prog.reads \cup x.prog.writes)
    \/ x.pc = "validate" /\ p \in {"gen_tid", "end"}
    \/ x.pc = "snapshot" /\ p = "committed"
    \/ x.pc \in Collecting \cup {"post"} /\ p \in Collecting \cup {"idle"}

LEMMA FollowsShape ==
    ASSUME NEW x \in TxnStates, Shape(x), NEW p \in Pcs, Follows(x, p)
    PROVE  Shape([x EXCEPT !.pc = p])
<1> DEFINE z == [x EXCEPT !.pc = p]
<1>1. /\ z.pc = p /\ z.prog = x.prog /\ z.refs = x.refs /\ z.got = x.got
      /\ z.t = x.t /\ z.todo = x.todo /\ z.key = x.key /\ z.at = x.at
  BY NewPc
<1>2. x.pc \in Collecting \cup {"post"} => z = [Idle EXCEPT !.pc = z.pc]
  <2>1. ASSUME x = [Idle EXCEPT !.pc = x.pc] PROVE z = [Idle EXCEPT !.pc = p]
    <3>1. \A q \in Pcs : [[Idle EXCEPT !.pc = x.pc] EXCEPT !.pc = q] = [Idle EXCEPT !.pc = q]
      BY DEF Idle
    <3> QED
      BY <2>1, <3>1
  <2> QED
    BY <1>1, <2>1 DEF Shape
<1>3. x.pc \in Collecting \cup {"post"} =>
          ~x.prog.snapshot /\ x.at = Nil /\ DOMAIN x.refs = {} /\ DOMAIN x.got = {}
  <2> SUFFICES ASSUME x.pc \in Collecting \cup {"post"}
               PROVE  ~x.prog.snapshot /\ x.at = Nil /\ DOMAIN x.refs = {} /\ DOMAIN x.got = {}
    OBVIOUS
  <2> DEFINE y == [Idle EXCEPT !.pc = x.pc]
  <2>1. x.pc \in Pcs
    BY TxnFields
  <2>2. ~y.prog.snapshot /\ y.at = Nil /\ DOMAIN y.refs = {} /\ DOMAIN y.got = {}
    BY <2>1, IdleState
  <2>3. x = y
    BY DEF Shape
  <2> HIDE DEF y
  <2> QED
    BY <2>2, <2>3
<1> HIDE DEF z
<1>4. CASE x.pc \in Collecting \cup {"post"}
  BY <1>1, <1>2, <1>3, <1>4 DEF Shape, Follows, Writing, Reading, Collecting, Examining, z
<1>5. CASE x.pc \notin Collecting \cup {"post"}
  BY <1>1, <1>5 DEF Shape, Follows, Writing, Reading, Collecting, Examining, z
<1> QED
  BY <1>4, <1>5

LEMMA FollowsTypes ==
    ASSUME TxnTypes, Grows, NEW c \in Cores, NEW p \in Pcs, Go(c, p), Follows(txn[c], p)
    PROVE  TxnTypes' /\ Goes(c, p)
<1>1. txn[c] \in TxnStates /\ Shape(txn[c]) /\ txn \in [Cores -> TxnStates]
  BY DEF TxnTypes
<1> QED
  BY <1>1, GoStep, FollowsShape, GoesTypes

LEMMA TombstoneTypes ==
    ASSUME Types, NEW c \in Cores, scratch[c] # <<>>
    PROVE  /\ Tombstone(c) \in DOMAIN heap /\ heap[Tombstone(c)] \in Tuples
           /\ heap[Tombstone(c)].m_lock \in Keys
           /\ Head(scratch[c]) \in Entries /\ Head(scratch[c]) = scratch[c][1]
           /\ 1 \in DOMAIN scratch[c]
<1>1. scratch[c] \in Seq(Entries)
  BY DEF Types, GcTypes
<1>2. 1 \in DOMAIN scratch[c] /\ Head(scratch[c]) = scratch[c][1] /\ scratch[c][1] \in Entries
  BY <1>1
<1>3. Tombstone(c) \in DOMAIN heap
  BY <1>2 DEF Tombstone, Types, GcTypes
<1>4. heap[Tombstone(c)] \in Tuples
  BY <1>3, HeapLen DEF Types, HeapTypes
<1> QED
  BY <1>2, <1>3, <1>4, TupleFields

(* The holder of an MCS lock passes it on.                                 *)
Passes(c) ==
    LET m == heap[Tombstone(c)].m_lock
        waiting == Tail(mcs[m])
        d == Head(waiting)
    IN  /\ m \in Keys /\ mcs[m] # <<>> /\ Head(mcs[m]) = c
        /\ txn' = [e \in Cores |-> txn'[e]]
        /\ txn'[c] = [txn[c] EXCEPT !.pc = "collect"]
        /\ waiting = <<>> => \A e \in Cores \ {c} : txn'[e] = txn[e]
        /\ waiting # <<>> =>
              /\ d \in Cores \ {c} /\ txn[d].pc = "wait" /\ d = mcs[m][2] /\ 2 \in DOMAIN mcs[m]
              /\ txn'[d] = [txn[d] EXCEPT !.pc = "locked"]
              /\ \A e \in Cores \ {c, d} : txn'[e] = txn[e]

LEMMA PassesStep ==
    ASSUME Types, NEW c \in Cores, McsRelease(c)
    PROVE  Passes(c)
<1> DEFINE m == heap[Tombstone(c)].m_lock
           waiting == Tail(mcs[m])
           d == Head(waiting)
           pc(e) == IF e = c THEN "collect"
                    ELSE IF waiting # <<>> /\ e = d THEN "locked" ELSE txn[e].pc
<1>1. txn[c].pc = "release" /\ scratch[c] # <<>>
  BY DEF McsRelease, Types, GcTypes, Examining
<1>2. m \in Keys /\ mcs[m] \in Seq(Cores)
  BY <1>1, TombstoneTypes DEF Types, GcTypes
<1>3. PICK n \in DOMAIN mcs[m] : mcs[m][n] = c
  BY <1>1 DEF Types, McsInv, Examining
<1>4. n = 1
  <2>1. n # 1 => txn[c].pc = "wait"
    BY <1>2, <1>3 DEF Types, McsInv
  <2> QED
    BY <1>1, <2>1
<1>5. mcs[m] # <<>> /\ Head(mcs[m]) = c
  BY <1>2, <1>3, <1>4
<1>6. txn' = [e \in Cores |-> [txn[e] EXCEPT !.pc = pc(e)]]
  BY DEF McsRelease
<1>7. \A e \in Cores : [txn[e] EXCEPT !.pc = txn[e].pc] = txn[e]
  BY DEF Types, TxnTypes, TxnStates
<1>8. ASSUME waiting # <<>>
      PROVE  d \in Cores \ {c} /\ txn[d].pc = "wait" /\ d = mcs[m][2] /\ 2 \in DOMAIN mcs[m]
  <2>1. 2 \in DOMAIN mcs[m] /\ d = mcs[m][2] /\ d \in Cores
    BY <1>2, <1>5, <1>8, SMTT(30)
  <2>2. txn[d].pc = "wait"
    BY <1>2, <2>1 DEF Types, McsInv
  <2> QED
    BY <1>1, <2>1, <2>2
<1>9. txn' = [e \in Cores |-> txn'[e]]
  BY <1>6
<1>10. txn'[c] = [txn[c] EXCEPT !.pc = "collect"]
  BY <1>6
<1>11. waiting = <<>> => \A e \in Cores \ {c} : txn'[e] = txn[e]
  BY <1>6, <1>7
<1>12. waiting # <<>> => /\ txn'[d] = [txn[d] EXCEPT !.pc = "locked"]
                         /\ \A e \in Cores \ {c, d} : txn'[e] = txn[e]
  BY <1>6, <1>7, <1>8
<1> QED
  BY <1>2, <1>5, <1>8, <1>9, <1>10, <1>11, <1>12 DEF Passes

LEMMA PassesTypes ==
    ASSUME Types, NEW c \in Cores, McsRelease(c), Grows
    PROVE  TxnTypes'
<1> DEFINE m == heap[Tombstone(c)].m_lock
           d == Head(Tail(mcs[m]))
<1>1. Passes(c) /\ txn[c].pc = "release"
  BY PassesStep DEF McsRelease
<1>2. ASSUME NEW e \in Cores
      PROVE  txn'[e] = txn[e] \/ \E p \in Pcs : Follows(txn[e], p) /\ txn'[e] = [txn[e] EXCEPT !.pc = p]
  <2>1. CASE e = c
    <3>1. Follows(txn[c], "collect") /\ "collect" \in Pcs
      BY <1>1 DEF Follows, Collecting, Examining, Pcs
    <3> QED
      BY <1>1, <2>1, <3>1 DEF Passes
  <2>2. CASE e # c /\ Tail(mcs[m]) # <<>> /\ e = d
    <3>1. Follows(txn[d], "locked") /\ "locked" \in Pcs
      BY <1>1, <2>2 DEF Follows, Collecting, Examining, Pcs, Passes
    <3> QED
      BY <1>1, <2>2, <3>1, ZenonT(40) DEF Passes
  <2>3. CASE e # c /\ ~(Tail(mcs[m]) # <<>> /\ e = d)
    BY <1>1, <2>3 DEF Passes
  <2> QED
    BY <2>1, <2>2, <2>3
<1>3. ASSUME NEW e \in Cores
      PROVE  /\ txn'[e] \in TxnStates /\ Shape(txn'[e])
             /\ txn'[e].refs = txn[e].refs /\ txn'[e].at = txn[e].at
  <2>1. txn[e] \in TxnStates /\ Shape(txn[e])
    BY DEF Types, TxnTypes
  <2>2. CASE txn'[e] = txn[e]
    BY <2>1, <2>2
  <2>3. ASSUME NEW p \in Pcs, Follows(txn[e], p), txn'[e] = [txn[e] EXCEPT !.pc = p]
        PROVE  /\ txn'[e] \in TxnStates /\ Shape(txn'[e])
               /\ txn'[e].refs = txn[e].refs /\ txn'[e].at = txn[e].at
    <3>1. Shape([txn[e] EXCEPT !.pc = p])
      BY <2>1, <2>3, FollowsShape
    <3>2. /\ [txn[e] EXCEPT !.pc = p] \in TxnStates
          /\ [txn[e] EXCEPT !.pc = p].refs = txn[e].refs /\ [txn[e] EXCEPT !.pc = p].at = txn[e].at
      BY <2>1, NewPc
    <3> QED
      BY <2>3, <3>1, <3>2
  <2> QED
    BY <1>2, <2>2, <2>3
<1>4. txn' \in [Cores -> TxnStates]
  <2>1. txn' = [e \in Cores |-> txn'[e]]
    BY <1>1 DEF Passes
  <2> QED
    BY <1>3, <2>1
<1> QED
  BY <1>3, <1>4 DEF Types, TxnTypes, Grows

LEMMA BeginTypes ==
    ASSUME Types, NEW c \in Cores, Begin(c)
    PROVE  TxnTypes'
<1>1. PICK p \in ProgramSet : txn'[c] = BeginState(p) /\ OthersSame(c)
  BY BeginStep
<1> DEFINE z == BeginState(p)
<1>2. Idle \in TxnStates /\ DOMAIN Idle.refs = {} /\ DOMAIN Idle.got = {} /\ Idle.at = Nil
  BY IdleState DEF Idle
<1>3. /\ z \in TxnStates /\ z.prog = p /\ DOMAIN z.refs = {} /\ DOMAIN z.got = {} /\ z.at = Nil
      /\ z.pc = IF p.snapshot THEN "begin" ELSE "run"
  <2>1. z \in TxnStates
    BY <1>2 DEF BeginState, TxnStates, Pcs, Writing, Reading
  <2> QED
    BY <1>2, <2>1 DEF BeginState, TxnStates
<1>4. Shape(z)
  BY <1>3 DEF Shape, Writing, Reading, Collecting, Examining, ProgramSet
<1>5. Grows
  BY DEF Begin, SameStore, Grows
<1> HIDE DEF z
<1>6. txn'[c] = z
  BY <1>1 DEF z
<1>7. \A k \in DOMAIN z.refs : z.refs[k] \in DOMAIN heap'
  BY <1>3
<1> QED
  BY <1>1, <1>3, <1>4, <1>5, <1>6, <1>7, TxnKept DEF Types

LEMMA AccessFields ==
    ASSUME Types, NEW c \in Cores, NEW k \in Keys, Access(c, k)
    PROVE  LET x == txn[c]
               i == tree[k]
               z == AccessState(c, k)
           IN  /\ i \in DOMAIN heap /\ heap[i] \in Tuples
               /\ z \in TxnStates
               /\ z.pc = "run" /\ z.prog = x.prog /\ z.t = x.t /\ z.todo = x.todo /\ z.key = x.key
               /\ z.at = x.at
               /\ z.refs = With(x.refs, k, i)
               /\ z.got = IF k \in x.prog.reads THEN With(x.got, k, heap[i].version) ELSE x.got
<1> DEFINE x == txn[c]
           i == tree[k]
           z == AccessState(c, k)
<1>1. i \in DOMAIN heap
  BY DEF Access, Types, HeapTypes
<1>2. heap[i] \in Tuples /\ i \in Nat /\ heap[i].version \in Nat
  BY <1>1, HeapLen, TupleFields DEF Types, HeapTypes
<1>3. x \in TxnStates /\ x.refs \in Partial /\ x.got \in Partial /\ x.pc = "run"
  BY TxnFields DEF Types, TxnTypes, Access
<1>4. With(x.refs, k, i) \in Partial /\ With(x.got, k, heap[i].version) \in Partial
  BY <1>2, <1>3, WithType
<1>5. z = [x EXCEPT !.refs = With(x.refs, k, i),
                    !.got = IF k \in x.prog.reads THEN With(x.got, k, heap[i].version) ELSE x.got]
  BY DEF AccessState
<1> HIDE DEF x, i, z
<1>6. z \in TxnStates
  BY <1>3, <1>4, <1>5 DEF TxnStates
<1>7. /\ z.pc = x.pc /\ z.prog = x.prog /\ z.t = x.t /\ z.todo = x.todo /\ z.key = x.key
      /\ z.at = x.at
      /\ z.refs = With(x.refs, k, i)
      /\ z.got = IF k \in x.prog.reads THEN With(x.got, k, heap[i].version) ELSE x.got
  BY <1>3, <1>5 DEF TxnStates
<1> QED
  BY <1>1, <1>2, <1>3, <1>6, <1>7 DEF x, i, z

LEMMA AccessTypes ==
    ASSUME Types, NEW c \in Cores, NEW k \in Keys, Access(c, k)
    PROVE  TxnTypes'
<1> DEFINE x == txn[c]
           i == tree[k]
           z == AccessState(c, k)
<1>1. txn'[c] = z /\ OthersSame(c)
  BY AccessStep
<1>2. /\ i \in DOMAIN heap /\ heap[i] \in Tuples
      /\ z \in TxnStates
      /\ z.pc = "run" /\ z.prog = x.prog /\ z.at = x.at
      /\ z.refs = With(x.refs, k, i)
      /\ z.got = IF k \in x.prog.reads THEN With(x.got, k, heap[i].version) ELSE x.got
  BY AccessFields
<1>3. x \in TxnStates /\ Shape(x) /\ x.pc = "run" /\ x.refs \in Partial /\ x.got \in Partial
      /\ k \in x.prog.reads \cup x.prog.writes
  BY TxnFields DEF Types, TxnTypes, Access
<1>a. i \in Nat /\ heap[i].version \in Nat
  BY <1>2, HeapLen, TupleFields DEF Types, HeapTypes
<1>b. /\ DOMAIN With(x.refs, k, i) = DOMAIN x.refs \cup {k} /\ With(x.refs, k, i)[k] = i
      /\ \A j \in DOMAIN x.refs \ {k} : With(x.refs, k, i)[j] = x.refs[j]
  <2> DEFINE f == x.refs
  <2>1. f \in Partial
    BY <1>3
  <2> HIDE DEF x, i, f
  <2>2. /\ DOMAIN With(f, k, i) = DOMAIN f \cup {k} /\ With(f, k, i)[k] = i
        /\ \A j \in DOMAIN f \ {k} : With(f, k, i)[j] = f[j]
    BY <2>1, <1>a, WithType
  <2> QED
    BY <2>2 DEF f
<1>c. DOMAIN With(x.got, k, heap[i].version) = DOMAIN x.got \cup {k}
  <2> HIDE DEF x, i
  <2> QED
    BY <1>3, <1>a, WithType
<1>4. /\ DOMAIN z.refs = DOMAIN x.refs \cup {k} /\ z.refs[k] = i
      /\ \A j \in DOMAIN x.refs \ {k} : z.refs[j] = x.refs[j]
  <2> HIDE DEF x, i, z
  <2> QED
    BY <1>2, <1>b
<1>5. k \in x.prog.reads => DOMAIN z.got = DOMAIN x.got \cup {k}
  <2> HIDE DEF x, i, z
  <2> QED
    BY <1>2, <1>c
<1>6. k \notin x.prog.reads => DOMAIN z.got = DOMAIN x.got
  BY <1>2
<1>7. heap' = heap
  BY DEF Access, SameStore
<1>8. \A j \in DOMAIN x.refs : x.refs[j] \in DOMAIN heap
  BY DEF Types, TxnTypes
<1> HIDE DEF x, i, z
<1>9. Shape(z)
  BY <1>2, <1>3, <1>4, <1>5, <1>6 DEF Shape, Writing, Reading, Collecting, Examining
<1>10. \A j \in DOMAIN z.refs : z.refs[j] \in DOMAIN heap'
  BY <1>2, <1>4, <1>7, <1>8
<1>11. z.at \in DOMAIN heap' \cup {Nil}
  BY <1>2, <1>3, <1>7 DEF Shape
<1> QED
  BY <1>1, <1>2, <1>7, <1>9, <1>10, <1>11, TxnKept DEF Types, Grows

LEMMA GenFields ==
    ASSUME Types, NEW c \in Cores, NEW tid \in Nat
    PROVE  LET x == txn[c]
               z == DrawState(c, tid)
           IN  /\ z \in TxnStates /\ z.pc = "install" /\ z.t = tid /\ z.todo = x.prog.writes
               /\ z.prog = x.prog /\ z.refs = x.refs /\ z.got = x.got /\ z.at = x.at
<1>1. txn[c] \in TxnStates /\ txn[c].prog.writes \in SUBSET Keys
  BY TxnFields DEF Types, TxnTypes
<1> QED
  BY <1>1 DEF DrawState, TxnStates, Pcs, Writing

LEMMA GenTypes ==
    ASSUME Types, NEW c \in Cores, gen_commit_tid(c)
    PROVE  /\ TxnTypes' /\ txn'[c].t \in Nat
           /\ last_commit_tid' \in [Cores -> Nat] /\ last_commit_tid'[c] = txn'[c].t
<1>1. PICK num \in Nums(c) :
          /\ num \in 0..(NumSpan - 1)
          /\ txn'[c] = DrawState(c, MakeTid(c, num + 1, now)) /\ OthersSame(c)
          /\ last_commit_tid' = [last_commit_tid EXCEPT ![c] = MakeTid(c, num + 1, now)]
  BY GenStep
<1> DEFINE tid == MakeTid(c, num + 1, now)
           x == txn[c]
           z == DrawState(c, tid)
<1>2. tid \in Nat
  <2>1. c \in Nat /\ num + 1 \in Nat /\ now \in Nat
    BY <1>1, Spans DEF Types, MiscTypes
  <2>2. num + 1 + NumSpan * now \in Nat
    BY <2>1, Spans, Product
  <2>3. CoreSpan * (num + 1 + NumSpan * now) \in Nat
    BY <2>2, Spans, Product
  <2> QED
    BY <2>1, <2>3 DEF MakeTid
<1> HIDE DEF tid
<1>3. /\ z \in TxnStates /\ z.pc = "install" /\ z.t = tid /\ z.todo = x.prog.writes
      /\ z.prog = x.prog /\ z.refs = x.refs /\ z.got = x.got /\ z.at = x.at
  BY <1>2, GenFields
<1>4. x \in TxnStates /\ Shape(x) /\ x.pc = "gen_tid" /\ heap' = heap
      /\ \A k \in DOMAIN x.refs : x.refs[k] \in DOMAIN heap
  BY DEF Types, TxnTypes, gen_commit_tid
<1>5. txn'[c] = z /\ last_commit_tid' = [last_commit_tid EXCEPT ![c] = tid]
  BY <1>1 DEF tid
<1> HIDE DEF x, z
<1>6. Shape(z)
  BY <1>3, <1>4 DEF Shape, Writing, Reading, Collecting, Examining
<1>7. z.at \in DOMAIN heap' \cup {Nil}
  BY <1>3, <1>4 DEF Shape
<1>8. TxnTypes'
  BY <1>1, <1>3, <1>4, <1>5, <1>6, <1>7, TxnKept DEF Types, Grows
<1>9. last_commit_tid' \in [Cores -> Nat] /\ last_commit_tid'[c] = tid
  BY <1>2, <1>5 DEF Types, MiscTypes
<1> QED
  BY <1>2, <1>3, <1>5, <1>8, <1>9

(***************************************************************************)
(* The types: what each step of a transaction leaves of them.              *)
(***************************************************************************)
-----------------------------------------------------------------------------
(* The rest of the transactions' steps.                                    *)
LEMMA InstalledFields ==
    ASSUME Types, NEW c \in Cores, NEW k \in Keys
    PROVE  LET x == txn[c]
               z == InstalledState(c, k)
           IN  /\ z \in TxnStates /\ z.pc = IF x.todo = {k} THEN "committed" ELSE x.pc
               /\ z.todo = x.todo \ {k} /\ z.t = x.t
               /\ z.prog = x.prog /\ z.refs = x.refs /\ z.got = x.got /\ z.at = x.at
<1>1. txn[c] \in TxnStates /\ txn[c].todo \in SUBSET Keys
  BY TxnFields DEF Types, TxnTypes
<1> QED
  BY <1>1 DEF InstalledState, TxnStates, Pcs, Writing

LEMMA InstalledTypes ==
    ASSUME Types, Grows, NEW c \in Cores, NEW k \in Keys, NEW delete, NEW entries,
           Installed(c, k, delete, entries), txn[c].pc = "install"
    PROVE  TxnTypes'
<1> DEFINE x == txn[c]
           z == InstalledState(c, k)
<1>1. txn'[c] = z /\ OthersSame(c)
  BY InstalledStep
<1>2. /\ z \in TxnStates /\ z.pc = IF x.todo = {k} THEN "committed" ELSE x.pc
      /\ z.todo = x.todo \ {k} /\ z.t = x.t
      /\ z.prog = x.prog /\ z.refs = x.refs /\ z.got = x.got /\ z.at = x.at
  BY InstalledFields
<1>3. x \in TxnStates /\ Shape(x) /\ x.pc = "install"
      /\ \A j \in DOMAIN x.refs : x.refs[j] \in DOMAIN heap
  BY DEF Types, TxnTypes
<1> HIDE DEF x, z
<1>4. Shape(z)
  BY <1>2, <1>3 DEF Shape, Writing, Reading, Collecting, Examining
<1>5. z.at \in DOMAIN heap' \cup {Nil}
  BY <1>2, <1>3 DEF Shape
<1>6. \A j \in DOMAIN z.refs : z.refs[j] \in DOMAIN heap'
  BY <1>2, <1>3 DEF Grows
<1> QED
  BY <1>1, <1>2, <1>4, <1>5, <1>6, TxnKept DEF Types

LEMMA ReadOnlyTid ==
    ASSUME NEW e \in Nat
    PROVE  ComputeReadOnlyTid(e) \in Nat
<1> DEFINE b == to_read_only_tick(e) * ReadOnlyEpochMultiplier
<1>1. b \in Nat
  <2>1. to_read_only_tick(e) \in Nat
    BY ReadOnly
  <2> QED
    BY <2>1, Spans, Product DEF M
<1>2. 0 \in 0..(CoreSpan - 1) /\ CoreSpan - 1 \in 0..(CoreSpan - 1)
      /\ 0 \in 0..(NumSpan - 1) /\ NumSpan - 1 \in 0..(NumSpan - 1)
  BY Spans
<1>3. MakeTid(0, 0, 0) \in Nat
  BY <1>2, TidFields
<1>4. b # 0 => MakeTid(CoreSpan - 1, NumSpan - 1, b - 1) \in Nat
  BY <1>1, <1>2, TidFields
<1> QED
  BY <1>3, <1>4 DEF ComputeReadOnlyTid

LEMMA SnapFields ==
    ASSUME Types, NEW c \in Cores
    PROVE  LET x == txn[c]
               z == SnapState(c)
           IN  /\ z \in TxnStates /\ z.pc = "snapshot" /\ z.t = ComputeReadOnlyTid(over + 1)
               /\ z.prog = x.prog /\ z.refs = x.refs /\ z.got = x.got /\ z.at = x.at
<1>1. txn[c] \in TxnStates /\ over + 1 \in Nat
  BY DEF Types, TxnTypes, MiscTypes
<1>2. ComputeReadOnlyTid(over + 1) \in Nat
  BY <1>1, ReadOnlyTid
<1> QED
  BY <1>1, <1>2 DEF SnapState, global_last_tick_exclusive, TxnStates, Pcs, Reading

LEMMA TakeSnapshotTypes ==
    ASSUME Types, NEW c \in Cores, TakeSnapshot(c)
    PROVE  TxnTypes'
<1> DEFINE x == txn[c]
           z == SnapState(c)
<1>1. txn'[c] = z /\ OthersSame(c)
  BY TakeSnapshotStep
<1>2. /\ z \in TxnStates /\ z.pc = "snapshot"
      /\ z.prog = x.prog /\ z.refs = x.refs /\ z.got = x.got /\ z.at = x.at
  BY SnapFields
<1>3. x \in TxnStates /\ Shape(x) /\ x.pc = "begin"
      /\ \A j \in DOMAIN x.refs : x.refs[j] \in DOMAIN heap
  BY DEF Types, TxnTypes, TakeSnapshot
<1>4. Grows
  BY DEF TakeSnapshot, SameStore, Grows
<1> HIDE DEF x, z
<1>5. Shape(z)
  BY <1>2, <1>3 DEF Shape, Writing, Reading, Collecting, Examining
<1>6. z.at \in DOMAIN heap' \cup {Nil}
  BY <1>2, <1>3 DEF Shape
<1>7. \A j \in DOMAIN z.refs : z.refs[j] \in DOMAIN heap'
  BY <1>2, <1>3, <1>4 DEF Grows
<1> QED
  BY <1>1, <1>2, <1>4, <1>5, <1>6, <1>7, TxnKept DEF Types

(* A snapshot transaction has found nothing, a tuple, or a version.        *)
IsMoved(x, z, k, i) == z = [x EXCEPT !.pc = "walk", !.key = k, !.at = i]
IsNext(x, z, i) == z = [x EXCEPT !.at = i]
IsFound(x, z, k, v) == z = [x EXCEPT !.pc = "snapshot", !.got = With(x.got, k, v), !.at = Nil]

(* What a step of a snapshot transaction does to it.                       *)
Finds(x, z, k, v) ==
    /\ z \in TxnStates /\ z.pc = "snapshot" /\ z.at = Nil
    /\ z.t = x.t /\ z.prog = x.prog /\ z.refs = x.refs
    /\ DOMAIN z.got = DOMAIN x.got \cup {k} /\ z.got[k] = v
    /\ \A j \in DOMAIN x.got \ {k} : z.got[j] = x.got[j]
MovesTo(x, z, k, i) ==
    /\ z \in TxnStates /\ z.pc = "walk" /\ z.key = k /\ z.at = i
    /\ z.t = x.t /\ z.prog = x.prog /\ z.refs = x.refs /\ z.got = x.got

LEMMA MoveFields ==
    ASSUME NEW x \in TxnStates, NEW z, NEW k \in Keys, NEW i \in Nat, IsMoved(x, z, k, i)
    PROVE  MovesTo(x, z, k, i)
BY DEF TxnStates, Pcs, Reading, IsMoved, MovesTo

LEMMA NextFields ==
    ASSUME NEW x \in TxnStates, NEW z, NEW i \in Nat, IsNext(x, z, i), x.pc = "walk"
    PROVE  MovesTo(x, z, x.key, i)
BY DEF TxnStates, IsNext, MovesTo

LEMMA GotFields ==
    ASSUME NEW x \in TxnStates, NEW z, NEW k \in Keys, NEW v \in Nat, IsFound(x, z, k, v)
    PROVE  Finds(x, z, k, v)
<1> DEFINE f == x.got
           w == With(f, k, v)
<1>1. f \in Partial
  BY TxnFields
<1>0. z = [x EXCEPT !.pc = "snapshot", !.got = w, !.at = Nil]
  BY DEF IsFound
<1> HIDE DEF f
<1>2. w \in Partial /\ DOMAIN w = DOMAIN f \cup {k} /\ w[k] = v
      /\ \A j \in DOMAIN f \ {k} : w[j] = f[j]
  BY <1>1, WithType, ZenonT(40)
<1> HIDE DEF w
<1>3. /\ z \in TxnStates /\ z.pc = "snapshot" /\ z.at = Nil
      /\ z.t = x.t /\ z.prog = x.prog /\ z.refs = x.refs /\ z.got = w
  BY <1>0, <1>2 DEF TxnStates, Pcs, Reading, Nil
<1> QED
  BY <1>2, <1>3 DEF f, Finds

LEMMA FoundAlready ==
    ASSUME NEW x \in TxnStates, NEW z, NEW k, NEW v, x.pc = "snapshot", x.at = Nil,
           z = [x EXCEPT !.got = With(x.got, k, v)]
    PROVE  IsFound(x, z, k, v)
<1> DEFINE w == With(x.got, k, v)
<1> HIDE DEF w
<1>1. z = [x EXCEPT !.got = w]
  BY DEF w
<1>2. z = [x EXCEPT !.pc = "snapshot", !.got = w, !.at = Nil]
  BY <1>1 DEF TxnStates
<1> QED
  BY <1>2 DEF IsFound, w

LEMMA FindHeadMoves ==
    ASSUME Types, NEW c \in Cores, NEW k \in Keys, FindHead(c, k)
    PROVE  /\ OthersSame(c)
           /\ tree[k] = Nil => Finds(txn[c], txn'[c], k, MIN_TID)
           /\ tree[k] # Nil => MovesTo(txn[c], txn'[c], k, tree[k])
<1>1. txn'[c] = FindState(c, k) /\ OthersSame(c)
  BY FindHeadStep
<1>2. txn[c] \in TxnStates /\ txn[c].pc = "snapshot" /\ txn[c].at = Nil /\ tree[k] \in Nat /\ MIN_TID \in Nat
  BY DEF Types, TxnTypes, HeapTypes, FindHead, Shape, MIN_TID
<1>3. ASSUME tree[k] = Nil PROVE Finds(txn[c], txn'[c], k, MIN_TID)
  <2>1. txn'[c] = [txn[c] EXCEPT !.got = With(txn[c].got, k, MIN_TID)]
    BY <1>1, <1>3 DEF FindState
  <2>2. IsFound(txn[c], txn'[c], k, MIN_TID)
    BY <1>2, <2>1, FoundAlready
  <2> QED
    BY <1>2, <2>2, GotFields
<1>4. ASSUME tree[k] # Nil PROVE MovesTo(txn[c], txn'[c], k, tree[k])
  <2>1. IsMoved(txn[c], txn'[c], k, tree[k])
    BY <1>1, <1>4 DEF FindState, IsMoved
  <2> QED
    BY <1>2, <2>1, MoveFields
<1> QED
  BY <1>1, <1>3, <1>4

LEMMA WalkMoves ==
    ASSUME Types, NEW c \in Cores, Walk(c)
    PROVE  LET x == txn[c]
               n == heap[x.at]
           IN  /\ OthersSame(c)
               /\ x.key \in Keys /\ x.at \in DOMAIN heap /\ n \in Tuples
               /\ n.version <= x.t => Finds(x, txn'[c], x.key, IF n.deleting THEN MIN_TID ELSE n.version)
               /\ ~(n.version <= x.t) /\ n.next = Nil => Finds(x, txn'[c], x.key, MIN_TID)
               /\ ~(n.version <= x.t) /\ n.next # Nil =>
                     MovesTo(x, txn'[c], x.key, n.next) /\ n.next \in DOMAIN heap
<1> DEFINE x == txn[c]
           n == heap[x.at]
           k == x.key
           z == txn'[c]
<1>1. z = WalkState(c) /\ OthersSame(c)
  BY WalkStep
<1>2. x \in TxnStates /\ x.pc = "walk" /\ x.at \in DOMAIN heap /\ k \in Keys /\ MIN_TID \in Nat
  <2>1. x \in TxnStates /\ Shape(x) /\ x.pc = "walk" /\ x.at \in DOMAIN heap \cup {Nil}
    BY DEF Types, TxnTypes, Walk
  <2>2. x.prog.reads \in SUBSET Keys
    BY <2>1, TxnFields
  <2> QED
    BY <2>1, <2>2 DEF Shape, MIN_TID
<1>3. n \in Tuples /\ n.version \in Nat /\ n.next \in Nat /\ n.next \in DOMAIN heap \cup {Nil}
  BY <1>2, HeapLen, TupleFields DEF Types, HeapTypes
<1>4. ASSUME NEW v \in Nat, z = FoundState(c, v) PROVE Finds(x, z, k, v)
  <2>1. IsFound(x, z, k, v)
    BY <1>4 DEF FoundState, IsFound
  <2> HIDE DEF x, z, k
  <2> QED
    BY <1>2, <2>1, GotFields
<1>5. ASSUME n.version <= x.t
      PROVE  Finds(x, z, k, IF n.deleting THEN MIN_TID ELSE n.version)
  <2> DEFINE v == IF n.deleting THEN MIN_TID ELSE n.version
  <2>1. z = FoundState(c, v)
    BY <1>1, <1>5 DEF WalkState
  <2>2. v \in Nat
    BY <1>2, <1>3
  <2> HIDE DEF x, z, k, n, v
  <2>3. Finds(x, z, k, v)
    BY <2>1, <2>2, <1>4
  <2> QED
    BY <2>3 DEF v
<1>6. ASSUME ~(n.version <= x.t), n.next = Nil PROVE Finds(x, z, k, MIN_TID)
  <2>1. z = FoundState(c, MIN_TID)
    BY <1>1, <1>6 DEF WalkState
  <2> HIDE DEF x, z, k, n
  <2> QED
    BY <1>2, <1>4, <2>1
<1>7. ASSUME ~(n.version <= x.t), n.next # Nil
      PROVE  MovesTo(x, z, k, n.next) /\ n.next \in DOMAIN heap
  <2> DEFINE j == n.next
  <2>1. IsNext(x, z, j)
    BY <1>1, <1>7 DEF WalkState, IsNext
  <2>2. j \in Nat /\ j \in DOMAIN heap
    BY <1>3, <1>7
  <2> HIDE DEF x, z, n, j
  <2>3. MovesTo(x, z, x.key, j)
    BY <1>2, <2>1, <2>2, NextFields
  <2> QED
    BY <2>2, <2>3 DEF j
<1> HIDE DEF x, z, k, n
<1>8. /\ OthersSame(c)
      /\ k \in Keys /\ x.at \in DOMAIN heap /\ n \in Tuples
      /\ n.version <= x.t => Finds(x, z, k, IF n.deleting THEN MIN_TID ELSE n.version)
      /\ ~(n.version <= x.t) /\ n.next = Nil => Finds(x, z, k, MIN_TID)
      /\ ~(n.version <= x.t) /\ n.next # Nil => MovesTo(x, z, k, n.next) /\ n.next \in DOMAIN heap
  BY <1>1, <1>2, <1>3, <1>5, <1>6, <1>7
<1> QED
  BY <1>8 DEF x, n, k, z

LEMMA FindsTypes ==
    ASSUME Types, Grows, NEW c \in Cores, NEW k \in Keys, NEW v, OthersSame(c),
           Finds(txn[c], txn'[c], k, v), txn[c].pc \in {"snapshot", "walk"}
    PROVE  TxnTypes'
<1> DEFINE x == txn[c]
           z == txn'[c]
<1>1. x \in TxnStates /\ Shape(x) /\ x.pc \in {"snapshot", "walk"}
  BY DEF Types, TxnTypes
<1>2. /\ z \in TxnStates /\ z.pc = "snapshot" /\ z.at = Nil
      /\ z.t = x.t /\ z.prog = x.prog /\ z.refs = x.refs
  BY DEF Finds
<1> HIDE DEF x, z
<1>3. Shape(z) /\ DOMAIN z.refs = {}
  BY <1>1, <1>2 DEF Shape, Writing, Reading, Collecting, Examining
<1> QED
  BY <1>2, <1>3, TxnKept DEF Types, z

LEMMA MovesTypes ==
    ASSUME Types, Grows, NEW c \in Cores, NEW k \in Keys, NEW i \in DOMAIN heap, OthersSame(c),
           MovesTo(txn[c], txn'[c], k, i), txn[c].pc \in {"snapshot", "walk"},
           k \in txn[c].prog.reads \ DOMAIN txn[c].got
    PROVE  TxnTypes'
<1> DEFINE x == txn[c]
           z == txn'[c]
<1>1. x \in TxnStates /\ Shape(x) /\ x.pc \in {"snapshot", "walk"}
      /\ k \in x.prog.reads \ DOMAIN x.got
  BY DEF Types, TxnTypes
<1>2. /\ z \in TxnStates /\ z.pc = "walk" /\ z.key = k /\ z.at = i
      /\ z.t = x.t /\ z.prog = x.prog /\ z.refs = x.refs /\ z.got = x.got
  BY DEF MovesTo
<1>3. i # Nil
  BY HeapLen DEF Types, HeapTypes
<1> HIDE DEF x, z
<1>4. Shape(z) /\ DOMAIN z.refs = {}
  BY <1>1, <1>2, <1>3 DEF Shape, Writing, Reading, Collecting, Examining
<1>5. z.at \in DOMAIN heap' \cup {Nil}
  BY <1>2 DEF Grows
<1> QED
  BY <1>2, <1>4, <1>5, TxnKept DEF Types, z

LEMMA EndTxnTypes ==
    ASSUME Types, NEW c \in Cores, EndTxn(c)
    PROVE  TxnTypes' /\ txn'[c].pc = "post"
<1> DEFINE z == [Idle EXCEPT !.pc = "post"]
<1>1. txn'[c] = z /\ OthersSame(c)
  BY EndTxnStep
<1>2. z \in TxnStates /\ z.pc = "post" /\ ~z.prog.snapshot /\ z.at = Nil /\ DOMAIN z.refs = {}
  BY IdleState DEF Pcs
<1>3. Grows
  BY DEF EndTxn, SameStore, Grows
<1>4. z = [Idle EXCEPT !.pc = z.pc]
  BY <1>2
<1> HIDE DEF z
<1>5. Shape(z)
  BY <1>2, <1>4 DEF Shape, Writing, Reading, Collecting, Examining
<1> QED
  BY <1>1, <1>2, <1>3, <1>5, TxnKept DEF Types

(***************************************************************************)
(* What the steps do to the heap, the queues and the MCS locks.            *)
(***************************************************************************)
-----------------------------------------------------------------------------
(* The tuples keep their types, and for good their key and their MCS lock. *)
HeapStays ==
    /\ Grows
    /\ \A i \in DOMAIN heap : heap'[i].m_lock = heap[i].m_lock /\ heap'[i].key = heap[i].key

LEMMA HeapSame ==
    ASSUME HeapTypes, UNCHANGED <<heap, tree>>
    PROVE  HeapTypes' /\ HeapStays
BY DEF HeapTypes, HeapStays, Grows

LEMMA LocksHeap ==
    ASSUME HeapTypes, UNCHANGED tree, NEW S, NEW b \in BOOLEAN, SetLocks(S, b) \/ UNCHANGED heap
    PROVE  HeapTypes' /\ HeapStays
<1>1. CASE UNCHANGED heap
  BY <1>1, HeapSame
<1>2. CASE SetLocks(S, b)
  <2>1. LocksSet(S, b)
    BY <1>2, SetLocksStep DEF HeapTypes
  <2>2. heap' \in Seq(Tuples) /\ DOMAIN heap' = DOMAIN heap
    BY <2>1 DEF LocksSet
  <2>3. \A i \in DOMAIN heap : SameTuple(i)
    BY <2>1 DEF LocksSet
  <2>4. \A i \in DOMAIN heap' : heap'[i].next \in DOMAIN heap' \cup {Nil}
    BY <2>2, <2>3 DEF SameTuple, HeapTypes
  <2>5. HeapTypes'
    BY <2>2, <2>4 DEF HeapTypes
  <2> QED
    BY <2>2, <2>3, <2>5 DEF HeapStays, Grows, SameTuple
<1> QED
  BY <1>1, <1>2

LEMMA RefTypes ==
    ASSUME Types, NEW c \in Cores, NEW k \in Keys, txn[c].pc = "install", k \in txn[c].todo
    PROVE  /\ k \in DOMAIN txn[c].refs /\ txn[c].refs[k] \in DOMAIN heap
           /\ heap[txn[c].refs[k]] \in Tuples /\ txn[c].refs[k] \in Nat /\ txn[c].refs[k] # Nil
           /\ txn[c].t \in Nat
           /\ k \in txn[c].prog.writes
<1>1. txn[c] \in TxnStates /\ Shape(txn[c])
  BY DEF Types, TxnTypes
<1>2. k \in DOMAIN txn[c].refs /\ k \in txn[c].prog.writes
  BY <1>1 DEF Shape, Writing
<1>3. txn[c].refs[k] \in DOMAIN heap
  BY <1>2 DEF Types, TxnTypes
<1> QED
  BY <1>1, <1>2, <1>3, HeapLen, TxnFields DEF Types, HeapTypes

LEMMA OverwrittenFields ==
    ASSUME Types, NEW c \in Cores, NEW k \in Keys, NEW delete \in BOOLEAN,
           txn[c].refs[k] \in DOMAIN heap
    PROVE  LET i == txn[c].refs[k]
               e == Overwritten(c, k, delete)
               s == Spilled(c, k)
           IN  /\ e \in Tuples /\ e.key = heap[i].key /\ e.m_lock = heap[i].m_lock
               /\ e.version = txn[c].t /\ e.deleting = delete /\ e.locked = FALSE
               /\ e.latest = heap[i].latest
               /\ e.next = IF Keep(c, k) THEN Len(heap) + 1 ELSE heap[i].next
               /\ s \in Tuples /\ s.key = heap[i].key /\ s.m_lock = heap[i].m_lock
               /\ s.version = heap[i].version /\ s.deleting = heap[i].deleting
               /\ s.locked = FALSE /\ s.latest = FALSE /\ s.next = heap[i].next
<1>1. heap[txn[c].refs[k]] \in Tuples /\ Len(heap) + 1 \in Nat /\ txn[c].t \in Nat
  <2>1. txn[c] \in TxnStates
    BY DEF Types, TxnTypes
  <2> QED
    BY <2>1, HeapLen, TxnFields DEF Types, HeapTypes
<1> QED
  BY <1>1 DEF Overwritten, Spilled, Tuples

LEMMA ReplacementFields ==
    ASSUME Types, NEW c \in Cores, NEW k \in Keys, NEW delete \in BOOLEAN,
           txn[c].refs[k] \in DOMAIN heap
    PROVE  LET i == txn[c].refs[k]
               e == Superseded(i)
               r == Replacement(c, k, delete)
           IN  /\ e \in Tuples /\ e.key = heap[i].key /\ e.m_lock = heap[i].m_lock
               /\ e.version = heap[i].version /\ e.deleting = heap[i].deleting /\ e.locked = FALSE
               /\ e.latest = FALSE /\ e.next = heap[i].next
               /\ r \in Tuples /\ r.key = heap[i].key /\ r.m_lock = heap[i].m_lock
               /\ r.version = txn[c].t /\ r.deleting = delete
               /\ r.locked = FALSE /\ r.latest = heap[i].latest /\ r.next = i
<1>1. heap[txn[c].refs[k]] \in Tuples /\ txn[c].refs[k] \in Nat /\ txn[c].t \in Nat
  <2>1. txn[c] \in TxnStates
    BY DEF Types, TxnTypes
  <2> QED
    BY <2>1, HeapLen, TxnFields DEF Types, HeapTypes
<1> QED
  BY <1>1 DEF Superseded, Replacement, Tuples

LEMMA RemovedFields ==
    ASSUME NEW i \in DOMAIN heap, heap \in Seq(Tuples)
    PROVE  LET e == Removed(i)
           IN  /\ e \in Tuples /\ e.key = heap[i].key /\ e.m_lock = heap[i].m_lock
               /\ e.version = heap[i].version /\ e.deleting = heap[i].deleting
               /\ e.locked = heap[i].locked /\ e.latest = FALSE /\ e.next = heap[i].next
<1>1. heap[i] \in Tuples
  BY HeapLen
<1> QED
  BY <1>1 DEF Removed, Tuples

LEMMA InPlaceHeap ==
    ASSUME Types, NEW c \in Cores, NEW k \in Keys, NEW delete \in BOOLEAN, InstallInPlace(c, k, delete)
    PROVE  HeapTypes' /\ HeapStays /\ InPlace(c, k, delete) /\ txn[c].refs[k] \in DOMAIN heap
<1> DEFINE i == txn[c].refs[k]
           e == heap'[i]
           l == Len(heap) + 1
           s == heap'[l]
<1>1. i \in DOMAIN heap /\ tree' = tree
  BY RefTypes DEF InstallInPlace
<1>2. InPlace(c, k, delete)
  BY <1>1, InPlaceStep DEF Types, TxnTypes, HeapTypes
<1>3. /\ e = Overwritten(c, k, delete) /\ \A j \in DOMAIN heap \ {i} : heap'[j] = heap[j]
      /\ heap' \in Seq(Tuples)
      /\ Keep(c, k) => DOMAIN heap' = DOMAIN heap \cup {l} /\ s = Spilled(c, k)
      /\ ~Keep(c, k) => DOMAIN heap' = DOMAIN heap
  BY <1>2 DEF InPlace
<1>a. /\ Overwritten(c, k, delete).key = heap[i].key /\ Overwritten(c, k, delete).m_lock = heap[i].m_lock
      /\ Overwritten(c, k, delete).next = IF Keep(c, k) THEN l ELSE heap[i].next
      /\ Spilled(c, k).next = heap[i].next
  BY <1>1, OverwrittenFields
<1>4. /\ e.key = heap[i].key /\ e.m_lock = heap[i].m_lock
      /\ e.next = IF Keep(c, k) THEN l ELSE heap[i].next
      /\ Keep(c, k) => s.next = heap[i].next
  <2> HIDE DEF e, s, i, l
  <2> QED
    BY <1>3, <1>a
<1> HIDE DEF e, s, i, l
<1>5. HeapStays
  BY <1>1, <1>3, <1>4 DEF HeapStays, Grows, e
<1>6. \A j \in DOMAIN heap' : heap'[j].next \in DOMAIN heap' \cup {Nil}
  <2> SUFFICES ASSUME NEW j \in DOMAIN heap' PROVE heap'[j].next \in DOMAIN heap' \cup {Nil}
    OBVIOUS
  <2>1. \A n \in DOMAIN heap : heap[n].next \in DOMAIN heap' \cup {Nil}
    BY <1>5 DEF Types, HeapTypes, HeapStays, Grows
  <2>2. CASE j = i
    BY <1>1, <1>3, <1>4, <2>1, <2>2 DEF e
  <2>3. CASE j \in DOMAIN heap /\ j # i
    BY <1>3, <2>1, <2>3
  <2>4. CASE j \notin DOMAIN heap
    BY <1>1, <1>3, <1>4, <2>1, <2>4 DEF s
  <2> QED
    BY <2>2, <2>3, <2>4
<1>7. HeapTypes'
  BY <1>1, <1>3, <1>5, <1>6 DEF Types, HeapTypes, HeapStays, Grows
<1> QED
  BY <1>1, <1>2, <1>5, <1>7 DEF i

LEMMA ReplacedHeap ==
    ASSUME Types, NEW c \in Cores, NEW k \in Keys, NEW delete \in BOOLEAN, InstallReplacement(c, k, delete)
    PROVE  HeapTypes' /\ HeapStays /\ Replaced(c, k, delete) /\ txn[c].refs[k] \in DOMAIN heap
           /\ tree' \in [Keys -> Nat] /\ tree'[k] = Len(heap) + 1
           /\ \A j \in Keys \ {k} : tree'[j] = tree[j]
<1> DEFINE i == txn[c].refs[k]
           e == heap'[i]
           l == Len(heap) + 1
           s == heap'[l]
<1>1. i \in DOMAIN heap /\ tree' = [tree EXCEPT ![k] = l]
  BY RefTypes DEF InstallReplacement
<1>2. Replaced(c, k, delete)
  BY <1>1, ReplacedStep DEF Types, TxnTypes, HeapTypes
<1>3. /\ e = Superseded(i) /\ \A j \in DOMAIN heap \ {i} : heap'[j] = heap[j]
      /\ heap' \in Seq(Tuples) /\ l \in Nat
      /\ DOMAIN heap' = DOMAIN heap \cup {l} /\ s = Replacement(c, k, delete)
  BY <1>2 DEF Replaced
<1>a. /\ Superseded(i).key = heap[i].key /\ Superseded(i).m_lock = heap[i].m_lock
      /\ Superseded(i).next = heap[i].next /\ Replacement(c, k, delete).next = i
  BY <1>1, ReplacementFields, ZenonT(40)
<1>4. /\ e.key = heap[i].key /\ e.m_lock = heap[i].m_lock
      /\ e.next = heap[i].next
      /\ s.next = i
  <2> HIDE DEF e, s, i, l
  <2> QED
    BY <1>3, <1>a
<1> HIDE DEF e, s, i, l
<1>5. HeapStays
  BY <1>1, <1>3, <1>4 DEF HeapStays, Grows, e
<1>6. \A j \in DOMAIN heap' : heap'[j].next \in DOMAIN heap' \cup {Nil}
  <2> SUFFICES ASSUME NEW j \in DOMAIN heap' PROVE heap'[j].next \in DOMAIN heap' \cup {Nil}
    OBVIOUS
  <2>1. \A n \in DOMAIN heap : heap[n].next \in DOMAIN heap' \cup {Nil}
    BY <1>5 DEF Types, HeapTypes, HeapStays, Grows
  <2>2. CASE j = i
    BY <1>1, <1>3, <1>4, <2>1, <2>2 DEF e
  <2>3. CASE j \in DOMAIN heap /\ j # i
    BY <1>3, <2>1, <2>3
  <2>4. CASE j \notin DOMAIN heap
    BY <1>1, <1>3, <1>4, <2>4 DEF s
  <2> QED
    BY <2>2, <2>3, <2>4
<1>7. tree' \in [Keys -> Nat] /\ tree'[k] = l /\ \A j \in Keys \ {k} : tree'[j] = tree[j]
  BY <1>1, <1>3 DEF Types, HeapTypes
<1>8. HeapTypes'
  BY <1>3, <1>5, <1>6, <1>7 DEF Types, HeapTypes, HeapStays, Grows
<1> QED
  BY <1>1, <1>2, <1>5, <1>7, <1>8 DEF i, l

LEMMA RemovedHeap ==
    ASSUME Types, NEW c \in Cores, RemoveTombstone(c)
    PROVE  LET i == Tombstone(c)
           IN  /\ HeapTypes' /\ HeapStays /\ i \in DOMAIN heap /\ heap[i].key \in Keys
               /\ DOMAIN heap' = DOMAIN heap /\ heap'[i] = Removed(i)
               /\ \A j \in DOMAIN heap \ {i} : heap'[j] = heap[j]
               /\ tree' \in [Keys -> Nat] /\ tree'[heap[i].key] = Nil
               /\ \A j \in Keys \ {heap[i].key} : tree'[j] = tree[j]
<1> DEFINE i == Tombstone(c)
           k == heap[i].key
<1>1. i \in DOMAIN heap /\ k \in Keys /\ tree' = [tree EXCEPT ![k] = Nil]
  <2>1. txn[c].pc = "remove" /\ scratch[c] # <<>>
    BY DEF RemoveTombstone, Types, GcTypes, Examining
  <2> QED
    BY <2>1, TombstoneTypes, TupleFields DEF RemoveTombstone
<1>2. /\ heap' \in Seq(Tuples) /\ DOMAIN heap' = DOMAIN heap
      /\ heap'[i] = Removed(i) /\ \A j \in DOMAIN heap \ {i} : heap'[j] = heap[j]
  BY <1>1, RemovedStep DEF Types, HeapTypes
<1>3. Removed(i).key = heap[i].key /\ Removed(i).m_lock = heap[i].m_lock /\ Removed(i).next = heap[i].next
  BY <1>1, RemovedFields DEF Types, HeapTypes
<1> HIDE DEF i, k
<1>4. HeapStays
  BY <1>1, <1>2, <1>3 DEF HeapStays, Grows
<1>5. tree' \in [Keys -> Nat] /\ tree'[k] = Nil /\ \A j \in Keys \ {k} : tree'[j] = tree[j]
  BY <1>1 DEF Types, HeapTypes, Nil
<1>6. \A j \in DOMAIN heap : heap'[j].next = heap[j].next
  BY <1>1, <1>2, <1>3
<1>7. HeapTypes'
  BY <1>2, <1>5, <1>6 DEF Types, HeapTypes
<1> QED
  BY <1>1, <1>2, <1>4, <1>5, <1>7 DEF i, k

-----------------------------------------------------------------------------
(* Collection keeps its types.                                             *)
Waiting == Examining \cup {"wait"}

LEMMA GcKept ==
    ASSUME Types, Grows, UNCHANGED <<scratch, reaped, mcs>>,
           \/ UNCHANGED queue
           \/ /\ queue' \in [Cores -> Seq(Entries)]
              /\ \A d \in Cores : \A n \in DOMAIN queue'[d] : queue'[d][n].tuple \in DOMAIN heap',
           \A r \in retired' : r \in [tuple : DOMAIN heap', regions : SUBSET Cores],
           freed' \subseteq DOMAIN heap',
           \A d \in Cores : txn'[d].pc \notin Collecting => txn[d].pc \notin Collecting \/ scratch[d] = <<>>,
           \A d \in Cores : txn'[d].pc \in Waiting => txn[d].pc \in Waiting
    PROVE  GcTypes'
<1>1. queue' \in [Cores -> Seq(Entries)] /\ \A d \in Cores : \A n \in DOMAIN queue'[d] : queue'[d][n].tuple \in DOMAIN heap'
  BY DEF Types, GcTypes, Grows
<1>2. \A d \in Cores : \A n \in DOMAIN scratch'[d] : scratch'[d][n].tuple \in DOMAIN heap'
  BY DEF Types, GcTypes, Grows
<1>3. \A d \in Cores : txn'[d].pc \notin Collecting => scratch'[d] = <<>>
  BY DEF Types, GcTypes
<1>4. \A d \in Cores : txn'[d].pc \in Examining \cup {"wait"} => scratch'[d] # <<>> /\ Head(scratch'[d]).key
  BY DEF Types, GcTypes, Waiting
<1>5. scratch' \in [Cores -> Seq(Entries)] /\ reaped' \in [Cores -> Int] /\ mcs' \in [Keys -> Seq(Cores)]
  BY DEF Types, GcTypes
<1> QED
  BY <1>1, <1>2, <1>3, <1>4, <1>5 DEF GcTypes

LEMMA GcSame ==
    ASSUME Types, Grows, SameGc,
           \A d \in Cores : txn'[d].pc \notin Collecting => txn[d].pc \notin Collecting \/ scratch[d] = <<>>,
           \A d \in Cores : txn'[d].pc \in Waiting => txn[d].pc \in Waiting
    PROVE  GcTypes'
<1>1. UNCHANGED <<queue, scratch, reaped, mcs, retired, freed>>
  BY DEF SameGc, gc
<1>2. \A r \in retired' : r \in [tuple : DOMAIN heap', regions : SUBSET Cores]
  BY <1>1 DEF Types, GcTypes, Grows
<1>3. freed' \subseteq DOMAIN heap'
  BY <1>1 DEF Types, GcTypes, Grows
<1> QED
  BY <1>1, <1>2, <1>3, GcKept

LEMMA McsKept ==
    ASSUME Types, HeapStays, UNCHANGED mcs,
           \A d \in Cores : txn[d].pc \in Waiting => scratch'[d] = scratch[d],
           \A d \in Cores : txn'[d].pc \in Examining <=> txn[d].pc \in Examining,
           \A d \in Cores : txn'[d].pc = "wait" <=> txn[d].pc = "wait"
    PROVE  McsInv'
<1> DEFINE Tomb(d) == Head(scratch'[d]).tuple
<1>1. ASSUME NEW d \in Cores, txn[d].pc \in Waiting
      PROVE  Tomb(d) = Tombstone(d) /\ heap'[Tomb(d)].m_lock = heap[Tombstone(d)].m_lock
  <2>1. scratch[d] # <<>>
    BY <1>1 DEF Types, GcTypes, Waiting
  <2>2. Tombstone(d) \in DOMAIN heap
    BY <2>1, TombstoneTypes
  <2> QED
    BY <1>1, <2>2 DEF Tombstone, HeapStays
<1>2. \A m \in Keys : \A n \in DOMAIN mcs[m] : mcs[m][n] \in Cores /\ txn[mcs[m][n]].pc \in Waiting
  <2> SUFFICES ASSUME NEW m \in Keys, NEW n \in DOMAIN mcs[m]
               PROVE  mcs[m][n] \in Cores /\ txn[mcs[m][n]].pc \in Waiting
    OBVIOUS
  <2>1. mcs[m] \in Seq(Cores)
    BY DEF Types, GcTypes
  <2> QED
    BY <2>1 DEF Types, McsInv, Waiting
<1>3. \A m \in Keys : \A n \in DOMAIN mcs'[m] :
          /\ txn'[mcs'[m][n]].pc \in IF n = 1 THEN Examining ELSE {"wait"}
          /\ heap'[Tomb(mcs'[m][n])].m_lock = m
  BY <1>1, <1>2 DEF Types, McsInv
<1>4. \A d \in Cores : txn'[d].pc \in Examining \cup {"wait"} =>
          \E n \in DOMAIN mcs'[heap'[Tomb(d)].m_lock] : mcs'[heap'[Tomb(d)].m_lock][n] = d
  BY <1>1 DEF Types, McsInv, Waiting
<1>5. \A m \in Keys : \A i, j \in DOMAIN mcs'[m] : mcs'[m][i] = mcs'[m][j] => i = j
  BY DEF Types, McsInv
<1> QED
  BY <1>3, <1>4, <1>5 DEF McsInv, Tombstone

(* A step of c outside of the collection.                                  *)
LEMMA QuietStep ==
    ASSUME Types, HeapStays, SameGc, NEW c \in Cores, OthersSame(c),
           txn[c].pc \notin Collecting, txn'[c].pc \notin Collecting
    PROVE  GcTypes' /\ McsInv'
<1>1. /\ \A d \in Cores : txn'[d].pc \notin Collecting => txn[d].pc \notin Collecting \/ scratch[d] = <<>>
      /\ \A d \in Cores : txn'[d].pc \in Waiting => txn[d].pc \in Waiting
      /\ \A d \in Cores : txn'[d].pc \in Examining <=> txn[d].pc \in Examining
      /\ \A d \in Cores : txn'[d].pc = "wait" <=> txn[d].pc = "wait"
  BY DEF OthersSame, Types, GcTypes, Collecting, Waiting
<1>2. UNCHANGED <<mcs, scratch>>
  BY DEF SameGc, gc
<1> QED
  BY <1>1, <1>2, GcSame, McsKept DEF HeapStays

-----------------------------------------------------------------------------
(* Ticks, regions and the rest.                                            *)
Active == Writing \cup Reading \cup {"committed", "end"}

LEMMA MiscKept ==
    ASSUME Types, last_commit_tid' \in [Cores -> Nat], begun' \in 0..MaxTxns,
           installs' \in [Keys -> Seq(Installs)], UNCHANGED vars,
           \A d \in Cores : txn'[d].pc \in Active => txn[d].pc \in Active
    PROVE  MiscTypes'
BY DEF Types, MiscTypes, vars, Active

LEMMA MiscSame ==
    ASSUME Types, UNCHANGED <<last_commit_tid, begun, installs, vars>>,
           \A d \in Cores : txn'[d].pc \in Active => txn[d].pc \in Active
    PROVE  MiscTypes'
<1>1. last_commit_tid' \in [Cores -> Nat] /\ begun' \in 0..MaxTxns /\ installs' \in [Keys -> Seq(Installs)]
  BY DEF Types, MiscTypes
<1> QED
  BY <1>1, MiscKept

LEMMA MiscStart ==
    ASSUME Types, NEW c \in Cores, Start(c), begun' \in 0..MaxTxns,
           UNCHANGED <<last_commit_tid, installs>>,
           \A d \in Cores \ {c} : txn'[d] = txn[d]
    PROVE  MiscTypes' /\ region' = [region EXCEPT ![c] = now] /\ now' = now /\ over' = over
<1>1. region' = [region EXCEPT ![c] = now] /\ now' = now /\ over' = over
  BY DEF Start
<1>2. now \in 0..MaxTick /\ now # None /\ over < now
  BY Spans DEF Types, MiscTypes, None
<1>3. region' \in [Cores -> 0..MaxTick] /\ region'[c] = now /\ \A d \in Cores \ {c} : region'[d] = region[d]
  BY <1>1, <1>2 DEF Types, MiscTypes
<1>4. \A d \in Cores : region'[d] # None => over' < region'[d] /\ region'[d] <= now'
  BY <1>1, <1>2, <1>3 DEF Types, MiscTypes
<1>5. \A d \in Cores : txn'[d].pc \in Active => region'[d] # None
  BY <1>2, <1>3 DEF Types, MiscTypes, Active
<1> QED
  BY <1>1, <1>3, <1>4, <1>5 DEF Types, MiscTypes, Active

LEMMA MiscEnd ==
    ASSUME Types, NEW c \in Cores, End(c), UNCHANGED <<last_commit_tid, installs, begun>>,
           OthersSame(c), txn'[c].pc \notin Active
    PROVE  MiscTypes'
<1>1. region' = [region EXCEPT ![c] = None] /\ now' = now /\ over' = over
  BY DEF End
<1>2. region' \in [Cores -> 0..MaxTick] /\ region'[c] = None /\ \A d \in Cores \ {c} : region'[d] = region[d]
  BY <1>1, Spans DEF Types, MiscTypes, None
<1>3. \A d \in Cores : region'[d] # None => over' < region'[d] /\ region'[d] <= now'
  BY <1>1, <1>2 DEF Types, MiscTypes
<1>4. \A d \in Cores : txn'[d].pc \in Active => region'[d] # None
  BY <1>2 DEF Types, MiscTypes, Active, OthersSame
<1> QED
  BY <1>1, <1>2, <1>3, <1>4 DEF Types, MiscTypes, Active

LEMMA MiscTick ==
    ASSUME Types, Tick
    PROVE  MiscTypes'
<1>1. UNCHANGED <<txn, last_commit_tid, begun, installs, region>>
  BY DEF Tick, SameStore, Advance, DeclareOver
<1>2. CASE now < MaxTick /\ Advance
  <2>1. now' = now + 1 /\ over' = over /\ over = now - 1
    BY <1>2 DEF Advance
  <2> QED
    BY <1>1, <1>2, <2>1, Spans DEF Types, MiscTypes
<1>3. CASE over < now - 1 /\ DeclareOver
  <2>1. now' = now /\ over' = now - 1 /\ \A c \in Cores : region[c] \in {None, now}
    BY <1>3 DEF DeclareOver
  <2> QED
    BY <1>1, <2>1, Spans DEF Types, MiscTypes
<1> QED
  BY <1>2, <1>3 DEF Tick

(***************************************************************************)
(* Sequences of entries.                                                   *)
(***************************************************************************)
-----------------------------------------------------------------------------
(* Queues and scratch areas.                                               *)
LEMMA SplitSeq ==
    ASSUME NEW S, NEW q \in Seq(S), NEW n \in 0..Len(q)
    PROVE  LET a == SubSeq(q, 1, n)
               b == SubSeq(q, n + 1, Len(q))
           IN  /\ a \in Seq(S) /\ Len(a) = n /\ DOMAIN a = 1..n /\ \A i \in 1..n : a[i] = q[i]
               /\ b \in Seq(S) /\ Len(b) = Len(q) - n /\ DOMAIN b = 1..(Len(q) - n)
               /\ \A i \in 1..(Len(q) - n) : b[i] = q[n + i]
OBVIOUS

LEMMA TailSeq ==
    ASSUME NEW S, NEW q \in Seq(S), q # <<>>
    PROVE  /\ Tail(q) \in Seq(S) /\ Len(Tail(q)) = Len(q) - 1 /\ DOMAIN Tail(q) = 1..(Len(q) - 1)
           /\ \A i \in 1..(Len(q) - 1) : Tail(q)[i] = q[i + 1] /\ i + 1 \in DOMAIN q
           /\ Len(q) \in Nat \ {0} /\ DOMAIN q = 1..Len(q) /\ 1 \in DOMAIN q /\ Head(q) = q[1] /\ q[1] \in S
OBVIOUS

LEMMA AppendSeq ==
    ASSUME NEW S, NEW q \in Seq(S), NEW e \in S
    PROVE  /\ Append(q, e) \in Seq(S) /\ Len(Append(q, e)) = Len(q) + 1
           /\ DOMAIN Append(q, e) = 1..(Len(q) + 1) /\ DOMAIN q = 1..Len(q) /\ Len(q) \in Nat
           /\ \A i \in 1..Len(q) : Append(q, e)[i] = q[i]
           /\ Append(q, e)[Len(q) + 1] = e /\ Append(q, e) # <<>>
OBVIOUS

LEMMA EntryTypes ==
    ASSUME NEW i \in Nat, NEW tick \in Nat, NEW key \in BOOLEAN
    PROVE  /\ Entry(i, tick, key) \in Entries /\ Entry(i, tick, key).tuple = i
           /\ Entry(i, tick, key).tick = tick /\ Entry(i, tick, key).key = key
BY DEF Entry, Entries

(* The entries that an install adds to a queue.                            *)
LEMMA ConcatSeq ==
    ASSUME NEW S, NEW q \in Seq(S), NEW r \in Seq(S)
    PROVE  /\ q \o r \in Seq(S) /\ Len(q \o r) = Len(q) + Len(r)
           /\ DOMAIN (q \o r) = 1..(Len(q) + Len(r)) /\ DOMAIN q = 1..Len(q) /\ DOMAIN r = 1..Len(r)
           /\ Len(q) \in Nat /\ Len(r) \in Nat
           /\ \A i \in 1..Len(q) : (q \o r)[i] = q[i]
           /\ \A i \in 1..Len(r) : (q \o r)[Len(q) + i] = r[i]
OBVIOUS

LEMMA ConcatRange ==
    ASSUME NEW S, NEW q \in Seq(S), NEW r \in Seq(S), NEW n \in DOMAIN (q \o r)
    PROVE  \/ n \in DOMAIN q /\ (q \o r)[n] = q[n]
           \/ n - Len(q) \in DOMAIN r /\ (q \o r)[n] = r[n - Len(q)] /\ n = Len(q) + (n - Len(q))
<1> DEFINE m == n - Len(q)
<1>1. /\ DOMAIN (q \o r) = 1..(Len(q) + Len(r)) /\ DOMAIN q = 1..Len(q) /\ DOMAIN r = 1..Len(r)
      /\ Len(q) \in Nat /\ Len(r) \in Nat
  BY ConcatSeq
<1>2. CASE n \in 1..Len(q)
  BY <1>1, <1>2, ConcatSeq
<1>3. CASE n \notin 1..Len(q)
  <2>1. m \in 1..Len(r) /\ n = Len(q) + m
    BY <1>1, <1>3
  <2>2. (q \o r)[Len(q) + m] = r[m]
    BY <2>1, ConcatSeq
  <2> QED
    BY <1>1, <2>1, <2>2
<1> QED
  BY <1>2, <1>3

(* What is queued by an install is at the end of the queue, once each.     *)
LEMMA InstalledQueue ==
    ASSUME Types, NEW c \in Cores, NEW k, NEW delete, NEW r \in Seq(Entries), Installed(c, k, delete, r)
    PROVE  /\ queue' \in [Cores -> Seq(Entries)] /\ queue'[c] = queue[c] \o r
           /\ \A d \in Cores \ {c} : queue'[d] = queue[d]
           /\ UNCHANGED <<scratch, reaped, retired, freed, mcs>>
<1>1. queue' = [queue EXCEPT ![c] = queue[c] \o r] /\ UNCHANGED <<scratch, reaped, retired, freed, mcs>>
  BY DEF Installed
<1>2. queue[c] \o r \in Seq(Entries)
  BY ConcatSeq DEF Types, GcTypes
<1> QED
  BY <1>1, <1>2 DEF Types, GcTypes

LEMMA InstalledGc ==
    ASSUME Types, HeapStays, NEW c \in Cores, NEW k \in Keys, NEW delete \in BOOLEAN, NEW r \in Seq(Entries),
           Installed(c, k, delete, r), txn[c].pc = "install",
           \A n \in DOMAIN r : r[n].tuple \in DOMAIN heap'
    PROVE  GcTypes' /\ McsInv' /\ MiscTypes'
<1>1. /\ queue' \in [Cores -> Seq(Entries)] /\ queue'[c] = queue[c] \o r
      /\ \A d \in Cores \ {c} : queue'[d] = queue[d]
      /\ UNCHANGED <<scratch, reaped, retired, freed, mcs>>
  BY InstalledQueue
<1>2. ASSUME NEW d \in Cores, NEW n \in DOMAIN queue'[d] PROVE queue'[d][n].tuple \in DOMAIN heap'
  <2>1. \A e \in Cores : \A m \in DOMAIN queue[e] : queue[e][m].tuple \in DOMAIN heap'
    BY DEF Types, GcTypes, HeapStays, Grows
  <2>2. CASE d = c
    <3> DEFINE q == queue[c]
    <3>1. q \in Seq(Entries) /\ queue'[d] = q \o r /\ n \in DOMAIN (q \o r)
      BY <1>1, <2>2 DEF Types, GcTypes
    <3>2. \A m \in DOMAIN q : q[m].tuple \in DOMAIN heap'
      BY <2>1
    <3> HIDE DEF q
    <3>3. \/ n \in DOMAIN q /\ (q \o r)[n] = q[n]
          \/ n - Len(q) \in DOMAIN r /\ (q \o r)[n] = r[n - Len(q)]
      BY <3>1, ConcatRange
    <3> QED
      BY <3>1, <3>2, <3>3
  <2>3. CASE d # c
    BY <1>1, <2>1, <2>3
  <2> QED
    BY <2>2, <2>3
<1>3. OthersSame(c) /\ txn'[c].pc \in {"install", "committed"}
  <2>1. txn'[c] = InstalledState(c, k) /\ OthersSame(c)
    BY InstalledStep
  <2> QED
    BY <2>1, InstalledFields
<1>4. /\ \A d \in Cores : txn'[d].pc \notin Collecting => txn[d].pc \notin Collecting \/ scratch[d] = <<>>
      /\ \A d \in Cores : txn'[d].pc \in Waiting => txn[d].pc \in Waiting
      /\ \A d \in Cores : txn'[d].pc \in Examining <=> txn[d].pc \in Examining
      /\ \A d \in Cores : txn'[d].pc = "wait" <=> txn[d].pc = "wait"
      /\ \A d \in Cores : txn'[d].pc \in Active => txn[d].pc \in Active
  BY <1>3 DEF OthersSame, Collecting, Waiting, Examining, Active, Writing
<1>5. \A x \in retired' : x \in [tuple : DOMAIN heap', regions : SUBSET Cores]
  BY <1>1 DEF Types, GcTypes, HeapStays, Grows
<1>6. freed' \subseteq DOMAIN heap'
  BY <1>1 DEF Types, GcTypes, HeapStays, Grows
<1>7. GcTypes'
  BY <1>1, <1>2, <1>4, <1>5, <1>6, GcKept DEF HeapStays
<1>8. McsInv'
  BY <1>1, <1>4, McsKept
<1>9. MiscTypes'
  <2>1. last_commit_tid' = last_commit_tid /\ begun' = begun /\ UNCHANGED vars
    BY DEF Installed
  <2>2. [tid |-> txn[c].t, deleted |-> delete] \in Installs
    BY TxnFields DEF Types, TxnTypes, Installs
  <2>3. installs' = [installs EXCEPT ![k] = Append(installs[k], [tid |-> txn[c].t, deleted |-> delete])]
    BY DEF Installed
  <2>4. Append(installs[k], [tid |-> txn[c].t, deleted |-> delete]) \in Seq(Installs)
    BY <2>2, AppendSeq DEF Types, MiscTypes
  <2>5. installs' \in [Keys -> Seq(Installs)]
    BY <2>3, <2>4 DEF Types, MiscTypes
  <2> QED
    BY <1>4, <2>1, <2>5, MiscKept DEF Types, MiscTypes
<1> QED
  BY <1>7, <1>8, <1>9

(***************************************************************************)
(* The types: the steps of a transaction.                                  *)
(***************************************************************************)
-----------------------------------------------------------------------------
LEMMA OneOrNone ==
    ASSUME NEW e \in Entries
    PROVE  <<e>> \o <<>> = <<e>> /\ <<>> \o <<e>> = <<e>> /\ <<>> \o <<>> = <<>>
OBVIOUS

LEMMA TwoLong ==
    ASSUME NEW e1 \in Entries, NEW e2 \in Entries, NEW r, r = <<e1>> \o <<e2>>
    PROVE  /\ r \in Seq(Entries) /\ DOMAIN r = 1..2 /\ r[1] = e1 /\ r[2] = e2
           /\ 1 \in DOMAIN r /\ 2 \in DOMAIN r /\ \A n \in DOMAIN r : n = 1 \/ n = 2
<1> DEFINE p == <<e1>>
           q == <<e2>>
<1>1. p \in Seq(Entries) /\ q \in Seq(Entries) /\ Len(p) = 1 /\ Len(q) = 1 /\ p[1] = e1 /\ q[1] = e2
  OBVIOUS
<1>2. r = p \o q
  OBVIOUS
<1> HIDE DEF p, q
<1>3. r \in Seq(Entries) /\ DOMAIN r = 1..2 /\ r[1] = p[1] /\ r[2] = q[1]
  BY <1>1, <1>2, ConcatSeq
<1> QED
  BY <1>1, <1>3

LEMMA OneLong ==
    ASSUME NEW e \in Entries, NEW r, r = <<e>>
    PROVE  /\ r \in Seq(Entries) /\ DOMAIN r = 1..1 /\ r[1] = e
           /\ 1 \in DOMAIN r /\ \A n \in DOMAIN r : n = 1
OBVIOUS

(* Every step keeps the types.                                             *)
Keeps == Types' /\ HeapStays

LEMMA NowTypes ==
    ASSUME Types, NEW c \in Cores
    PROVE  /\ now \in Nat /\ now > 0 /\ over \in Nat /\ to_read_only_tick(now) \in Nat
           /\ txn[c].t \in Nat /\ to_read_only_tick(EpochId(txn[c].t)) \in Nat
<1>1. now \in Nat /\ now > 0 /\ over \in Nat
  BY DEF Types, MiscTypes
<1>2. txn[c].t \in Nat
  BY TxnFields DEF Types, TxnTypes
<1>3. EpochId(txn[c].t) \in Nat
  BY <1>2, EpochMono
<1> QED
  BY <1>1, <1>2, <1>3, ReadOnly

InPlaceEntries(c, k, delete) ==
    EntryIf(Keep(c, k), Entry(Len(heap) + 1, to_read_only_tick(EpochId(txn[c].t)), FALSE))
      \o EntryIf(delete, Entry(txn[c].refs[k], to_read_only_tick(EpochId(txn[c].t)), TRUE))
ReplacedEntries(c, k, delete) ==
    EntryIf(QueuedBySpill(txn[c].refs[k]), Entry(txn[c].refs[k], to_read_only_tick(EpochId(txn[c].t)), FALSE))
      \o EntryIf(delete, Entry(Len(heap) + 1, to_read_only_tick(EpochId(txn[c].t)), TRUE))

LEMMA InPlaceEntriesAre ==
    ASSUME Types, NEW c \in Cores, NEW k \in Keys, NEW delete \in BOOLEAN, txn[c].refs[k] \in DOMAIN heap
    PROVE  LET r == InPlaceEntries(c, k, delete)
               i == txn[c].refs[k]
               l == Len(heap) + 1
               tick == to_read_only_tick(EpochId(txn[c].t))
           IN  /\ r \in Seq(Entries)
               /\ \A n \in DOMAIN r :
                     \/ Keep(c, k) /\ r[n].tuple = l /\ r[n].tick = tick /\ ~r[n].key /\ n = 1
                     \/ delete /\ r[n].tuple = i /\ r[n].tick = tick /\ r[n].key
                        /\ n = IF Keep(c, k) THEN 2 ELSE 1
               /\ Keep(c, k) => \E n \in DOMAIN r : r[n].tuple = l
               /\ delete => \E n \in DOMAIN r : r[n].tuple = i
<1> DEFINE i == txn[c].refs[k]
           l == Len(heap) + 1
           tick == to_read_only_tick(EpochId(txn[c].t))
           e1 == Entry(l, tick, FALSE)
           e2 == Entry(i, tick, TRUE)
           b1 == Keep(c, k)
           r == EntryIf(b1, e1) \o EntryIf(delete, e2)
<1>1. i \in Nat /\ l \in Nat /\ tick \in Nat /\ b1 \in BOOLEAN
  BY HeapLen, NowTypes DEF Types, HeapTypes, Keep
<1> HIDE DEF i, l, tick, b1
<1>2. /\ e1 \in Entries /\ e1.tuple = l /\ e1.tick = tick /\ e1.key = FALSE
      /\ e2 \in Entries /\ e2.tuple = i /\ e2.tick = tick /\ e2.key = TRUE
  BY <1>1, EntryTypes
<1> HIDE DEF e1, e2
<1>3. /\ r \in Seq(Entries)
      /\ \A n \in DOMAIN r : \/ b1 /\ r[n] = e1 /\ n = 1
                             \/ delete /\ r[n] = e2 /\ n = IF b1 THEN 2 ELSE 1
      /\ b1 => 1 \in DOMAIN r /\ r[1] = e1
      /\ delete => \E n \in DOMAIN r : r[n] = e2
  <2>1. CASE b1 /\ delete
    <3>1. r = <<e1>> \o <<e2>>
      BY <2>1 DEF EntryIf
    <3> HIDE DEF r
    <3>2. /\ r \in Seq(Entries) /\ DOMAIN r = 1..2 /\ r[1] = e1 /\ r[2] = e2
          /\ 1 \in DOMAIN r /\ 2 \in DOMAIN r /\ \A n \in DOMAIN r : n = 1 \/ n = 2
      BY <1>2, <3>1, TwoLong
    <3>3. \A n \in DOMAIN r : (r[n] = e1 /\ n = 1) \/ (r[n] = e2 /\ n = 2)
      BY <3>2
    <3> QED
      BY <2>1, <3>2, <3>3
  <2>2. CASE b1 /\ ~delete
    <3>1. r = <<e1>> \o <<>>
      BY <2>2 DEF EntryIf
    <3> HIDE DEF r
    <3>2. r = <<e1>>
      BY <1>2, <3>1, OneOrNone
    <3> QED
      BY <1>2, <2>2, <3>2, OneLong
  <2>3. CASE ~b1 /\ delete
    <3>1. r = <<>> \o <<e2>>
      BY <2>3 DEF EntryIf
    <3> HIDE DEF r
    <3>2. r = <<e2>>
      BY <1>2, <3>1, OneOrNone
    <3> QED
      BY <1>2, <2>3, <3>2, OneLong
  <2>4. CASE ~b1 /\ ~delete
    <3>1. r = <<>> \o <<>>
      BY <2>4 DEF EntryIf
    <3> HIDE DEF r
    <3>2. r = <<>>
      BY <1>2, <3>1, OneOrNone
    <3> QED
      BY <1>2, <2>4, <3>2
  <2> QED
    BY <2>1, <2>2, <2>3, <2>4
<1> HIDE DEF r
<1>4. r = InPlaceEntries(c, k, delete)
  BY DEF r, InPlaceEntries, b1, e1, e2, l, tick, i
<1>5. /\ \A n \in DOMAIN r :
                     \/ b1 /\ r[n].tuple = l /\ r[n].tick = tick /\ ~r[n].key /\ n = 1
                     \/ delete /\ r[n].tuple = i /\ r[n].tick = tick /\ r[n].key
                        /\ n = IF b1 THEN 2 ELSE 1
      /\ b1 => \E n \in DOMAIN r : r[n].tuple = l
      /\ delete => \E n \in DOMAIN r : r[n].tuple = i
  BY <1>2, <1>3
<1> QED
  BY <1>3, <1>4, <1>5 DEF b1, l, tick, i

LEMMA ReplacedEntriesAre ==
    ASSUME Types, NEW c \in Cores, NEW k \in Keys, NEW delete \in BOOLEAN, txn[c].refs[k] \in DOMAIN heap
    PROVE  LET r == ReplacedEntries(c, k, delete)
               i == txn[c].refs[k]
               l == Len(heap) + 1
               tick == to_read_only_tick(EpochId(txn[c].t))
           IN  /\ r \in Seq(Entries)
               /\ \A n \in DOMAIN r :
                     \/ ~heap[i].deleting /\ r[n].tuple = i /\ r[n].tick = tick /\ ~r[n].key /\ n = 1
                     \/ delete /\ r[n].tuple = l /\ r[n].tick = tick /\ r[n].key
                        /\ n = IF ~heap[i].deleting THEN 2 ELSE 1
               /\ ~heap[i].deleting => \E n \in DOMAIN r : r[n].tuple = i
               /\ delete => \E n \in DOMAIN r : r[n].tuple = l
<1> DEFINE i == txn[c].refs[k]
           l == Len(heap) + 1
           tick == to_read_only_tick(EpochId(txn[c].t))
           e1 == Entry(i, tick, FALSE)
           e2 == Entry(l, tick, TRUE)
           b1 == ~heap[i].deleting
           r == EntryIf(b1, e1) \o EntryIf(delete, e2)
<1>1. i \in Nat /\ l \in Nat /\ tick \in Nat /\ b1 \in BOOLEAN
  BY HeapLen, NowTypes DEF Types, HeapTypes
<1>0. b1 = QueuedBySpill(i)
  BY DEF QueuedBySpill
<1> HIDE DEF i, l, tick, b1
<1>2. /\ e1 \in Entries /\ e1.tuple = i /\ e1.tick = tick /\ e1.key = FALSE
      /\ e2 \in Entries /\ e2.tuple = l /\ e2.tick = tick /\ e2.key = TRUE
  BY <1>1, EntryTypes
<1> HIDE DEF e1, e2
<1>3. /\ r \in Seq(Entries)
      /\ \A n \in DOMAIN r : \/ b1 /\ r[n] = e1 /\ n = 1
                             \/ delete /\ r[n] = e2 /\ n = IF b1 THEN 2 ELSE 1
      /\ b1 => 1 \in DOMAIN r /\ r[1] = e1
      /\ delete => \E n \in DOMAIN r : r[n] = e2
  <2>1. CASE b1 /\ delete
    <3>1. r = <<e1>> \o <<e2>>
      BY <2>1 DEF EntryIf
    <3> HIDE DEF r
    <3>2. /\ r \in Seq(Entries) /\ DOMAIN r = 1..2 /\ r[1] = e1 /\ r[2] = e2
          /\ 1 \in DOMAIN r /\ 2 \in DOMAIN r /\ \A n \in DOMAIN r : n = 1 \/ n = 2
      BY <1>2, <3>1, TwoLong
    <3>3. \A n \in DOMAIN r : (r[n] = e1 /\ n = 1) \/ (r[n] = e2 /\ n = 2)
      BY <3>2
    <3> QED
      BY <2>1, <3>2, <3>3
  <2>2. CASE b1 /\ ~delete
    <3>1. r = <<e1>> \o <<>>
      BY <2>2 DEF EntryIf
    <3> HIDE DEF r
    <3>2. r = <<e1>>
      BY <1>2, <3>1, OneOrNone
    <3> QED
      BY <1>2, <2>2, <3>2, OneLong
  <2>3. CASE ~b1 /\ delete
    <3>1. r = <<>> \o <<e2>>
      BY <2>3 DEF EntryIf
    <3> HIDE DEF r
    <3>2. r = <<e2>>
      BY <1>2, <3>1, OneOrNone
    <3> QED
      BY <1>2, <2>3, <3>2, OneLong
  <2>4. CASE ~b1 /\ ~delete
    <3>1. r = <<>> \o <<>>
      BY <2>4 DEF EntryIf
    <3> HIDE DEF r
    <3>2. r = <<>>
      BY <1>2, <3>1, OneOrNone
    <3> QED
      BY <1>2, <2>4, <3>2
  <2> QED
    BY <2>1, <2>2, <2>3, <2>4
<1>4. r = ReplacedEntries(c, k, delete)
  BY <1>0 DEF ReplacedEntries, e1, e2, l, tick, i
<1> HIDE DEF r
<1>5. /\ \A n \in DOMAIN r :
                     \/ b1 /\ r[n].tuple = i /\ r[n].tick = tick /\ ~r[n].key /\ n = 1
                     \/ delete /\ r[n].tuple = l /\ r[n].tick = tick /\ r[n].key
                        /\ n = IF b1 THEN 2 ELSE 1
      /\ b1 => \E n \in DOMAIN r : r[n].tuple = i
      /\ delete => \E n \in DOMAIN r : r[n].tuple = l
  BY <1>2, <1>3
<1> QED
  BY <1>3, <1>4, <1>5 DEF b1, l, tick, i

LEMMA InPlaceKeeps ==
    ASSUME Types, NEW c \in Cores, NEW k \in Keys, NEW delete \in BOOLEAN, InstallInPlace(c, k, delete)
    PROVE  Keeps
<1> DEFINE r == InPlaceEntries(c, k, delete)
<1>1. /\ HeapTypes' /\ HeapStays /\ InPlace(c, k, delete) /\ txn[c].refs[k] \in DOMAIN heap
      /\ Len(heap) + 1 \in Nat
  BY InPlaceHeap, HeapLen, SMTT(30) DEF Types, HeapTypes
<1>2. Installed(c, k, delete, r) /\ txn[c].pc = "install"
  BY DEF InstallInPlace, InPlaceEntries, Keep
<1>3. r \in Seq(Entries) /\ \A n \in DOMAIN r : r[n].tuple \in DOMAIN heap'
  <2>1. txn[c].refs[k] \in DOMAIN heap'
    BY <1>1 DEF HeapStays, Grows
  <2>2. Keep(c, k) => Len(heap) + 1 \in DOMAIN heap'
    BY <1>1 DEF InPlace
  <2> HIDE DEF r
  <2> QED
    BY <1>1, <2>1, <2>2, InPlaceEntriesAre DEF r
<1> HIDE DEF r
<1>4. TxnTypes'
  BY <1>1, <1>2, InstalledTypes DEF HeapStays
<1>5. GcTypes' /\ McsInv' /\ MiscTypes'
  BY <1>1, <1>2, <1>3, InstalledGc
<1> QED
  BY <1>1, <1>4, <1>5 DEF Types, Keeps

LEMMA ReplacedKeeps ==
    ASSUME Types, NEW c \in Cores, NEW k \in Keys, NEW delete \in BOOLEAN, InstallReplacement(c, k, delete)
    PROVE  Keeps
<1> DEFINE r == ReplacedEntries(c, k, delete)
<1>1. /\ HeapTypes' /\ HeapStays /\ Replaced(c, k, delete) /\ txn[c].refs[k] \in DOMAIN heap
  BY ReplacedHeap
<1>2. Installed(c, k, delete, r) /\ txn[c].pc = "install"
  BY DEF InstallReplacement, ReplacedEntries
<1>3. r \in Seq(Entries) /\ \A n \in DOMAIN r : r[n].tuple \in DOMAIN heap'
  <2>1. txn[c].refs[k] \in DOMAIN heap'
    BY <1>1 DEF HeapStays, Grows
  <2>2. Len(heap) + 1 \in DOMAIN heap'
    BY <1>1 DEF Replaced
  <2> HIDE DEF r
  <2> QED
    BY <1>1, <2>1, <2>2, ReplacedEntriesAre DEF r
<1> HIDE DEF r
<1>4. TxnTypes'
  BY <1>1, <1>2, InstalledTypes DEF HeapStays
<1>5. GcTypes' /\ McsInv' /\ MiscTypes'
  BY <1>1, <1>2, <1>3, InstalledGc
<1> QED
  BY <1>1, <1>4, <1>5 DEF Types, Keeps

(* Steps of a transaction that touch neither heap nor queues.              *)
LEMMA QuietKeeps ==
    ASSUME Types, TxnTypes', SameStore, SameGc, UNCHANGED vars, UNCHANGED begun,
           NEW c \in Cores, OthersSame(c),
           txn[c].pc \notin Collecting, txn'[c].pc \notin Collecting,
           txn'[c].pc \in Active => txn[c].pc \in Active
    PROVE  Keeps
<1>1. HeapTypes' /\ HeapStays
  BY HeapSame DEF SameStore, Types
<1>2. GcTypes' /\ McsInv'
  BY <1>1, QuietStep
<1>3. \A d \in Cores : txn'[d].pc \in Active => txn[d].pc \in Active
  BY DEF OthersSame
<1>4. MiscTypes'
  BY <1>3, MiscSame DEF SameStore
<1> QED
  BY <1>1, <1>2, <1>4 DEF Types, Keeps

LEMMA BeginKeeps ==
    ASSUME Types, NEW c \in Cores, Begin(c)
    PROVE  Keeps
<1>1. PICK p \in ProgramSet : txn'[c] = BeginState(p) /\ OthersSame(c)
  BY BeginStep
<1>2. txn'[c].pc = IF p.snapshot THEN "begin" ELSE "run"
  BY <1>1 DEF BeginState, Idle
<1>3. TxnTypes'
  BY BeginTypes
<1>4. HeapTypes' /\ HeapStays
  BY HeapSame DEF Begin, SameStore, Types
<1>5. GcTypes' /\ McsInv'
  BY <1>1, <1>2, <1>4, QuietStep DEF Begin, Collecting, Examining
<1>6. MiscTypes'
  <2>1. begun' \in 0..MaxTxns
    <3>1. begun \in 0..MaxTxns
      BY DEF Types, MiscTypes
    <3>2. begun < MaxTxns /\ begun' = begun + 1
      BY DEF Begin
    <3> QED
      BY <3>1, <3>2, Spans
  <2> QED
    BY <1>1, <2>1, MiscStart DEF Begin, SameStore, OthersSame
<1> QED
  BY <1>3, <1>4, <1>5, <1>6 DEF Types, Keeps

LEMMA AccessKeeps ==
    ASSUME Types, NEW c \in Cores, NEW k \in Keys, Access(c, k)
    PROVE  Keeps
<1>1. txn'[c] = AccessState(c, k) /\ OthersSame(c)
  BY AccessStep
<1>2. txn'[c].pc = "run" /\ txn[c].pc = "run"
  BY <1>1, AccessFields, ZenonT(40) DEF Access
<1>3. TxnTypes'
  BY AccessTypes
<1> QED
  BY <1>1, <1>2, <1>3, QuietKeeps DEF Access, Collecting, Examining

(* Steps that set or clear locks, and go on.                               *)
LEMMA LockKeeps ==
    ASSUME Types, NEW c \in Cores, NEW p \in Pcs, Go(c, p), Follows(txn[c], p),
           NEW S, NEW b \in BOOLEAN, SetLocks(S, b) \/ UNCHANGED heap,
           UNCHANGED <<tree, last_commit_tid, installs, begun>>, SameGc, UNCHANGED vars,
           txn[c].pc \notin Collecting, p \notin Collecting, p \in Active => txn[c].pc \in Active
    PROVE  Keeps
<1>1. HeapTypes' /\ HeapStays
  BY LocksHeap DEF Types
<1>2. TxnTypes' /\ Goes(c, p)
  BY <1>1, FollowsTypes DEF Types, HeapStays
<1>3. txn'[c].pc = p /\ OthersSame(c)
  BY <1>2, NewPc DEF Goes, Types, TxnTypes
<1>4. GcTypes' /\ McsInv'
  BY <1>1, <1>3, QuietStep
<1>5. \A d \in Cores : txn'[d].pc \in Active => txn[d].pc \in Active
  BY <1>3 DEF OthersSame
<1>6. MiscTypes'
  BY <1>5, MiscSame
<1> QED
  BY <1>1, <1>2, <1>4, <1>6 DEF Types, Keeps

(* The places these steps lead to.                                         *)
LEMMA LockPlaces ==
    /\ {"validate", "gen_tid", "end", "committed"} \subseteq Pcs
    /\ {"validate", "gen_tid", "end", "committed"} \cap Collecting = {}
    /\ {"run", "validate", "snapshot"} \cap Collecting = {}
    /\ {"run", "validate", "snapshot"} \subseteq Active
BY DEF Pcs, Collecting, Examining, Writing, Reading, Active

LEMMA LockWritesKeeps ==
    ASSUME Types, NEW c \in Cores, LockWrites(c)
    PROVE  Keeps
<1>0. UNCHANGED <<tree, last_commit_tid, installs, begun>> /\ SameGc /\ UNCHANGED vars
  BY DEF LockWrites
<1>1. CASE SetLocks(Writes(c), TRUE) /\ Go(c, "validate")
  <2>1. txn[c].pc = "run" /\ Follows(txn[c], "validate")
    BY DEF LockWrites, Follows
  <2> QED
    BY <1>0, <1>1, <2>1, LockPlaces, LockKeeps
<1>2. CASE UNCHANGED heap /\ Go(c, "end")
  <2>1. txn[c].pc = "run" /\ Follows(txn[c], "end")
    BY DEF LockWrites, Follows
  <2> QED
    BY <1>0, <1>2, <2>1, LockPlaces, LockKeeps
<1> QED
  BY <1>1, <1>2 DEF LockWrites

LEMMA ValidateKeeps ==
    ASSUME Types, NEW c \in Cores, Validate(c)
    PROVE  Keeps
<1>0. UNCHANGED <<tree, last_commit_tid, installs, begun>> /\ SameGc /\ UNCHANGED vars
  BY DEF Validate
<1>1. CASE UNCHANGED heap /\ Go(c, "gen_tid")
  <2>1. txn[c].pc = "validate" /\ Follows(txn[c], "gen_tid")
    BY DEF Validate, Follows
  <2> QED
    BY <1>0, <1>1, <2>1, LockPlaces, LockKeeps
<1>2. CASE SetLocks(Writes(c), FALSE) /\ Go(c, "end")
  <2>1. txn[c].pc = "validate" /\ Follows(txn[c], "end")
    BY DEF Validate, Follows
  <2> QED
    BY <1>0, <1>2, <2>1, LockPlaces, LockKeeps
<1> QED
  BY <1>1, <1>2 DEF Validate

LEMMA AbortKeeps ==
    ASSUME Types, NEW c \in Cores, Abort(c)
    PROVE  Keeps
<1>0. UNCHANGED <<tree, last_commit_tid, installs, begun>> /\ SameGc /\ UNCHANGED vars
  BY DEF Abort, SameStore
<1>1. txn[c].pc = "run" /\ Follows(txn[c], "end") /\ Go(c, "end") /\ UNCHANGED heap
  BY DEF Abort, Follows, SameStore
<1> QED
  BY <1>0, <1>1, LockPlaces, LockKeeps

LEMMA EndSnapshotKeeps ==
    ASSUME Types, NEW c \in Cores, EndSnapshot(c)
    PROVE  Keeps
<1>0. UNCHANGED <<tree, last_commit_tid, installs, begun>> /\ SameGc /\ UNCHANGED vars
  BY DEF EndSnapshot, SameStore
<1>1. txn[c].pc = "snapshot" /\ Follows(txn[c], "committed") /\ Go(c, "committed") /\ UNCHANGED heap
  BY DEF EndSnapshot, Follows, SameStore
<1> QED
  BY <1>0, <1>1, LockPlaces, LockKeeps

LEMMA GenKeeps ==
    ASSUME Types, NEW c \in Cores, gen_commit_tid(c)
    PROVE  Keeps
<1>1. /\ TxnTypes' /\ last_commit_tid' \in [Cores -> Nat]
  BY GenTypes
<1>2. txn'[c].pc = "install" /\ OthersSame(c) /\ txn[c].pc = "gen_tid"
  <2>1. PICK num \in Nums(c) :
          /\ num \in 0..(NumSpan - 1)
          /\ txn'[c] = DrawState(c, MakeTid(c, num + 1, now)) /\ OthersSame(c)
    BY GenStep
  <2>2. txn[c] \in TxnStates
    BY DEF Types, TxnTypes
  <2> QED
    BY <2>1, <2>2, ZenonT(40) DEF gen_commit_tid, DrawState, TxnStates
<1>3. HeapTypes' /\ HeapStays
  BY HeapSame DEF gen_commit_tid, Types
<1>4. GcTypes' /\ McsInv'
  BY <1>2, <1>3, QuietStep DEF gen_commit_tid, Collecting, Examining
<1>5. \A d \in Cores : txn'[d].pc \in Active => txn[d].pc \in Active
  BY <1>2 DEF OthersSame, Active, Writing
<1>6. installs' \in [Keys -> Seq(Installs)] /\ begun' \in 0..MaxTxns /\ UNCHANGED vars
  BY DEF gen_commit_tid, Types, MiscTypes
<1>7. MiscTypes'
  BY <1>1, <1>5, <1>6, MiscKept
<1> QED
  BY <1>1, <1>3, <1>4, <1>7 DEF Types, Keeps

LEMMA TakeSnapshotKeeps ==
    ASSUME Types, NEW c \in Cores, TakeSnapshot(c)
    PROVE  Keeps
<1>1. TxnTypes'
  BY TakeSnapshotTypes
<1>2. txn'[c].pc = "snapshot" /\ OthersSame(c) /\ txn[c].pc = "begin"
  BY TakeSnapshotStep, SnapFields DEF TakeSnapshot
<1> QED
  BY <1>1, <1>2, QuietKeeps DEF TakeSnapshot, Collecting, Examining, Active, Reading

LEMMA FindHeadKeeps ==
    ASSUME Types, NEW c \in Cores, NEW k \in Keys, FindHead(c, k)
    PROVE  Keeps
<1>1. txn[c].pc = "snapshot" /\ heap' = heap /\ k \in txn[c].prog.reads \ DOMAIN txn[c].got /\ Grows
  BY DEF FindHead, SameStore, Grows
<1>2. OthersSame(c) /\ (txn'[c].pc \in {"snapshot", "walk"}) /\ TxnTypes'
  <2>1. /\ OthersSame(c)
        /\ tree[k] = Nil => Finds(txn[c], txn'[c], k, MIN_TID)
        /\ tree[k] # Nil => MovesTo(txn[c], txn'[c], k, tree[k])
    BY FindHeadMoves
  <2>2. CASE tree[k] = Nil
    <3>1. TxnTypes'
      BY <1>1, <2>1, <2>2, FindsTypes
    <3> QED
      BY <2>1, <2>2, <3>1 DEF Finds
  <2>3. CASE tree[k] # Nil
    <3>1. tree[k] \in DOMAIN heap
      BY <2>3 DEF Types, HeapTypes
    <3>2. TxnTypes'
      BY <1>1, <2>1, <2>3, <3>1, MovesTypes
    <3> QED
      BY <2>1, <2>3, <3>2 DEF MovesTo
  <2> QED
    BY <2>2, <2>3
<1> QED
  BY <1>1, <1>2, QuietKeeps DEF FindHead, Collecting, Examining, Active, Reading

LEMMA WalkKeeps ==
    ASSUME Types, NEW c \in Cores, Walk(c)
    PROVE  Keeps
<1> DEFINE x == txn[c]
           n == heap[x.at]
           z == txn'[c]
           k == x.key
<1>1. x.pc = "walk" /\ heap' = heap /\ k \in x.prog.reads \ DOMAIN x.got /\ Grows
  BY DEF Walk, SameStore, Grows, Types, TxnTypes, Shape
<1>2. /\ OthersSame(c)
      /\ k \in Keys /\ x.at \in DOMAIN heap /\ n \in Tuples
      /\ n.version <= x.t => Finds(x, z, k, IF n.deleting THEN MIN_TID ELSE n.version)
      /\ ~(n.version <= x.t) /\ n.next = Nil => Finds(x, z, k, MIN_TID)
      /\ ~(n.version <= x.t) /\ n.next # Nil => MovesTo(x, z, k, n.next) /\ n.next \in DOMAIN heap
  BY WalkMoves
<1>3. \A v : Finds(x, z, k, v) => TxnTypes' /\ z.pc = "snapshot"
  BY <1>1, <1>2, FindsTypes DEF Finds
<1>4. \A i \in DOMAIN heap : MovesTo(x, z, k, i) => TxnTypes' /\ z.pc = "walk"
  BY <1>1, <1>2, MovesTypes DEF MovesTo
<1>5. TxnTypes' /\ z.pc \in {"snapshot", "walk"}
  <2> HIDE DEF x, n, z, k
  <2>1. CASE n.version <= x.t
    BY <1>2, <1>3, <2>1
  <2>2. CASE ~(n.version <= x.t)
    BY <1>2, <1>3, <1>4, <2>2
  <2> QED
    BY <2>1, <2>2
<1> QED
  BY <1>1, <1>2, <1>5, QuietKeeps DEF Walk, Collecting, Examining, Active, Reading

(***************************************************************************)
(* The types: the end of a transaction, and the collection of its          *)
(* versions.                                                               *)
(***************************************************************************)
-----------------------------------------------------------------------------
(* The steps of the collection, and of RCU and the ticker.                 *)
LEMMA EndTxnKeeps ==
    ASSUME Types, NEW c \in Cores, EndTxn(c)
    PROVE  Keeps
<1>1. TxnTypes' /\ txn'[c].pc = "post"
  BY EndTxnTypes
<1>2. OthersSame(c)
  BY EndTxnStep
<1>3. HeapTypes' /\ HeapStays
  BY HeapSame DEF EndTxn, SameStore, Types
<1>4. retired' = RegionOver(c) /\ UNCHANGED <<queue, scratch, reaped, freed, mcs, begun, last_commit_tid, installs>>
  BY DEF EndTxn, SameStore
<1>5. \A r \in retired' : r \in [tuple : DOMAIN heap', regions : SUBSET Cores]
  <2> SUFFICES ASSUME NEW r \in retired' PROVE r \in [tuple : DOMAIN heap', regions : SUBSET Cores]
    OBVIOUS
  <2>1. PICK s \in retired : r = [s EXCEPT !.regions = s.regions \ {c}]
    BY <1>4 DEF RegionOver
  <2>2. s \in [tuple : DOMAIN heap', regions : SUBSET Cores]
    BY <1>3 DEF Types, GcTypes, HeapStays, Grows
  <2> QED
    BY <2>1, <2>2
<1>6. freed' \subseteq DOMAIN heap'
  BY <1>3, <1>4 DEF Types, GcTypes, HeapStays, Grows
<1>7. txn[c].pc \notin Collecting /\ txn'[c].pc \notin Collecting
  BY <1>1 DEF EndTxn, Collecting, Examining
<1>8. /\ \A d \in Cores : txn'[d].pc \notin Collecting => txn[d].pc \notin Collecting \/ scratch[d] = <<>>
      /\ \A d \in Cores : txn'[d].pc \in Waiting => txn[d].pc \in Waiting
      /\ \A d \in Cores : txn'[d].pc \in Examining <=> txn[d].pc \in Examining
      /\ \A d \in Cores : txn'[d].pc = "wait" <=> txn[d].pc = "wait"
  BY <1>2, <1>7 DEF OthersSame, Collecting, Waiting
<1>9. GcTypes'
  BY <1>3, <1>4, <1>5, <1>6, <1>8, GcKept DEF HeapStays
<1>10. McsInv'
  BY <1>3, <1>4, <1>8, McsKept
<1>11. MiscTypes'
  <2>1. txn'[c].pc \notin Active
    BY <1>1 DEF Active, Writing, Reading
  <2> QED
    BY <1>2, <1>4, <2>1, MiscEnd DEF EndTxn
<1> QED
  BY <1>1, <1>3, <1>9, <1>10, <1>11 DEF Types, Keeps

(* The places of the collection.                                           *)
LEMMA CollectPlaces ==
    /\ Collecting \subseteq Pcs /\ Collecting \cap Active = {} /\ Waiting \subseteq Collecting
    /\ {"idle", "post"} \subseteq Pcs /\ {"idle", "post"} \cap (Collecting \cup Active) = {}
    /\ Examining = {"spin", "locked", "remove", "release"} /\ "wait" \notin Examining
    /\ "collect" \in Collecting /\ "wait" \in Collecting /\ "collect" \notin Waiting
    /\ Waiting = Examining \cup {"wait"}
BY DEF Pcs, Collecting, Examining, Writing, Reading, Active, Waiting

(* A step of c within the collection that leaves heap and regions alone.   *)
LEMMA StepMisc ==
    ASSUME Types, NEW c \in Cores, OthersSame(c), txn'[c].pc \notin Active, UNCHANGED vars,
           UNCHANGED <<last_commit_tid, begun, installs>>
    PROVE  MiscTypes'
BY MiscSame DEF OthersSame

LEMMA CollectGo ==
    ASSUME Types, Grows, NEW c \in Cores, NEW p \in Collecting \cup {"idle"}, Go(c, p),
           txn[c].pc \in Collecting \cup {"post"}
    PROVE  /\ TxnTypes' /\ OthersSame(c) /\ txn'[c].pc = p
<1>1. p \in Pcs /\ Follows(txn[c], p)
  BY CollectPlaces DEF Follows
<1>2. TxnTypes' /\ Goes(c, p)
  BY <1>1, FollowsTypes DEF Types
<1>3. txn'[c].pc = p
  BY <1>1, <1>2, NewPc DEF Goes, Types, TxnTypes
<1> QED
  BY <1>2, <1>3 DEF Goes

UpToIs(q, tick, n) == n \in UpTo(q, tick) /\ n + 1 \notin UpTo(q, tick)

LEMMA TakeStep ==
    ASSUME Types, NEW c \in Cores, on_post_rcu_region_completion(c)
    PROVE  \/ Go(c, "idle") /\ SameGc
           \/ \E n \in 0..Len(queue[c]) :
                 /\ UpToIs(queue[c], ro_tick_ex - 1, n)
                 /\ scratch' = [scratch EXCEPT ![c] = SubSeq(queue[c], 1, n)]
                 /\ queue' = [queue EXCEPT ![c] = SubSeq(queue[c], n + 1, Len(queue[c]))]
                 /\ reaped' = [reaped EXCEPT ![c] = ro_tick_ex - 1]
                 /\ Go(c, "collect") /\ UNCHANGED <<retired, freed, mcs>>
BY DEF on_post_rcu_region_completion, UpTo, UpToIs

LEMMA TakeKeeps ==
    ASSUME Types, NEW c \in Cores, on_post_rcu_region_completion(c)
    PROVE  Keeps
<1>1. txn[c].pc = "post" /\ UNCHANGED vars /\ SameStore /\ UNCHANGED begun
  BY DEF on_post_rcu_region_completion
<1>2. HeapTypes' /\ HeapStays
  BY <1>1, HeapSame DEF SameStore, Types
<1>3. CASE Go(c, "idle") /\ SameGc
  <2>1. TxnTypes' /\ OthersSame(c) /\ txn'[c].pc = "idle"
    BY <1>1, <1>2, <1>3, CollectGo DEF HeapStays
  <2>2. GcTypes' /\ McsInv'
    BY <1>1, <1>2, <1>3, <2>1, CollectPlaces, QuietStep
  <2>3. MiscTypes'
    BY <1>1, <2>1, StepMisc, CollectPlaces DEF SameStore
  <2> QED
    BY <1>2, <2>1, <2>2, <2>3 DEF Types, Keeps
<1>4. ASSUME NEW n \in 0..Len(queue[c]),
             scratch' = [scratch EXCEPT ![c] = SubSeq(queue[c], 1, n)],
             queue' = [queue EXCEPT ![c] = SubSeq(queue[c], n + 1, Len(queue[c]))],
             reaped' = [reaped EXCEPT ![c] = ro_tick_ex - 1],
             Go(c, "collect"), UNCHANGED <<retired, freed, mcs>>
      PROVE  Keeps
  <2>1. TxnTypes' /\ OthersSame(c) /\ txn'[c].pc = "collect"
    BY <1>1, <1>2, <1>4, CollectGo, CollectPlaces DEF HeapStays
  <2> DEFINE q == queue[c]
             a == SubSeq(q, 1, n)
             b == SubSeq(q, n + 1, Len(q))
  <2>2. q \in Seq(Entries) /\ \A i \in DOMAIN q : q[i].tuple \in DOMAIN heap
    BY DEF Types, GcTypes
  <2>3. scratch' = [scratch EXCEPT ![c] = a] /\ queue' = [queue EXCEPT ![c] = b] /\ n \in 0..Len(q)
    BY <1>4
  <2> HIDE DEF q
  <2>4. /\ a \in Seq(Entries) /\ DOMAIN a = 1..n /\ \A i \in 1..n : a[i] = q[i]
        /\ b \in Seq(Entries) /\ DOMAIN b = 1..(Len(q) - n)
        /\ \A i \in 1..(Len(q) - n) : b[i] = q[n + i]
    BY <2>2, <2>3, SplitSeq
  <2> HIDE DEF a, b
  <2>5. Len(q) \in Nat /\ DOMAIN q = 1..Len(q)
    BY <2>2
  <2>6. \A i \in DOMAIN a : a[i].tuple \in DOMAIN heap
    BY <2>2, <2>3, <2>4, <2>5
  <2>7. ASSUME NEW i \in DOMAIN b PROVE b[i].tuple \in DOMAIN heap
    <3>1. b[i] = q[n + i]
      BY <2>4
    <3>2. n + i \in DOMAIN q
      BY <2>3, <2>4, <2>5
    <3> QED
      BY <2>2, <3>1, <3>2
  <2>8. /\ scratch' \in [Cores -> Seq(Entries)] /\ queue' \in [Cores -> Seq(Entries)]
        /\ scratch'[c] = a /\ queue'[c] = b
        /\ \A d \in Cores \ {c} : scratch'[d] = scratch[d] /\ queue'[d] = queue[d]
    BY <2>3, <2>4 DEF Types, GcTypes
  <2>9. heap' = heap
    BY <1>1 DEF SameStore
  <2>10. /\ \A d \in Cores : \A m \in DOMAIN queue'[d] : queue'[d][m].tuple \in DOMAIN heap'
         /\ \A d \in Cores : \A m \in DOMAIN scratch'[d] : scratch'[d][m].tuple \in DOMAIN heap'
    BY <2>6, <2>7, <2>8, <2>9 DEF Types, GcTypes
  <2>11. /\ \A d \in Cores : txn'[d].pc \notin Collecting => scratch'[d] = <<>>
         /\ \A d \in Cores : txn'[d].pc \in Waiting => scratch'[d] # <<>> /\ Head(scratch'[d]).key
    BY <2>1, <2>8, CollectPlaces DEF Types, GcTypes, OthersSame
  <2>12. reaped' \in [Cores -> Int]
    <3>1. ro_tick_ex \in Int
      <4>1. over + 1 - 1 = over /\ over \in Nat
        BY DEF Types, MiscTypes
      <4>2. ro_tick_ex = to_read_only_tick(over)
        BY <4>1 DEF ro_tick_ex, global_last_tick_exclusive
      <4> QED
        BY <4>1, <4>2, ReadOnly
    <3> QED
      BY <1>4, <3>1 DEF Types, GcTypes
  <2>13. GcTypes'
    BY <1>4, <2>8, <2>9, <2>10, <2>11, <2>12 DEF Types, GcTypes, Waiting
  <2>14. McsInv'
    <3>1. /\ \A d \in Cores : txn[d].pc \in Waiting => scratch'[d] = scratch[d]
          /\ \A d \in Cores : txn'[d].pc \in Examining <=> txn[d].pc \in Examining
          /\ \A d \in Cores : txn'[d].pc = "wait" <=> txn[d].pc = "wait"
      BY <1>1, <2>1, <2>8, CollectPlaces DEF OthersSame
    <3> QED
      BY <1>2, <1>4, <3>1, McsKept
  <2>15. MiscTypes'
    BY <1>1, <2>1, StepMisc, CollectPlaces DEF SameStore
  <2> QED
    BY <1>2, <2>1, <2>13, <2>14, <2>15 DEF Types, Keeps
<1> QED
  BY <1>3, <1>4, TakeStep

(* The head of a scratch area is done.                                     *)
LEMMA ScratchTail ==
    ASSUME Types, NEW c \in Cores, scratch[c] # <<>>, scratch' = [scratch EXCEPT ![c] = Tail(@)]
    PROVE  /\ scratch' \in [Cores -> Seq(Entries)]
           /\ scratch'[c] = Tail(scratch[c])
           /\ \A d \in Cores \ {c} : scratch'[d] = scratch[d]
           /\ \A d \in Cores : \A m \in DOMAIN scratch'[d] : scratch'[d][m].tuple \in DOMAIN heap
<1>1. scratch[c] \in Seq(Entries) /\ \A i \in DOMAIN scratch[c] : scratch[c][i].tuple \in DOMAIN heap
  BY DEF Types, GcTypes
<1>2. /\ Tail(scratch[c]) \in Seq(Entries) /\ DOMAIN Tail(scratch[c]) = 1..(Len(scratch[c]) - 1)
      /\ \A i \in 1..(Len(scratch[c]) - 1) : Tail(scratch[c])[i] = scratch[c][i + 1] /\ i + 1 \in DOMAIN scratch[c]
  BY <1>1, TailSeq
<1>3. \A i \in DOMAIN Tail(scratch[c]) : Tail(scratch[c])[i].tuple \in DOMAIN heap
  BY <1>1, <1>2
<1>4. /\ scratch' \in [Cores -> Seq(Entries)] /\ scratch'[c] = Tail(scratch[c])
      /\ \A d \in Cores \ {c} : scratch'[d] = scratch[d]
  BY <1>2 DEF Types, GcTypes
<1> QED
  BY <1>3, <1>4 DEF Types, GcTypes

LEMMA FreeVersionKeeps ==
    ASSUME Types, NEW c \in Cores, FreeVersion(c)
    PROVE  Keeps
<1>1. /\ txn[c].pc = "collect" /\ scratch[c] # <<>> /\ UNCHANGED vars /\ SameStore
      /\ UNCHANGED <<queue, reaped, retired, mcs, txn, begun>>
      /\ freed' = freed \cup {Head(scratch[c]).tuple}
      /\ scratch' = [scratch EXCEPT ![c] = Tail(@)]
  BY DEF FreeVersion
<1>2. HeapTypes' /\ HeapStays /\ heap' = heap
  BY <1>1, HeapSame DEF SameStore, Types
<1>3. TxnTypes'
  BY <1>1, <1>2, TxnSame DEF Types, HeapStays
<1>4. Head(scratch[c]).tuple \in DOMAIN heap
  BY <1>1, TombstoneTypes DEF Tombstone
<1>5. /\ scratch' \in [Cores -> Seq(Entries)]
      /\ \A d \in Cores \ {c} : scratch'[d] = scratch[d]
      /\ \A d \in Cores : \A m \in DOMAIN scratch'[d] : scratch'[d][m].tuple \in DOMAIN heap
  BY <1>1, ScratchTail
<1>6. /\ \A d \in Cores : txn'[d].pc \notin Collecting => scratch'[d] = <<>>
      /\ \A d \in Cores : txn'[d].pc \in Examining \cup {"wait"} => scratch'[d] # <<>> /\ Head(scratch'[d]).key
  BY <1>1, <1>5, CollectPlaces DEF Types, GcTypes
<1>7. GcTypes'
  BY <1>1, <1>2, <1>4, <1>5, <1>6 DEF Types, GcTypes
<1>8. McsInv'
  <2>1. \A d \in Cores : txn[d].pc \in Waiting => scratch'[d] = scratch[d]
    BY <1>1, <1>5, CollectPlaces
  <2> QED
    BY <1>1, <1>2, <2>1, McsKept
<1>9. MiscTypes'
  BY <1>1, MiscSame DEF SameStore
<1> QED
  BY <1>2, <1>3, <1>7, <1>8, <1>9 DEF Types, Keeps

LEMMA SpinLockKeeps ==
    ASSUME Types, NEW c \in Cores, SpinLock(c)
    PROVE  Keeps
<1>1. /\ txn[c].pc = "spin" /\ Go(c, "locked") /\ SetLocks({Tombstone(c)}, TRUE) /\ UNCHANGED vars
      /\ UNCHANGED <<tree, last_commit_tid, installs, begun>> /\ SameGc /\ scratch' = scratch /\ mcs' = mcs
  BY DEF SpinLock, SameGc, gc
<1>2. HeapTypes' /\ HeapStays
  BY <1>1, LocksHeap DEF Types
<1>3. TxnTypes' /\ OthersSame(c) /\ txn'[c].pc = "locked"
  BY <1>1, <1>2, CollectGo, CollectPlaces DEF HeapStays
<1>4. /\ \A d \in Cores : txn'[d].pc \notin Collecting => txn[d].pc \notin Collecting \/ scratch[d] = <<>>
      /\ \A d \in Cores : txn'[d].pc \in Waiting => txn[d].pc \in Waiting
      /\ \A d \in Cores : txn'[d].pc \in Examining <=> txn[d].pc \in Examining
      /\ \A d \in Cores : txn'[d].pc = "wait" <=> txn[d].pc = "wait"
  BY <1>1, <1>3, CollectPlaces DEF OthersSame
<1>5. GcTypes'
  BY <1>1, <1>2, <1>4, GcSame DEF HeapStays
<1>6. McsInv'
  BY <1>1, <1>2, <1>4, McsKept
<1>7. MiscTypes'
  BY <1>1, <1>3, StepMisc, CollectPlaces
<1> QED
  BY <1>2, <1>3, <1>5, <1>6, <1>7 DEF Types, Keeps

LEMMA RequeueKeeps ==
    ASSUME Types, NEW c \in Cores, Requeue(c)
    PROVE  Keeps /\ queue'[c] = Append(queue[c], Entry(Tombstone(c), to_read_only_tick(now), FALSE))
           /\ Entry(Tombstone(c), to_read_only_tick(now), FALSE) \in Entries
           /\ \A d \in Cores \ {c} : queue'[d] = queue[d]
<1> DEFINE e == Entry(Tombstone(c), to_read_only_tick(now), FALSE)
           q == queue[c]
<1>1. /\ txn[c].pc = "locked" /\ Go(c, "release") /\ UNCHANGED vars /\ SameStore /\ UNCHANGED begun
      /\ UNCHANGED <<scratch, reaped, retired, freed, mcs>>
      /\ queue' = [queue EXCEPT ![c] = Append(q, e)]
  BY DEF Requeue
<1>2. HeapTypes' /\ HeapStays /\ heap' = heap
  BY <1>1, HeapSame DEF SameStore, Types
<1>3. TxnTypes' /\ OthersSame(c) /\ txn'[c].pc = "release"
  BY <1>1, <1>2, CollectGo, CollectPlaces DEF HeapStays
<1>4. Tombstone(c) \in DOMAIN heap /\ Tombstone(c) \in Nat
  <2>1. scratch[c] # <<>>
    BY <1>1 DEF Types, GcTypes, Examining
  <2> QED
    BY <2>1, TombstoneTypes, HeapLen DEF Types, HeapTypes
<1>5. e \in Entries /\ e.tuple = Tombstone(c)
  BY <1>4, NowTypes, EntryTypes
<1>6. q \in Seq(Entries) /\ \A i \in DOMAIN q : q[i].tuple \in DOMAIN heap
  BY DEF Types, GcTypes
<1> HIDE DEF q, e
<1>7. /\ Append(q, e) \in Seq(Entries) /\ \A i \in DOMAIN Append(q, e) : Append(q, e)[i].tuple \in DOMAIN heap
  <2>1. /\ Append(q, e) \in Seq(Entries)
        /\ DOMAIN Append(q, e) = 1..(Len(q) + 1) /\ DOMAIN q = 1..Len(q) /\ Len(q) \in Nat
        /\ \A i \in 1..Len(q) : Append(q, e)[i] = q[i]
        /\ Append(q, e)[Len(q) + 1] = e
    BY <1>5, <1>6, AppendSeq
  <2>2. \A i \in 1..(Len(q) + 1) : i \in 1..Len(q) \/ i = Len(q) + 1
    BY <2>1
  <2> QED
    BY <1>4, <1>5, <1>6, <2>1, <2>2
<1>8. /\ queue' \in [Cores -> Seq(Entries)] /\ queue'[c] = Append(q, e)
      /\ \A d \in Cores \ {c} : queue'[d] = queue[d]
  BY <1>1, <1>7 DEF Types, GcTypes
<1>9. \A d \in Cores : \A n \in DOMAIN queue'[d] : queue'[d][n].tuple \in DOMAIN heap'
  BY <1>2, <1>7, <1>8 DEF Types, GcTypes
<1>10. /\ \A d \in Cores : txn'[d].pc \notin Collecting => txn[d].pc \notin Collecting \/ scratch[d] = <<>>
       /\ \A d \in Cores : txn'[d].pc \in Waiting => txn[d].pc \in Waiting
       /\ \A d \in Cores : txn'[d].pc \in Examining <=> txn[d].pc \in Examining
       /\ \A d \in Cores : txn'[d].pc = "wait" <=> txn[d].pc = "wait"
  BY <1>1, <1>3, CollectPlaces DEF OthersSame
<1>11. /\ \A r \in retired' : r \in [tuple : DOMAIN heap', regions : SUBSET Cores]
       /\ freed' \subseteq DOMAIN heap'
  BY <1>1, <1>2 DEF Types, GcTypes
<1>12. GcTypes'
  BY <1>1, <1>2, <1>8, <1>9, <1>10, <1>11, GcKept DEF HeapStays
<1>13. McsInv'
  BY <1>1, <1>2, <1>10, McsKept
<1>14. MiscTypes'
  BY <1>1, <1>3, StepMisc, CollectPlaces DEF SameStore
<1> QED
  BY <1>2, <1>3, <1>5, <1>8, <1>12, <1>13, <1>14 DEF Types, Keeps, e, q

(***************************************************************************)
(* The types: the locks and the removal of tombstones.                     *)
(***************************************************************************)
LEMMA McsAcquireKeeps ==
    ASSUME Types, NEW c \in Cores, McsAcquire(c)
    PROVE  Keeps
<1> DEFINE m == heap[Tombstone(c)].m_lock
           q == mcs[m]
           p == IF q = <<>> THEN "spin" ELSE "wait"
<1>1. /\ txn[c].pc = "collect" /\ scratch[c] # <<>> /\ Head(scratch[c]).key
      /\ mcs' = [mcs EXCEPT ![m] = Append(q, c)] /\ Go(c, p)
      /\ UNCHANGED vars /\ SameStore /\ UNCHANGED <<queue, scratch, reaped, retired, freed, begun>>
  BY DEF McsAcquire
<1>2. HeapTypes' /\ HeapStays /\ heap' = heap
  BY <1>1, HeapSame DEF SameStore, Types
<1>3. TxnTypes' /\ OthersSame(c) /\ txn'[c].pc = p
  BY <1>1, <1>2, CollectGo, CollectPlaces DEF HeapStays
<1>4. m \in Keys /\ q \in Seq(Cores) /\ scratch' = scratch
  BY <1>1, TombstoneTypes DEF Types, GcTypes
<1>p. p \in Waiting /\ p \in IF q = <<>> THEN Examining ELSE {"wait"}
  BY CollectPlaces
<1>m. \A l \in Keys : mcs'[l] = IF l = m THEN Append(q, c) ELSE mcs[l]
  BY <1>1 DEF Types, GcTypes
<1>a. Append(q, c) \in Seq(Cores) /\ mcs' \in [Keys -> Seq(Cores)]
  BY <1>1, <1>4 DEF Types, GcTypes
<1> DEFINE a == Append(q, c)
<1>5. /\ DOMAIN a = 1..(Len(q) + 1) /\ DOMAIN q = 1..Len(q) /\ Len(q) \in Nat
      /\ \A i \in 1..Len(q) : a[i] = q[i]
      /\ a[Len(q) + 1] = c /\ (q = <<>> <=> Len(q) = 0)
  BY <1>4, AppendSeq
<1>6. \A l \in Keys : \A n \in DOMAIN mcs[l] : mcs[l][n] \in Cores \ {c}
  <2> SUFFICES ASSUME NEW l \in Keys, NEW n \in DOMAIN mcs[l] PROVE mcs[l][n] \in Cores \ {c}
    OBVIOUS
  <2>1. mcs[l] \in Seq(Cores)
    BY DEF Types, GcTypes
  <2>2. txn[mcs[l][n]].pc \in Waiting
    BY CollectPlaces DEF Types, McsInv
  <2> QED
    BY <1>1, <2>1, <2>2, CollectPlaces
<1>7. GcTypes'
  <2>1. \A d \in Cores : txn'[d].pc \notin Collecting => scratch'[d] = <<>>
    BY <1>p, <1>3, <1>4, CollectPlaces DEF OthersSame, Types, GcTypes
  <2>2. \A d \in Cores : txn'[d].pc \in Examining \cup {"wait"} => scratch'[d] # <<>> /\ Head(scratch'[d]).key
    BY <1>1, <1>3, <1>4 DEF OthersSame, Types, GcTypes
  <2> QED
    BY <1>1, <1>2, <1>4, <1>a, <2>1, <2>2 DEF Types, GcTypes
<1>s. \A d \in Cores : Tombstone(d)' = Tombstone(d)
  BY <1>4 DEF Tombstone
<1> DEFINE Tomb(d) == Head(scratch'[d]).tuple
<1>t. \A d \in Cores : Tomb(d) = Tombstone(d)
  BY <1>4 DEF Tombstone
<1>n. mcs'[m] = a /\ \A l \in Keys \ {m} : mcs'[l] = mcs[l]
  BY <1>4, <1>m
<1> HIDE DEF p, q, a, m
<1>8. ASSUME NEW l \in Keys, NEW n \in DOMAIN mcs'[l]
      PROVE  /\ txn'[mcs'[l][n]].pc \in IF n = 1 THEN Examining ELSE {"wait"}
             /\ mcs'[l][n] \in Cores
             /\ heap'[Tomb(mcs'[l][n])].m_lock = l
  <2>1. CASE l # m
    <3>1. mcs'[l] = mcs[l] /\ n \in DOMAIN mcs[l]
      BY <1>m, <2>1
    <3>2. mcs[l][n] \in Cores \ {c}
      BY <1>6, <3>1
    <3> QED
      BY <1>2, <1>3, <1>t, <3>1, <3>2 DEF Types, McsInv, OthersSame
  <2>2. CASE l = m /\ n \in 1..Len(q)
    <3>1. mcs'[l][n] = mcs[l][n] /\ n \in DOMAIN mcs[l]
      BY <1>m, <1>5, <2>2 DEF a, q
    <3>2. mcs[l][n] \in Cores \ {c}
      BY <1>6, <3>1
    <3> QED
      BY <1>2, <1>3, <1>t, <3>1, <3>2 DEF Types, McsInv, OthersSame
  <2>3. CASE l = m /\ n \notin 1..Len(q)
    <3>1. mcs'[l] = a /\ n = Len(q) + 1
      BY <1>n, <1>5, <2>3
    <3>2. mcs'[l][n] = c /\ (n = 1 <=> q = <<>>)
      BY <1>5, <3>1
    <3> QED
      BY <1>2, <1>3, <1>p, <1>t, <2>3, <3>2 DEF m
  <2> QED
    BY <2>1, <2>2, <2>3
<1>9. ASSUME NEW l \in Keys, NEW i \in DOMAIN mcs'[l], NEW j \in DOMAIN mcs'[l], mcs'[l][i] = mcs'[l][j]
      PROVE  i = j
  <2>1. CASE l # m
    BY <1>m, <1>9, <2>1 DEF Types, McsInv
  <2>2. CASE l = m
    <3>1. mcs'[l] = a /\ mcs[l] = q
      BY <1>m, <2>2 DEF a, q
    <3>2. \A x, y \in DOMAIN q : q[x] = q[y] => x = y
      BY <3>1 DEF Types, McsInv
    <3>3. \A x \in DOMAIN q : q[x] # c
      BY <1>6, <3>1
    <3> QED
      BY <1>5, <1>9, <3>1, <3>2, <3>3
  <2> QED
    BY <2>1, <2>2
<1>10. ASSUME NEW d \in Cores, txn'[d].pc \in Examining \cup {"wait"}
       PROVE  \E n \in DOMAIN mcs'[heap'[Tomb(d)].m_lock] : mcs'[heap'[Tomb(d)].m_lock][n] = d
  <2>1. CASE d = c
    <3>1. heap'[Tomb(d)].m_lock = m /\ mcs'[m] = a
      BY <1>2, <1>4, <1>m, <1>t, <2>1 DEF m, a
    <3> QED
      BY <1>5, <2>1, <3>1
  <2>2. CASE d # c
    <3> DEFINE l == heap[Tombstone(d)].m_lock
    <3>1. txn[d].pc \in Examining \cup {"wait"} /\ heap'[Tomb(d)].m_lock = l
      BY <1>2, <1>3, <1>t, <1>10, <2>2 DEF OthersSame
    <3>2. scratch[d] # <<>>
      BY <3>1 DEF Types, GcTypes
    <3>3. l \in Keys
      BY <3>2, TombstoneTypes
    <3>4. PICK n \in DOMAIN mcs[l] : mcs[l][n] = d
      BY <3>1 DEF Types, McsInv
    <3>5. n \in DOMAIN mcs'[l] /\ mcs'[l][n] = d
      <4>1. CASE l = m
        BY <1>n, <1>5, <3>3, <3>4, <4>1 DEF q
      <4>2. CASE l # m
        BY <1>m, <3>3, <3>4, <4>2
      <4> QED
        BY <4>1, <4>2
    <3> QED
      BY <3>1, <3>5
  <2> QED
    BY <2>1, <2>2
<1>11. McsInv'
  BY <1>8, <1>9, <1>10 DEF McsInv, Tombstone
<1>12. MiscTypes'
  <2>1. p \notin Active
    BY <1>p, CollectPlaces
  <2> QED
    BY <1>1, <1>3, <2>1, StepMisc DEF SameStore
<1> QED
  BY <1>2, <1>3, <1>7, <1>11, <1>12 DEF Types, Keeps

LEMMA StillTombstoneKeeps ==
    ASSUME Types, NEW c \in Cores, StillTombstone(c)
    PROVE  Keeps
<1>1. /\ txn[c].pc = "locked" /\ Go(c, "remove") /\ SameStore /\ SameGc /\ UNCHANGED begun
      /\ scratch' = scratch /\ mcs' = mcs
      /\ Start(c) \/ UNCHANGED vars
  BY DEF StillTombstone, SameGc, gc
<1>2. HeapTypes' /\ HeapStays
  BY <1>1, HeapSame DEF SameStore, Types
<1>3. TxnTypes' /\ OthersSame(c) /\ txn'[c].pc = "remove"
  BY <1>1, <1>2, CollectGo, CollectPlaces DEF HeapStays
<1>4. /\ \A d \in Cores : txn'[d].pc \notin Collecting => txn[d].pc \notin Collecting \/ scratch[d] = <<>>
      /\ \A d \in Cores : txn'[d].pc \in Waiting => txn[d].pc \in Waiting
      /\ \A d \in Cores : txn'[d].pc \in Examining <=> txn[d].pc \in Examining
      /\ \A d \in Cores : txn'[d].pc = "wait" <=> txn[d].pc = "wait"
  BY <1>1, <1>3, CollectPlaces DEF OthersSame
<1>5. GcTypes'
  BY <1>1, <1>2, <1>4, GcSame DEF HeapStays
<1>6. McsInv'
  BY <1>1, <1>2, <1>4, McsKept
<1>7. MiscTypes'
  <2>1. CASE UNCHANGED vars
    BY <1>1, <1>3, <2>1, StepMisc, CollectPlaces DEF SameStore
  <2>2. CASE Start(c)
    BY <1>1, <1>3, <2>2, MiscStart DEF SameStore, OthersSame, Types, MiscTypes
  <2> QED
    BY <1>1, <2>1, <2>2
<1> QED
  BY <1>2, <1>3, <1>5, <1>6, <1>7 DEF Types, Keeps

LEMMA RemoveTombstoneKeeps ==
    ASSUME Types, NEW c \in Cores, RemoveTombstone(c)
    PROVE  Keeps
<1> DEFINE r == [tuple |-> Tombstone(c), regions |-> {d \in Cores : region[d] # None}]
<1>1. /\ txn[c].pc = "remove" /\ Go(c, "release") /\ UNCHANGED vars
      /\ UNCHANGED <<queue, scratch, reaped, freed, mcs, last_commit_tid, installs, begun>>
      /\ retired' = retired \cup {r}
  BY DEF RemoveTombstone
<1>2. HeapTypes' /\ HeapStays /\ Tombstone(c) \in DOMAIN heap
  BY RemovedHeap
<1>3. TxnTypes' /\ OthersSame(c) /\ txn'[c].pc = "release"
  BY <1>1, <1>2, CollectGo, CollectPlaces DEF HeapStays
<1>4. /\ \A d \in Cores : txn'[d].pc \notin Collecting => txn[d].pc \notin Collecting \/ scratch[d] = <<>>
      /\ \A d \in Cores : txn'[d].pc \in Waiting => txn[d].pc \in Waiting
      /\ \A d \in Cores : txn'[d].pc \in Examining <=> txn[d].pc \in Examining
      /\ \A d \in Cores : txn'[d].pc = "wait" <=> txn[d].pc = "wait"
  BY <1>1, <1>3, CollectPlaces DEF OthersSame
<1>5. \A s \in retired' : s \in [tuple : DOMAIN heap', regions : SUBSET Cores]
  <2>1. r \in [tuple : DOMAIN heap', regions : SUBSET Cores]
    BY <1>2 DEF HeapStays, Grows
  <2>2. \A s \in retired : s \in [tuple : DOMAIN heap', regions : SUBSET Cores]
    BY <1>2 DEF HeapStays, Grows, Types, GcTypes
  <2> HIDE DEF r
  <2> QED
    BY <1>1, <2>1, <2>2
<1>6. freed' \subseteq DOMAIN heap'
  BY <1>1, <1>2 DEF HeapStays, Grows, Types, GcTypes
<1>7. GcTypes'
  BY <1>1, <1>2, <1>4, <1>5, <1>6, GcKept DEF HeapStays
<1>8. McsInv'
  BY <1>1, <1>2, <1>4, McsKept
<1>9. MiscTypes'
  BY <1>1, <1>3, StepMisc, CollectPlaces
<1> QED
  BY <1>2, <1>3, <1>7, <1>8, <1>9 DEF Types, Keeps

LEMMA McsReleaseKeeps ==
    ASSUME Types, NEW c \in Cores, McsRelease(c)
    PROVE  Keeps
<1> DEFINE m == heap[Tombstone(c)].m_lock
           q == mcs[m]
           w == Tail(q)
           d0 == Head(w)
<1>1. /\ txn[c].pc = "release" /\ mcs' = [mcs EXCEPT ![m] = w]
      /\ scratch' = [scratch EXCEPT ![c] = Tail(@)] /\ UNCHANGED vars
      /\ UNCHANGED <<queue, reaped, retired, freed, tree, last_commit_tid, installs, begun>>
      /\ SetLocks(IF w = <<>> THEN {Tombstone(c)} ELSE {}, FALSE)
  BY DEF McsRelease
<1>2. HeapTypes' /\ HeapStays
  BY <1>1, LocksHeap DEF Types
<1>3. TxnTypes'
  BY <1>2, PassesTypes DEF HeapStays
<1>4. scratch[c] # <<>>
  BY <1>1 DEF Types, GcTypes, Examining
<1>5. /\ scratch' \in [Cores -> Seq(Entries)]
      /\ \A d \in Cores \ {c} : scratch'[d] = scratch[d]
      /\ \A d \in Cores : \A n \in DOMAIN scratch'[d] : scratch'[d][n].tuple \in DOMAIN heap
  BY <1>1, <1>4, ScratchTail
<1>6. /\ m \in Keys /\ q # <<>> /\ Head(q) = c /\ q \in Seq(Cores)
      /\ txn'[c] = [txn[c] EXCEPT !.pc = "collect"]
      /\ w = <<>> => \A e \in Cores \ {c} : txn'[e] = txn[e]
      /\ w # <<>> =>
              /\ d0 \in Cores \ {c} /\ txn[d0].pc = "wait" /\ d0 = q[2] /\ 2 \in DOMAIN q
              /\ txn'[d0] = [txn[d0] EXCEPT !.pc = "locked"]
              /\ \A e \in Cores \ {c, d0} : txn'[e] = txn[e]
  BY PassesStep DEF Passes, Types, GcTypes
<1>7. /\ w \in Seq(Cores) /\ DOMAIN w = 1..(Len(q) - 1) /\ Len(q) \in Nat \ {0} /\ DOMAIN q = 1..Len(q)
      /\ \A i \in 1..(Len(q) - 1) : w[i] = q[i + 1] /\ i + 1 \in DOMAIN q
      /\ q[1] = c /\ 1 \in DOMAIN q
  BY <1>6, TailSeq
<1>8. \A x \in DOMAIN q : \A y \in DOMAIN q : q[x] = q[y] => x = y
  BY <1>6 DEF Types, McsInv
<1>9. \A l \in Keys : mcs'[l] = IF l = m THEN w ELSE mcs[l]
  BY <1>1 DEF Types, GcTypes
<1>10. mcs' \in [Keys -> Seq(Cores)]
  BY <1>1, <1>7 DEF Types, GcTypes
(* Who is where.                                                           *)
<1>11. txn'[c].pc = "collect" /\ txn[c].pc = "release"
  <2>1. txn[c] \in TxnStates /\ "collect" \in Pcs
    BY DEF Types, TxnTypes, Pcs, Collecting
  <2>2. txn'[c] = [txn[c] EXCEPT !.pc = "collect"]
    BY <1>6
  <2> QED
    BY <1>1, <2>1, <2>2, NewPc
<1>12. ASSUME NEW e \in Cores \ {c}
       PROVE  /\ txn'[e].pc = IF w # <<>> /\ e = q[2] THEN "locked" ELSE txn[e].pc
              /\ w # <<>> /\ e = q[2] => txn[e].pc = "wait"
  <2>1. CASE w # <<>> /\ e = q[2]
    <3>1. e = d0 /\ txn'[e] = [txn[e] EXCEPT !.pc = "locked"] /\ txn[e].pc = "wait" /\ txn[e] \in TxnStates
      BY <1>6, <2>1 DEF Types, TxnTypes
    <3> QED
      <4>1. "locked" \in Pcs
        BY DEF Pcs, Collecting, Examining
      <4>2. txn'[e].pc = "locked"
        <5>1. ASSUME NEW z, z = [txn[e] EXCEPT !.pc = "locked"] PROVE z.pc = "locked"
          BY <3>1, <4>1, <5>1, NewPc
        <5> QED
          BY <3>1, <5>1
      <4> QED
        BY <2>1, <3>1, <4>2
  <2>2. CASE w = <<>>
    BY <1>6, <2>2
  <2>3. CASE w # <<>> /\ e # q[2]
    BY <1>6, <2>3
  <2> QED
    BY <2>1, <2>2, <2>3
<1> DEFINE Tomb(d) == Head(scratch'[d]).tuple
<1>13. ASSUME NEW e \in Cores \ {c}, txn[e].pc \in Waiting
       PROVE  /\ Tomb(e) = Tombstone(e) /\ heap'[Tomb(e)].m_lock = heap[Tombstone(e)].m_lock
              /\ heap[Tombstone(e)].m_lock \in Keys
  <2>1. scratch[e] # <<>> /\ scratch'[e] = scratch[e]
    BY <1>5, <1>13, CollectPlaces DEF Types, GcTypes
  <2>2. Tombstone(e) \in DOMAIN heap /\ heap[Tombstone(e)].m_lock \in Keys
    BY <2>1, TombstoneTypes
  <2> QED
    BY <1>2, <2>1, <2>2 DEF Tombstone, HeapStays
<1>14. \A l \in Keys : \A n \in DOMAIN mcs[l] : mcs[l][n] \in Cores /\ txn[mcs[l][n]].pc \in Waiting
            /\ (mcs[l][n] = c => l = m)
            /\ (n # 1 => txn[mcs[l][n]].pc = "wait") /\ (n = 1 => txn[mcs[l][n]].pc \in Examining)
  <2> SUFFICES ASSUME NEW l \in Keys, NEW n \in DOMAIN mcs[l]
               PROVE  /\ mcs[l][n] \in Cores /\ txn[mcs[l][n]].pc \in Waiting /\ (mcs[l][n] = c => l = m)
                      /\ (n # 1 => txn[mcs[l][n]].pc = "wait") /\ (n = 1 => txn[mcs[l][n]].pc \in Examining)
    OBVIOUS
  <2>1. mcs[l] \in Seq(Cores)
    BY DEF Types, GcTypes
  <2> QED
    BY <2>1, CollectPlaces DEF Types, McsInv
<1> HIDE DEF q, w, d0, m
<1>15. ASSUME NEW l \in Keys, NEW n \in DOMAIN mcs'[l]
       PROVE  /\ txn'[mcs'[l][n]].pc \in IF n = 1 THEN Examining ELSE {"wait"}
              /\ heap'[Tomb(mcs'[l][n])].m_lock = l
  <2>1. CASE l # m
    <3>1. mcs'[l] = mcs[l] /\ n \in DOMAIN mcs[l]
      BY <1>9, <2>1
    <3> DEFINE e == mcs[l][n]
    <3>2. e \in Cores \ {c} /\ txn[e].pc \in Waiting /\ (n # 1 => txn[e].pc = "wait")
          /\ (n = 1 => txn[e].pc \in Examining)
      BY <1>14, <2>1, <3>1
    <3>3. heap[Tombstone(e)].m_lock = l
      BY <3>1 DEF Types, McsInv
    <3>4. ~(w # <<>> /\ e = q[2])
      <4> SUFFICES ASSUME w # <<>>, e = q[2] PROVE FALSE
        OBVIOUS
      <4>1. 2 \in DOMAIN q /\ q[2] = e
        BY <1>6
      <4>2. heap[Tombstone(q[2])].m_lock = m
        BY <1>6, <4>1 DEF Types, McsInv, q
      <4> QED
        BY <2>1, <3>3, <4>1, <4>2
    <3>5. txn'[e].pc = txn[e].pc
      BY <1>12, <3>2, <3>4
    <3> QED
      BY <1>13, <3>1, <3>2, <3>3, <3>5
  <2>2. CASE l = m
    <3>1. mcs'[l] = w /\ n \in 1..(Len(q) - 1) /\ w[n] = q[n + 1] /\ n + 1 \in DOMAIN q /\ n + 1 # 1 /\ n \in Nat
      BY <1>7, <1>9, <2>2
    <3> DEFINE e == q[n + 1]
    <3>2. e \in Cores /\ e # c /\ txn[e].pc = "wait" /\ txn[e].pc \in Waiting
      BY <1>6, <1>7, <1>8, <1>14, <3>1, ZenonT(40) DEF q
    <3>3. heap[Tombstone(e)].m_lock = m
      BY <1>6, <3>1 DEF Types, McsInv, q
    <3>4. w # <<>> /\ (e = q[2] <=> n = 1)
      <4>1. w # <<>>
        BY <1>7, <3>1
      <4>2. 2 \in DOMAIN q
        BY <1>6, <4>1
      <4>3. e = q[2] => n = 1
        BY <1>8, <3>1, <4>2
      <4>4. n = 1 => e = q[2]
        BY <3>1
      <4> QED
        BY <4>1, <4>3, <4>4
    <3>5. txn'[e].pc \in IF n = 1 THEN Examining ELSE {"wait"}
      BY <1>12, <3>2, <3>4, CollectPlaces
    <3> QED
      BY <1>13, <2>2, <3>1, <3>2, <3>3, <3>5
  <2> QED
    BY <2>1, <2>2
<1>16. ASSUME NEW l \in Keys, NEW i \in DOMAIN mcs'[l], NEW j \in DOMAIN mcs'[l], mcs'[l][i] = mcs'[l][j]
       PROVE  i = j
  <2>1. CASE l # m
    BY <1>9, <1>16, <2>1 DEF Types, McsInv
  <2>2. CASE l = m
    <3>1. mcs'[l] = w /\ i \in 1..(Len(q) - 1) /\ j \in 1..(Len(q) - 1)
      BY <1>7, <1>9, <2>2
    <3>2. w[i] = q[i + 1] /\ i + 1 \in DOMAIN q /\ w[j] = q[j + 1] /\ j + 1 \in DOMAIN q
      BY <1>7, <3>1
    <3>3. i + 1 = j + 1
      BY <1>8, <1>16, <3>1, <3>2
    <3> QED
      BY <3>1, <3>3
  <2> QED
    BY <2>1, <2>2
<1>17. ASSUME NEW e \in Cores, txn'[e].pc \in Waiting
       PROVE  e # c /\ txn[e].pc \in Waiting
  BY <1>11, <1>12, <1>17, CollectPlaces
<1>18. ASSUME NEW e \in Cores, txn'[e].pc \in Waiting
       PROVE  \E n \in DOMAIN mcs'[heap'[Tomb(e)].m_lock] : mcs'[heap'[Tomb(e)].m_lock][n] = e
  <2> DEFINE l == heap[Tombstone(e)].m_lock
  <2>1. e # c /\ txn[e].pc \in Waiting /\ heap'[Tomb(e)].m_lock = l /\ l \in Keys
    BY <1>13, <1>17, <1>18
  <2>2. PICK n \in DOMAIN mcs[l] : mcs[l][n] = e
    BY <2>1, CollectPlaces DEF Types, McsInv
  <2> HIDE DEF l
  <2>3. CASE l # m
    BY <1>9, <2>1, <2>2, <2>3
  <2>4. CASE l = m
    <3>1. n \in DOMAIN q /\ q[n] = e /\ n # 1
      BY <1>7, <2>1, <2>2, <2>4 DEF q
    <3>2. n - 1 \in DOMAIN w /\ w[n - 1] = q[n]
      <4>1. n - 1 \in 1..(Len(q) - 1) /\ (n - 1) + 1 = n
        BY <1>7, <3>1
      <4> QED
        BY <1>7, <4>1
    <3> QED
      BY <1>9, <2>1, <2>4, <3>1, <3>2
  <2> QED
    BY <2>3, <2>4
<1>19. McsInv'
  BY <1>15, <1>16, <1>18, CollectPlaces DEF McsInv, Tombstone
<1>20. GcTypes'
  <2>1. \A d \in Cores : txn'[d].pc \notin Collecting => scratch'[d] = <<>>
    <3> SUFFICES ASSUME NEW d \in Cores, txn'[d].pc \notin Collecting PROVE scratch'[d] = <<>>
      OBVIOUS
    <3>1. d # c
      BY <1>11, CollectPlaces
    <3>2. txn[d].pc \notin Collecting
      BY <1>12, <3>1, CollectPlaces
    <3> QED
      BY <1>5, <3>1, <3>2 DEF Types, GcTypes
  <2>2. ASSUME NEW d \in Cores, txn'[d].pc \in Waiting PROVE scratch'[d] # <<>> /\ Head(scratch'[d]).key
    BY <1>5, <1>17, <2>2, CollectPlaces DEF Types, GcTypes
  <2>3. /\ \A d \in Cores : \A n \in DOMAIN queue'[d] : queue'[d][n].tuple \in DOMAIN heap'
        /\ \A d \in Cores : \A n \in DOMAIN scratch'[d] : scratch'[d][n].tuple \in DOMAIN heap'
    BY <1>1, <1>2, <1>5 DEF Types, GcTypes, HeapStays, Grows
  <2>4. retired' \subseteq [tuple : DOMAIN heap', regions : SUBSET Cores] /\ freed' \subseteq DOMAIN heap'
    BY <1>1, <1>2 DEF Types, GcTypes, HeapStays, Grows
  <2> QED
    BY <1>1, <1>5, <1>10, <2>1, <2>2, <2>3, <2>4, CollectPlaces DEF Types, GcTypes
<1>21. MiscTypes'
  <2>1. \A d \in Cores : txn'[d].pc \in Active => txn[d].pc \in Active
    BY <1>11, <1>12, CollectPlaces
  <2> QED
    BY <1>1, <2>1, MiscSame
<1> QED
  BY <1>2, <1>3, <1>19, <1>20, <1>21 DEF Types, Keeps

(***************************************************************************)
(* The types: every step, and the initial state.                           *)
(***************************************************************************)
LEMMA RegionOverTypes ==
    ASSUME Types, HeapStays, NEW c \in Cores, retired' = RegionOver(c)
    PROVE  \A r \in retired' : r \in [tuple : DOMAIN heap', regions : SUBSET Cores]
<1> SUFFICES ASSUME NEW r \in retired' PROVE r \in [tuple : DOMAIN heap', regions : SUBSET Cores]
  OBVIOUS
<1>1. PICK s \in retired : r = [s EXCEPT !.regions = s.regions \ {c}]
  BY DEF RegionOver
<1>2. s \in [tuple : DOMAIN heap', regions : SUBSET Cores]
  BY DEF Types, GcTypes, HeapStays, Grows
<1> QED
  BY <1>1, <1>2

LEMMA CollectedKeeps ==
    ASSUME Types, NEW c \in Cores, Collected(c)
    PROVE  Keeps
<1>1. /\ txn[c].pc = "collect" /\ scratch[c] = <<>> /\ Go(c, "idle") /\ SameStore
      /\ UNCHANGED <<queue, scratch, reaped, freed, mcs, begun>>
      /\ (UNCHANGED vars /\ UNCHANGED retired) \/ (End(c) /\ retired' = RegionOver(c))
  BY DEF Collected, vars
<1>2. HeapTypes' /\ HeapStays
  BY <1>1, HeapSame DEF SameStore, Types
<1>3. TxnTypes' /\ OthersSame(c) /\ txn'[c].pc = "idle"
  BY <1>1, <1>2, CollectGo, CollectPlaces DEF HeapStays
<1>4. /\ \A d \in Cores : txn'[d].pc \notin Collecting => txn[d].pc \notin Collecting \/ scratch[d] = <<>>
      /\ \A d \in Cores : txn'[d].pc \in Waiting => txn[d].pc \in Waiting
      /\ \A d \in Cores : txn'[d].pc \in Examining <=> txn[d].pc \in Examining
      /\ \A d \in Cores : txn'[d].pc = "wait" <=> txn[d].pc = "wait"
  BY <1>1, <1>3, CollectPlaces DEF OthersSame
<1>5. \A r \in retired' : r \in [tuple : DOMAIN heap', regions : SUBSET Cores]
  <2>1. CASE UNCHANGED retired
    BY <1>2, <2>1 DEF Types, GcTypes, HeapStays, Grows
  <2> QED
    BY <1>1, <1>2, <2>1, RegionOverTypes
<1>6. freed' \subseteq DOMAIN heap'
  BY <1>1, <1>2 DEF HeapStays, Grows, Types, GcTypes
<1>7. GcTypes'
  BY <1>1, <1>2, <1>4, <1>5, <1>6, GcKept DEF HeapStays
<1>8. McsInv'
  BY <1>1, <1>2, <1>4, McsKept
<1>9. MiscTypes'
  <2>1. txn'[c].pc \notin Active
    BY <1>3, CollectPlaces
  <2>2. CASE UNCHANGED vars
    BY <1>1, <1>3, <2>1, <2>2, StepMisc DEF SameStore
  <2>3. CASE End(c)
    BY <1>1, <1>3, <2>1, <2>3, MiscEnd DEF SameStore
  <2> QED
    BY <1>1, <2>2, <2>3
<1> QED
  BY <1>2, <1>3, <1>7, <1>8, <1>9 DEF Types, Keeps

LEMMA StillKeeps ==
    ASSUME Types, SameStore, UNCHANGED <<txn, queue, scratch, reaped, mcs, begun>>,
           \A r \in retired' : r \in retired, freed' \subseteq DOMAIN heap, MiscTypes'
    PROVE  Keeps
<1>1. HeapTypes' /\ HeapStays /\ heap' = heap
  BY HeapSame DEF SameStore, Types
<1>2. TxnTypes'
  BY <1>1, TxnSame DEF Types, HeapStays
<1>3. GcTypes'
  BY <1>1 DEF Types, GcTypes
<1>4. McsInv'
  BY <1>1, McsKept
<1> QED
  BY <1>1, <1>2, <1>3, <1>4 DEF Types, Keeps

LEMMA RcuFreeKeeps ==
    ASSUME Types, RcuFree
    PROVE  Keeps
<1>1. PICK r \in retired : retired' = retired \ {r} /\ freed' = freed \cup {r.tuple}
  BY DEF RcuFree
<1>2. UNCHANGED vars /\ SameStore /\ UNCHANGED <<queue, scratch, reaped, mcs, txn, begun>>
  BY DEF RcuFree
<1>3. MiscTypes'
  BY <1>2, MiscSame DEF SameStore
<1>4. freed' \subseteq DOMAIN heap
  BY <1>1 DEF Types, GcTypes
<1> QED
  BY <1>1, <1>2, <1>3, <1>4, StillKeeps

LEMMA TickKeeps ==
    ASSUME Types, Tick
    PROVE  Keeps
<1>1. SameStore /\ UNCHANGED <<txn, queue, scratch, reaped, mcs, begun, retired, freed>>
  BY DEF Tick, SameGc, gc
<1> QED
  BY <1>1, MiscTick, StillKeeps DEF Types, GcTypes

LEMMA StutterKeeps ==
    ASSUME Types, UNCHANGED vvars
    PROVE  Keeps
<1>1. SameStore /\ UNCHANGED <<txn, queue, scratch, reaped, mcs, begun, retired, freed>> /\ UNCHANGED vars
  BY DEF vvars, gc, SameStore
<1>2. MiscTypes'
  BY <1>1, MiscSame DEF SameStore
<1> QED
  BY <1>1, <1>2, StillKeeps DEF Types, GcTypes

LEMMA DeleteBoolean ==
    ASSUME NEW c \in Cores, NEW delete \in Deletes[c]
    PROVE  delete \in BOOLEAN
BY VersionsAssumption

LEMMA TypesNext ==
    ASSUME Types, [VersionsNext]_vvars
    PROVE  Keeps
<1>1. ASSUME NEW c \in Cores, TxnStep(c) PROVE Keeps
  BY <1>1, LockWritesKeeps, ValidateKeeps, AbortKeeps, GenKeeps, AccessKeeps, FindHeadKeeps,
     DeleteBoolean, InPlaceKeeps, ReplacedKeeps, TakeSnapshotKeeps, WalkKeeps, EndSnapshotKeeps,
     EndTxnKeeps DEF TxnStep
<1>2. ASSUME NEW c \in Cores, CollectStep(c) PROVE Keeps
  BY <1>2, TakeKeeps, FreeVersionKeeps, McsAcquireKeeps, SpinLockKeeps, RequeueKeeps,
     StillTombstoneKeeps, RemoveTombstoneKeeps, McsReleaseKeeps, CollectedKeeps DEF CollectStep
<1> QED
  BY <1>1, <1>2, BeginKeeps, RcuFreeKeeps, TickKeeps, StutterKeeps DEF VersionsNext

LEMMA InitHeap ==
    ASSUME VersionsInit
    PROVE  /\ heap \in Seq(Tuples) /\ DOMAIN heap = Keys
           /\ \A k \in Keys : /\ heap[k] = [key |-> k, version |-> LoadTid, next |-> Nil, latest |-> TRUE,
                                            deleting |-> FALSE, locked |-> FALSE, m_lock |-> k]
                              /\ heap[k] \in Tuples /\ k \in Nat /\ k # Nil
           /\ LoadTid \in Nat /\ EpochId(LoadTid) = 0
<1>1. LoadTid \in Nat /\ EpochId(LoadTid) = 0
  <2>1. 0 \in 0..(CoreSpan - 1) /\ 1 \in 0..(NumSpan - 1)
    BY Spans
  <2> QED
    BY <2>1, TidFields DEF LoadTid
<1>2. Keys = 1..Cardinality(Keys) /\ Cardinality(Keys) \in Nat
  BY VersionsAssumption, FS_CardinalityType
<1> DEFINE n == Cardinality(Keys)
           f(k) == [key |-> k, version |-> LoadTid, next |-> Nil, latest |-> TRUE,
                    deleting |-> FALSE, locked |-> FALSE, m_lock |-> k]
<1>3. heap = [k \in Keys |-> f(k)]
  BY DEF VersionsInit
<1>4. \A k \in Keys : f(k) \in Tuples
  BY <1>1 DEF Tuples, Nil
<1> HIDE DEF f, n
<1>5. heap \in [Keys -> Tuples]
  BY <1>3, <1>4
<1>6. heap \in Seq(Tuples)
  BY <1>2, <1>5 DEF n
<1>7. \A k \in Keys : k \in Nat /\ k # Nil
  BY <1>2 DEF Nil
<1> QED
  BY <1>1, <1>3, <1>4, <1>6, <1>7 DEF f

LEMMA InitTypes ==
    ASSUME VersionsInit
    PROVE  Types
<1>1. HeapTypes
  <2>1. tree \in [Keys -> Nat] /\ \A k \in Keys : tree[k] \in DOMAIN heap
    BY InitHeap DEF VersionsInit
  <2>2. \A i \in DOMAIN heap : heap[i].next = Nil
    BY InitHeap
  <2> QED
    BY <2>1, <2>2, InitHeap DEF HeapTypes
<1>2. \A c \in Cores : txn[c] = Idle
  BY DEF VersionsInit
<1>3. Idle \in TxnStates /\ Idle.pc = "idle" /\ Idle.at = Nil /\ DOMAIN Idle.refs = {} /\ Idle.prog.snapshot = FALSE
      /\ Idle = [Idle EXCEPT !.pc = Idle.pc]
  <2>1. Idle \in TxnStates
    BY IdleState
  <2>2. Idle.pc = "idle" /\ Idle.at = Nil /\ DOMAIN Idle.refs = {} /\ Idle.prog.snapshot = FALSE
    BY DEF Idle
  <2>3. Idle = [Idle EXCEPT !.pc = Idle.pc]
    BY <2>1 DEF TxnStates
  <2> QED
    BY <2>1, <2>2, <2>3
<1>4. Shape(Idle)
  BY <1>3 DEF Shape, Writing, Reading, Collecting, Examining
<1>5. TxnTypes
  <2>1. txn \in [Cores -> TxnStates]
    BY <1>3 DEF VersionsInit
  <2> QED
    BY <1>2, <1>3, <1>4, <2>1 DEF TxnTypes
<1>6. GcTypes
  BY <1>2, <1>3 DEF VersionsInit, GcTypes, Collecting, Examining
<1>7. MiscTypes
  BY <1>2, <1>3, Spans DEF VersionsInit, Init, MiscTypes, None, MIN_TID, Writing, Reading
<1>8. McsInv
  BY <1>2, <1>3 DEF VersionsInit, McsInv, Examining
<1> QED
  BY <1>1, <1>5, <1>6, <1>7, <1>8 DEF Types

(***************************************************************************)
(* Commit ids: the stamps of the versions there are.                       *)
(***************************************************************************)
-----------------------------------------------------------------------------
(* Commit ids are of no tick to come, and their numbers fit: the ids of a  *)
(* tick are fewer than the transactions begun, and those that have yet to  *)
(* draw one.                                                               *)
Undrawn == {c \in Cores : txn[c].pc \in {"run", "validate", "gen_tid"}}
Numbered(v) ==
    /\ v \in Nat /\ EpochId(v) <= now
    /\ EpochId(v) > 0 => NumId(v) + Cardinality(Undrawn) <= begun
Stamps ==
    /\ Cardinality(Undrawn) <= begun
    /\ \A i \in DOMAIN heap : Numbered(heap[i].version)
    /\ \A c \in Cores : Numbered(last_commit_tid[c])
    /\ \A c \in Cores : \A k \in DOMAIN txn[c].got : Numbered(txn[c].got[k])
    /\ \A c \in Cores : txn[c].pc = "install" =>
          txn[c].t = last_commit_tid[c] /\ region[c] <= EpochId(txn[c].t)

LEMMA CoresFinite == IsFiniteSet(Cores) /\ Cores \subseteq Nat
<1>1. CoreSpan - 1 \in Int /\ 0 \in Int
  BY Spans
<1>2. IsFiniteSet(0..(CoreSpan - 1))
  BY <1>1, FS_Interval
<1>3. 0..(CoreSpan - 1) \subseteq Nat
  BY Spans
<1>4. Cores \subseteq 0..(CoreSpan - 1)
  BY Spans
<1> QED
  BY <1>2, <1>3, <1>4, FS_Subset

(* No more are to come than there were, or one more was begun.             *)
Slack ==
    /\ Cardinality(Undrawn') + begun <= Cardinality(Undrawn) + begun'
    /\ Cardinality(Undrawn) \in Nat /\ Cardinality(Undrawn') \in Nat
    /\ begun \in Nat /\ begun' \in Nat /\ now \in Nat /\ now' \in Nat /\ now <= now'

LEMMA UndrawnFinite ==
    /\ IsFiniteSet(Undrawn) /\ Cardinality(Undrawn) \in Nat
    /\ IsFiniteSet(Undrawn') /\ Cardinality(Undrawn') \in Nat
<1>1. Undrawn \subseteq Cores /\ Undrawn' \subseteq Cores
  BY DEF Undrawn
<1> HIDE DEF Undrawn
<1> QED
  BY <1>1, CoresFinite, FS_Subset, FS_CardinalityType

LEMMA SlackFewer ==
    ASSUME Types, Types', Undrawn' \subseteq Undrawn, begun' = begun, now <= now'
    PROVE  Slack
<1>1. Cardinality(Undrawn') <= Cardinality(Undrawn)
  <2> HIDE DEF Undrawn
  <2> QED
    BY UndrawnFinite, FS_Subset
<1>2. begun \in Nat /\ begun' \in Nat /\ now \in Nat /\ now' \in Nat
  BY Spans DEF Types, MiscTypes
<1> QED
  BY <1>1, <1>2, UndrawnFinite DEF Slack

LEMMA SlackMore ==
    ASSUME Types, Types', NEW c \in Cores, Undrawn' \subseteq Undrawn \cup {c}, begun' = begun + 1, now = now'
    PROVE  Slack
<1>1. IsFiniteSet(Undrawn \cup {c}) /\ Cardinality(Undrawn \cup {c}) <= Cardinality(Undrawn) + 1
      /\ Cardinality(Undrawn \cup {c}) \in Nat
  <2> DEFINE U == Undrawn
  <2>1. IsFiniteSet(U) /\ Cardinality(U) \in Nat
    BY UndrawnFinite
  <2> HIDE DEF U
  <2>2. IsFiniteSet(U \cup {c}) /\ Cardinality(U \cup {c}) = IF c \in U THEN Cardinality(U) ELSE Cardinality(U) + 1
    BY <2>1, FS_AddElement
  <2>3. Cardinality(U \cup {c}) <= Cardinality(U) + 1 /\ Cardinality(U \cup {c}) \in Nat
    BY <2>1, <2>2
  <2> QED
    BY <2>2, <2>3 DEF U
<1>2. Cardinality(Undrawn') <= Cardinality(Undrawn \cup {c})
  <2> HIDE DEF Undrawn
  <2> QED
    BY <1>1, UndrawnFinite, FS_Subset
<1>3. begun \in Nat /\ begun' \in Nat /\ now \in Nat /\ now' \in Nat
  BY Spans DEF Types, MiscTypes
<1> QED
  BY <1>1, <1>2, <1>3, UndrawnFinite DEF Slack

LEMMA NumberedKept ==
    ASSUME Slack, NEW v, Numbered(v)
    PROVE  /\ v \in Nat /\ EpochId(v) <= now'
           /\ EpochId(v) > 0 => NumId(v) + Cardinality(Undrawn') <= begun'
<1>1. v \in Nat
  BY DEF Numbered
<1>2. EpochId(v) \in Nat /\ NumId(v) \in Nat
  BY <1>1, EpochMono, Spans
<1> QED
  BY <1>1, <1>2 DEF Slack, Numbered

LEMMA NumberedZero == ASSUME Types PROVE Numbered(MIN_TID)
<1>1. MIN_TID = MakeTid(0, 0, 0)
  BY Spans, Product DEF MIN_TID, MakeTid
<1>2. EpochId(MIN_TID) = 0 /\ MIN_TID \in Nat
  <2>1. 0 \in 0..(CoreSpan - 1) /\ 0 \in 0..(NumSpan - 1)
    BY Spans
  <2> QED
    BY <1>1, <2>1, TidFields
<1> QED
  BY <1>2 DEF Numbered, Types, MiscTypes

(* What a version in the heap can be after a step.                         *)
SomeVersion(v) == \/ \E i \in DOMAIN heap : v = heap[i].version
                  \/ \E c \in Cores : v = last_commit_tid[c]
                  \/ \E c \in Cores : \E k \in DOMAIN txn[c].got : v = txn[c].got[k]
                  \/ v = MIN_TID

LEMMA StampsKept ==
    ASSUME Types, Types', Stamps, Slack,
           \A i \in DOMAIN heap' : SomeVersion(heap'[i].version),
           \A c \in Cores : SomeVersion(last_commit_tid'[c]),
           \A c \in Cores : \A k \in DOMAIN txn'[c].got : SomeVersion(txn'[c].got[k]),
           \A c \in Cores : txn'[c].pc = "install" =>
               txn[c].pc = "install" /\ txn'[c].t = txn[c].t
               /\ last_commit_tid'[c] = last_commit_tid[c] /\ region'[c] = region[c]
    PROVE  Stamps'
<1>1. \A v : SomeVersion(v) => Numbered(v)
  BY NumberedZero DEF SomeVersion, Stamps
<1>2. \A v : SomeVersion(v) =>
         /\ v \in Nat /\ EpochId(v) <= now'
         /\ EpochId(v) > 0 => NumId(v) + Cardinality(Undrawn') <= begun'
  BY <1>1, NumberedKept
<1>3. Cardinality(Undrawn') <= begun'
  BY DEF Slack, Stamps
<1>4. \A c \in Cores : txn'[c].pc = "install" =>
          txn'[c].t = last_commit_tid'[c] /\ region'[c] <= EpochId(txn'[c].t)
  BY DEF Stamps
<1> HIDE DEF SomeVersion, Undrawn
<1> QED
  BY <1>2, <1>3, <1>4 DEF Stamps, Numbered

LEMMA HeapVersionsSame ==
    ASSUME Types, UNCHANGED heap \/ \E S : \E b \in BOOLEAN : SetLocks(S, b)
    PROVE  \A i \in DOMAIN heap' : SomeVersion(heap'[i].version)
<1>1. CASE UNCHANGED heap
  BY <1>1 DEF SomeVersion
<1>2. ASSUME NEW S, NEW b \in BOOLEAN, SetLocks(S, b)
      PROVE  \A i \in DOMAIN heap' : SomeVersion(heap'[i].version)
  <2>1. LocksSet(S, b)
    BY <1>2, SetLocksStep DEF Types, HeapTypes
  <2> QED
    BY <2>1 DEF LocksSet, SameTuple, SomeVersion
<1> QED
  BY <1>1, <1>2

(* The steps that draw no id, find no version and begin no transaction.    *)
LEMMA StampsSame ==
    ASSUME Types, Types', Stamps, begun' = begun, now <= now', UNCHANGED last_commit_tid,
           \A i \in DOMAIN heap' : SomeVersion(heap'[i].version),
           \A c \in Cores : \/ txn'[c] = txn[c] /\ (txn[c].pc = "install" => region'[c] = region[c])
                            \/ \E p \in Pcs : /\ txn'[c] = [txn[c] EXCEPT !.pc = p]
                                              /\ p \in {"validate", "gen_tid"} => c \in Undrawn
                                              /\ p \notin {"install", "run"}
    PROVE  Stamps'
<1>1. ASSUME NEW c \in Cores
      PROVE  /\ txn'[c].got = txn[c].got
             /\ txn'[c].t = txn[c].t
             /\ txn'[c].pc = "install" => txn[c].pc = "install" /\ region'[c] = region[c]
             /\ c \in Undrawn' => c \in Undrawn
  <2>1. txn[c] \in TxnStates
    BY DEF Types, TxnTypes
  <2>2. CASE txn'[c] = txn[c] /\ (txn[c].pc = "install" => region'[c] = region[c])
    BY <2>2 DEF Undrawn
  <2>3. ASSUME NEW p \in Pcs, txn'[c] = [txn[c] EXCEPT !.pc = p],
               p \in {"validate", "gen_tid"} => c \in Undrawn, p \notin {"install", "run"}
        PROVE  /\ txn'[c].got = txn[c].got
               /\ txn'[c].t = txn[c].t
               /\ txn'[c].pc = "install" => txn[c].pc = "install" /\ region'[c] = region[c]
               /\ c \in Undrawn' => c \in Undrawn
    <3>1. txn'[c].pc = p /\ txn'[c].got = txn[c].got /\ txn'[c].t = txn[c].t
      BY <2>1, <2>3, NewPc
    <3> QED
      BY <2>3, <3>1 DEF Undrawn
  <2> QED
    BY <2>2, <2>3
<1>2. Undrawn' \subseteq Undrawn
  BY <1>1 DEF Undrawn
<1>3. Slack
  BY <1>2, SlackFewer
<1> QED
  BY <1>1, <1>3, StampsKept DEF SomeVersion

LEMMA BeginStamps ==
    ASSUME Types, Types', Stamps, NEW c \in Cores, Begin(c)
    PROVE  Stamps'
<1>1. PICK p \in ProgramSet : txn'[c] = BeginState(p) /\ OthersSame(c)
  BY BeginStep
<1>2. txn'[c].pc \in {"begin", "run"} /\ DOMAIN txn'[c].got = {}
  BY <1>1 DEF BeginState, Idle
<1>3. Undrawn' \subseteq Undrawn \cup {c}
  BY <1>1 DEF OthersSame, Undrawn
<1>4. begun' = begun + 1 /\ now' = now /\ UNCHANGED <<heap, last_commit_tid>>
      /\ \A d \in Cores \ {c} : region'[d] = region[d]
  BY DEF Begin, Start, SameStore, Types, MiscTypes
<1>5. Slack
  BY <1>3, <1>4, SlackMore
<1>6. \A d \in Cores : \A k \in DOMAIN txn'[d].got : SomeVersion(txn'[d].got[k])
  BY <1>1, <1>2 DEF OthersSame, SomeVersion
<1> QED
  BY <1>1, <1>2, <1>4, <1>5, <1>6, StampsKept DEF SomeVersion, OthersSame

LEMMA AccessStamps ==
    ASSUME Types, Types', Stamps, NEW c \in Cores, NEW k \in Keys, Access(c, k)
    PROVE  Stamps'
<1> DEFINE x == txn[c]
           i == tree[k]
           z == txn'[c]
           v == heap[i].version
<1>1. z = AccessState(c, k) /\ OthersSame(c)
  BY AccessStep
<1>2. /\ i \in DOMAIN heap /\ heap[i] \in Tuples /\ z.pc = "run"
      /\ z.got = IF k \in x.prog.reads THEN With(x.got, k, v) ELSE x.got
  BY <1>1, AccessFields
<1>3. x.pc = "run" /\ UNCHANGED <<heap, last_commit_tid, begun, now, region>> /\ x.got \in Partial /\ v \in Nat
  BY <1>2, TxnFields, TupleFields DEF Access, SameStore, vars, Types, TxnTypes
<1>4. \A j \in DOMAIN z.got : SomeVersion(z.got[j])
  <2>1. CASE k \notin x.prog.reads
    BY <1>2, <2>1 DEF SomeVersion
  <2>2. CASE k \in x.prog.reads
    <3> DEFINE f == x.got
    <3>1. f \in Partial /\ z.got = With(f, k, v)
      BY <1>2, <1>3, <2>2
    <3> HIDE DEF f, v, z
    <3>2. /\ DOMAIN z.got = DOMAIN f \cup {k} /\ z.got[k] = v
          /\ \A j \in DOMAIN f \ {k} : z.got[j] = f[j]
      BY <1>3, <3>1, WithType
    <3>3. SomeVersion(v)
      BY <1>2 DEF SomeVersion, v
    <3>4. \A j \in DOMAIN f : SomeVersion(f[j])
      BY DEF SomeVersion, f
    <3> QED
      BY <3>2, <3>3, <3>4
  <2> QED
    BY <2>1, <2>2
<1>5. Undrawn' \subseteq Undrawn
  BY <1>1, <1>3 DEF OthersSame, Undrawn
<1>6. Slack
  <2>1. now <= now'
    BY <1>3 DEF Types, MiscTypes
  <2> QED
    BY <1>3, <1>5, <2>1, SlackFewer
<1>7. \A d \in Cores : \A j \in DOMAIN txn'[d].got : SomeVersion(txn'[d].got[j])
  BY <1>1, <1>4 DEF OthersSame, SomeVersion
<1>8. \A d \in Cores : txn'[d].pc = "install" => d # c /\ txn'[d] = txn[d]
  BY <1>1, <1>2 DEF OthersSame
<1>9. /\ \A j \in DOMAIN heap' : SomeVersion(heap'[j].version)
      /\ \A d \in Cores : SomeVersion(last_commit_tid'[d])
  BY <1>3 DEF SomeVersion
<1> QED
  BY <1>3, <1>6, <1>7, <1>8, <1>9, StampsKept

LEMMA FindsStamps ==
    ASSUME Types, Types', Stamps, NEW c \in Cores, OthersSame(c), txn[c].pc \in {"begin", "snapshot", "walk"},
           txn'[c].pc \in {"snapshot", "walk"}, UNCHANGED <<heap, last_commit_tid, begun, vars>>,
           \A k \in DOMAIN txn'[c].got : SomeVersion(txn'[c].got[k])
    PROVE  Stamps'
<1>1. Undrawn' \subseteq Undrawn
  BY DEF OthersSame, Undrawn
<1>2. Slack
  <2>1. now <= now'
    BY DEF Types, MiscTypes, vars
  <2> QED
    BY <1>1, <2>1, SlackFewer
<1>3. \A d \in Cores : \A j \in DOMAIN txn'[d].got : SomeVersion(txn'[d].got[j])
  BY DEF OthersSame, SomeVersion
<1>4. \A d \in Cores : txn'[d].pc = "install" => d # c /\ txn'[d] = txn[d]
  BY DEF OthersSame
<1>5. /\ \A j \in DOMAIN heap' : SomeVersion(heap'[j].version)
      /\ \A d \in Cores : SomeVersion(last_commit_tid'[d])
      /\ region' = region
  BY DEF SomeVersion, vars
<1> QED
  BY <1>2, <1>3, <1>4, <1>5, StampsKept

(***************************************************************************)
(* Commit ids: the number drawn exceeds all the transaction has met, and   *)
(* fits its field.                                                         *)
(***************************************************************************)
LEMMA GenNumber ==
    ASSUME Types, Stamps, NEW c \in Cores, gen_commit_tid(c)
    PROVE  LET tid == txn'[c].t
           IN  /\ tid \in Nat /\ EpochId(tid) = now
               /\ NumId(tid) + Cardinality(Undrawn \ {c}) <= begun
               /\ Cardinality(Undrawn \ {c}) + 1 = Cardinality(Undrawn)
               /\ \A u \in Met(c) : u < tid
<1>1. PICK num \in Nums(c) :
          /\ num \in 0..(NumSpan - 1) /\ \A m \in Nums(c) : m <= num
          /\ txn'[c] = DrawState(c, MakeTid(c, num + 1, now))
  BY GenStep
<1> DEFINE tid == MakeTid(c, num + 1, now)
<1>2. txn[c].pc = "gen_tid" /\ now \in Nat /\ now > 0 /\ begun \in 0..MaxTxns
  <2>1. now \in Nat /\ now > 0
    BY NowTypes
  <2> QED
    BY <2>1 DEF gen_commit_tid, Types, MiscTypes
<1>3. Met(c) \subseteq Nat /\ Writes(c) \subseteq DOMAIN heap
  BY <1>2, MetTypes
<1>4. \A u \in Met(c) : Numbered(u)
  BY <1>3 DEF Met, Stamps
<1>5. Cardinality(Undrawn) \in Nat /\ c \in Undrawn /\ IsFiniteSet(Undrawn)
  BY <1>2, UndrawnFinite DEF Undrawn
<1>6. num + Cardinality(Undrawn) <= begun
  <2>1. CASE num = 0
    BY <1>2, <1>5, <2>1 DEF Stamps
  <2>2. CASE num # 0
    <3>1. PICK u \in Met(c) : EpochId(u) = now /\ num = NumId(u)
      BY <1>1, <2>2 DEF Nums
    <3> QED
      BY <1>2, <1>4, <3>1 DEF Numbered
  <2> QED
    BY <2>1, <2>2
<1>7. Cardinality(Undrawn \ {c}) = Cardinality(Undrawn) - 1
  <2> DEFINE U == Undrawn
  <2>1. c \in U /\ IsFiniteSet(U)
    BY <1>5
  <2> HIDE DEF U
  <2>2. Cardinality(U \ {c}) = Cardinality(U) - 1
    BY <2>1, FS_RemoveElement
  <2> QED
    BY <2>2 DEF U
<1>a. Cardinality(Undrawn) >= 1
  <2> DEFINE U == Undrawn
  <2>1. c \in U /\ IsFiniteSet(U) /\ Cardinality(U) \in Nat
    BY <1>5
  <2> HIDE DEF U
  <2>2. Cardinality(U) # 0
    BY <2>1, FS_EmptySet
  <2> QED
    BY <2>1, <2>2 DEF U
<1>8. num + 1 \in 0..(NumSpan - 1) /\ c \in 0..(CoreSpan - 1)
  BY <1>1, <1>2, <1>5, <1>6, <1>a, Spans
<1>9. tid \in Nat /\ NumId(tid) = num + 1 /\ EpochId(tid) = now
  BY <1>2, <1>8, TidFields
<1>10. txn'[c].t = tid
  <2>1. txn[c] \in TxnStates
    BY DEF Types, TxnTypes
  <2> HIDE DEF tid
  <2>2. txn'[c] = DrawState(c, tid)
    BY <1>1 DEF tid
  <2> QED
    BY <1>9, <2>2, GenFields
<1>11. ASSUME NEW u \in Met(c) PROVE u < tid
  <2>1. u \in Nat /\ EpochId(u) \in Nat /\ EpochId(u) <= now
    BY <1>3, <1>4, EpochMono DEF Numbered
  <2>2. CASE EpochId(u) < now
    <3>1. ~(tid <= u)
      BY <1>9, <2>1, <2>2, EpochMono
    <3> QED
      BY <1>9, <2>1, <3>1
  <2>3. CASE EpochId(u) = now
    <3>1. NumId(u) \in Nums(c)
      BY <2>3 DEF Nums
    <3>2. NumId(u) <= num /\ NumId(u) \in Nat /\ NumId(tid) = num + 1 /\ num \in Nat
      BY <1>1, <1>9, <2>1, <3>1, EpochMono, Spans
    <3> DEFINE a == u \div CoreSpan
               b == tid \div CoreSpan
    <3>3. a \in Nat /\ b \in Nat /\ (tid <= u => b <= a)
      BY <1>9, <2>1, Spans, Quotient, QuotientMono
    <3>4. a = NumSpan * now + NumId(u) /\ b = NumSpan * now + NumId(tid)
      <4>1. ASSUME NEW v \in Nat, EpochId(v) = now
            PROVE  v \div CoreSpan = NumSpan * now + NumId(v)
        <5> DEFINE p == v \div CoreSpan
                   q == p \div NumSpan
                   r == p % NumSpan
        <5>1. p \in Nat
          BY Spans, Quotient
        <5>2. q \in Nat /\ r \in 0..(NumSpan - 1) /\ p = NumSpan * q + r
          <6> HIDE DEF p
          <6>1. q \in Nat /\ r \in 0..(NumSpan - 1)
            BY <5>1, Spans, Quotient, RemainderIn
          <6>2. p = NumSpan * q + r
            BY <5>1, Spans, SMTT(30)
          <6> QED
            BY <6>1, <6>2
        <5>3. v \div (CoreSpan * NumSpan) = q
          <6>1. CoreSpan * p <= v /\ v < CoreSpan * (p + 1)
            BY Spans, Quotient
          <6> HIDE DEF p, q, r
          <6>2. CoreSpan * (p + 1) <= CoreSpan * (NumSpan * q + NumSpan)
            <7>1. p + 1 <= NumSpan * q + NumSpan /\ p + 1 \in Nat /\ NumSpan * q + NumSpan \in Nat
              BY <5>1, <5>2, Spans, Product
            <7> QED
              BY <7>1, Spans, Product
          <6>3. CoreSpan * (NumSpan * q) <= CoreSpan * p
            <7>1. NumSpan * q <= p /\ NumSpan * q \in Nat
              BY <5>1, <5>2, Spans, Product
            <7> QED
              BY <5>1, <7>1, Spans, Product
          <6>4. CoreSpan * (NumSpan * q) = (CoreSpan * NumSpan) * q
                /\ CoreSpan * (NumSpan * q + NumSpan) = (CoreSpan * NumSpan) * (q + 1)
            <7>1. CoreSpan * (NumSpan * q + NumSpan) = CoreSpan * (NumSpan * q) + CoreSpan * NumSpan
                  /\ CoreSpan * (NumSpan * q) = (CoreSpan * NumSpan) * q
                  /\ NumSpan * q \in Nat
              BY <5>2, Spans, Product
            <7>2. (CoreSpan * NumSpan) * (q + 1) = (CoreSpan * NumSpan) * q + (CoreSpan * NumSpan) * 1
                  /\ CoreSpan * NumSpan \in Nat \ {0}
              BY <5>2, Spans, Product DEF Span
            <7> QED
              BY <5>2, <7>1, <7>2, Spans
          <6>5. CoreSpan * NumSpan \in Nat \ {0}
            BY Spans DEF Span
          <6>6. (CoreSpan * NumSpan) * q <= v /\ v < (CoreSpan * NumSpan) * (q + 1)
            <7> DEFINE s == CoreSpan * NumSpan
                       e1 == CoreSpan * p
                       e2 == CoreSpan * (p + 1)
                       e3 == CoreSpan * (NumSpan * q)
                       e4 == CoreSpan * (NumSpan * q + NumSpan)
            <7>1. e1 \in Nat /\ e2 \in Nat /\ e3 \in Nat /\ e4 \in Nat
              BY <5>1, <5>2, Spans, Product
            <7>2. e1 <= v /\ v < e2 /\ e2 <= e4 /\ e3 <= e1 /\ e3 = s * q /\ e4 = s * (q + 1)
              BY <6>1, <6>2, <6>3, <6>4
            <7> HIDE DEF e1, e2, e3, e4
            <7> QED
              BY <7>1, <7>2
          <6> HIDE DEF p, q
          <6> QED
            BY <5>2, <6>5, <6>6, QuotientIs
        <5> QED
          BY <4>1, <5>2, <5>3 DEF EpochId, NumId
      <4> QED
        BY <1>9, <2>1, <2>3, <4>1
    <3>5. NumSpan * now \in Nat
      BY <1>2, Spans, Product
    <3> HIDE DEF a, b, tid
    <3> QED
      BY <1>9, <2>1, <3>2, <3>3, <3>4, <3>5
  <2> QED
    BY <1>2, <2>1, <2>2, <2>3
<1> HIDE DEF tid
<1>12. tid \in Nat /\ NumId(tid) + (Cardinality(Undrawn) - 1) <= begun
  BY <1>1, <1>2, <1>5, <1>6, <1>9
<1> QED
  BY <1>5, <1>7, <1>9, <1>10, <1>11, <1>12

LEMMA GenStamps ==
    ASSUME Types, Types', Stamps, NEW c \in Cores, gen_commit_tid(c)
    PROVE  Stamps'
<1> DEFINE tid == txn'[c].t
<1>1. /\ tid \in Nat /\ EpochId(tid) = now
      /\ NumId(tid) + Cardinality(Undrawn \ {c}) <= begun
      /\ Cardinality(Undrawn \ {c}) + 1 = Cardinality(Undrawn)
  BY GenNumber
<1>2. /\ txn[c].pc = "gen_tid" /\ UNCHANGED <<heap, begun, now, region>>
      /\ txn'[c].pc = "install" /\ OthersSame(c) /\ txn'[c].got = txn[c].got
      /\ last_commit_tid'[c] = tid /\ \A d \in Cores \ {c} : last_commit_tid'[d] = last_commit_tid[d]
  <2>1. PICK num \in Nums(c) :
          /\ num \in 0..(NumSpan - 1)
          /\ txn'[c] = DrawState(c, MakeTid(c, num + 1, now)) /\ OthersSame(c)
          /\ last_commit_tid' = [last_commit_tid EXCEPT ![c] = MakeTid(c, num + 1, now)]
    BY GenStep
  <2> DEFINE u == MakeTid(c, num + 1, now)
  <2> HIDE DEF u
  <2>2. txn'[c] = DrawState(c, u) /\ last_commit_tid' = [last_commit_tid EXCEPT ![c] = u]
    BY <2>1 DEF u
  <2>3. txn'[c].pc = "install" /\ txn'[c].got = txn[c].got /\ txn'[c].t = u
    BY <2>2 DEF DrawState, Types, TxnTypes, TxnStates
  <2>4. last_commit_tid'[c] = u /\ \A d \in Cores \ {c} : last_commit_tid'[d] = last_commit_tid[d]
    BY <2>2 DEF Types, MiscTypes
  <2> QED
    BY <2>1, <2>3, <2>4 DEF gen_commit_tid, vars
<1>3. Undrawn' = Undrawn \ {c}
  BY <1>2 DEF Undrawn, OthersSame
<1>4. Slack
  <2>1. now <= now'
    BY <1>2 DEF Types, MiscTypes
  <2> QED
    BY <1>2, <1>3, <2>1, SlackFewer
<1>5. \A v : Numbered(v) => /\ v \in Nat /\ EpochId(v) <= now'
                            /\ EpochId(v) > 0 => NumId(v) + Cardinality(Undrawn') <= begun'
  BY <1>4, NumberedKept
<1>6. /\ tid \in Nat /\ EpochId(tid) <= now'
      /\ EpochId(tid) > 0 => NumId(tid) + Cardinality(Undrawn') <= begun'
  BY <1>1, <1>2, <1>3 DEF Types, MiscTypes
<1>7. region[c] <= now /\ now \in Nat
  BY <1>2 DEF Types, MiscTypes, Writing
<1> HIDE DEF tid
<1>8. \A d \in Cores : txn'[d].pc = "install" =>
          txn'[d].t = last_commit_tid'[d] /\ region'[d] <= EpochId(txn'[d].t)
  BY <1>1, <1>2, <1>7 DEF Stamps, OthersSame, tid
<1>9. Cardinality(Undrawn') <= begun'
  BY <1>4 DEF Slack, Stamps
<1>10. /\ \A i \in DOMAIN heap : Numbered(heap[i].version)
       /\ \A d \in Cores : Numbered(last_commit_tid[d])
       /\ \A d \in Cores : \A k \in DOMAIN txn[d].got : Numbered(txn[d].got[k])
  BY DEF Stamps
<1> HIDE DEF Undrawn
<1>11. \A d \in Cores : last_commit_tid'[d] = IF d = c THEN tid ELSE last_commit_tid[d]
  BY <1>2
<1>12. \A d \in Cores : txn'[d].got = txn[d].got
  BY <1>2 DEF OthersSame
<1> QED
  BY <1>2, <1>5, <1>6, <1>8, <1>9, <1>10, <1>11, <1>12 DEF Stamps, Numbered

(***************************************************************************)
(* Commit ids: every step, and type correctness.                           *)
(***************************************************************************)
LEMMA OwnRegion ==
    ASSUME Types, NEW c \in Cores, Start(c) \/ End(c) \/ UNCHANGED vars
    PROVE  now' = now /\ over' = over /\ now <= now' /\ \A d \in Cores \ {c} : region'[d] = region[d]
BY DEF Start, End, vars, Types, MiscTypes

LEMMA StampsGo ==
    ASSUME Types, Types', Stamps, begun' = begun, UNCHANGED last_commit_tid,
           NEW c \in Cores, Start(c) \/ End(c) \/ UNCHANGED vars,
           \A i \in DOMAIN heap' : SomeVersion(heap'[i].version),
           NEW p \in Pcs, Go(c, p), p \in {"validate", "gen_tid"} => c \in Undrawn,
           p \notin {"install", "run"}
    PROVE  Stamps'
<1>1. Goes(c, p)
  BY GoStep DEF Types, TxnTypes
<1>2. now <= now' /\ \A d \in Cores \ {c} : region'[d] = region[d]
  BY OwnRegion
<1>3. ASSUME NEW d \in Cores
      PROVE  \/ txn'[d] = txn[d] /\ (txn[d].pc = "install" => region'[d] = region[d])
             \/ \E q \in Pcs : /\ txn'[d] = [txn[d] EXCEPT !.pc = q]
                               /\ q \in {"validate", "gen_tid"} => d \in Undrawn
                               /\ q \notin {"install", "run"}
  BY <1>1, <1>2 DEF Goes, OthersSame
<1> QED
  BY <1>2, <1>3, StampsSame

LEMMA StampsStill ==
    ASSUME Types, Types', Stamps, UNCHANGED <<begun, last_commit_tid, txn, heap, region>>, now <= now'
    PROVE  Stamps'
<1>1. \A i \in DOMAIN heap' : SomeVersion(heap'[i].version)
  BY DEF SomeVersion
<1> QED
  BY <1>1, StampsSame

LEMMA InstallStamps ==
    ASSUME Types, Types', Stamps, NEW c \in Cores, NEW k \in Keys, NEW delete \in BOOLEAN,
           InstallInPlace(c, k, delete) \/ InstallReplacement(c, k, delete)
    PROVE  Stamps'
<1> DEFINE i == txn[c].refs[k]
           l == Len(heap) + 1
<1>1. txn[c].pc = "install" /\ begun' = begun /\ UNCHANGED last_commit_tid /\ UNCHANGED vars
      /\ \E r : Installed(c, k, delete, r)
  BY DEF InstallInPlace, InstallReplacement, Installed
<1>2. txn'[c] = InstalledState(c, k) /\ OthersSame(c)
  BY <1>1, InstalledStep
<1>3. /\ txn'[c].pc \in {"install", "committed"}
      /\ txn'[c].t = txn[c].t /\ txn'[c].got = txn[c].got
  BY <1>1, <1>2, InstalledFields
<1>4. txn[c].t = last_commit_tid[c]
  BY <1>1 DEF Stamps
<1>5. \A j \in DOMAIN heap' : SomeVersion(heap'[j].version)
  <2>1. \A v : v = txn[c].t \/ (v = heap[i].version /\ i \in DOMAIN heap) => SomeVersion(v)
    BY <1>4 DEF SomeVersion
  <2>2. \A j \in DOMAIN heap : SomeVersion(heap[j].version)
    BY DEF SomeVersion
  <2>3. CASE InstallInPlace(c, k, delete)
    <3>1. InPlace(c, k, delete) /\ i \in DOMAIN heap
      BY <2>3, InPlaceHeap
    <3>2. /\ heap'[i] = Overwritten(c, k, delete) /\ \A j \in DOMAIN heap \ {i} : heap'[j] = heap[j]
          /\ Keep(c, k) => DOMAIN heap' = DOMAIN heap \cup {l} /\ heap'[l] = Spilled(c, k)
          /\ ~Keep(c, k) => DOMAIN heap' = DOMAIN heap
      BY <3>1 DEF InPlace
    <3>3. Overwritten(c, k, delete).version = txn[c].t /\ Spilled(c, k).version = heap[i].version
      BY <3>1, OverwrittenFields
    <3> HIDE DEF i, l
    <3>4. \A j \in DOMAIN heap' : \/ j = i /\ heap'[j].version = txn[c].t
                                  \/ j \in DOMAIN heap /\ heap'[j] = heap[j]
                                  \/ heap'[j].version = heap[i].version
      BY <3>2, <3>3
    <3> QED
      BY <2>1, <2>2, <3>1, <3>4
  <2>4. CASE InstallReplacement(c, k, delete)
    <3>1. Replaced(c, k, delete) /\ i \in DOMAIN heap
      BY <2>4, ReplacedHeap
    <3>2. /\ heap'[i] = Superseded(i) /\ \A j \in DOMAIN heap \ {i} : heap'[j] = heap[j]
          /\ DOMAIN heap' = DOMAIN heap \cup {l} /\ heap'[l] = Replacement(c, k, delete)
      BY <3>1 DEF Replaced
    <3>3. Replacement(c, k, delete).version = txn[c].t /\ Superseded(i).version = heap[i].version
      BY <3>1, ReplacementFields
    <3> HIDE DEF i, l
    <3>4. \A j \in DOMAIN heap' : \/ heap'[j].version = txn[c].t
                                  \/ j \in DOMAIN heap /\ heap'[j] = heap[j]
                                  \/ heap'[j].version = heap[i].version
      BY <3>2, <3>3
    <3> QED
      BY <2>1, <2>2, <3>1, <3>4
  <2> QED
    BY <2>3, <2>4
<1>6. Undrawn' \subseteq Undrawn
  BY <1>2, <1>3 DEF Undrawn, OthersSame
<1>7. Slack
  BY <1>1, <1>6, SlackFewer, OwnRegion
<1>8. \A d \in Cores : \A j \in DOMAIN txn'[d].got : SomeVersion(txn'[d].got[j])
  BY <1>2, <1>3 DEF OthersSame, SomeVersion
<1>9. \A d \in Cores : SomeVersion(last_commit_tid'[d])
  BY <1>1 DEF SomeVersion
<1>10. \A d \in Cores : txn'[d].pc = "install" =>
               txn[d].pc = "install" /\ txn'[d].t = txn[d].t
               /\ last_commit_tid'[d] = last_commit_tid[d] /\ region'[d] = region[d]
  BY <1>1, <1>2, <1>3 DEF OthersSame, vars
<1> QED
  BY <1>5, <1>7, <1>8, <1>9, <1>10, StampsKept

LEMMA EndTxnStamps ==
    ASSUME Types, Types', Stamps, NEW c \in Cores, EndTxn(c)
    PROVE  Stamps'
<1>1. txn'[c] = [Idle EXCEPT !.pc = "post"] /\ OthersSame(c)
  BY EndTxnStep
<1>2. txn'[c].pc = "post" /\ DOMAIN txn'[c].got = {}
  BY <1>1, IdleState DEF Pcs
<1>3. UNCHANGED <<heap, last_commit_tid, begun>> /\ End(c)
  BY DEF EndTxn, SameStore
<1>4. now <= now' /\ \A d \in Cores \ {c} : region'[d] = region[d]
  BY <1>3, OwnRegion
<1>5. Undrawn' \subseteq Undrawn
  BY <1>1, <1>2 DEF OthersSame, Undrawn
<1>6. Slack
  BY <1>3, <1>4, <1>5, SlackFewer
<1>7. \A d \in Cores : \A j \in DOMAIN txn'[d].got : SomeVersion(txn'[d].got[j])
  BY <1>1, <1>2 DEF OthersSame, SomeVersion
<1>8. /\ \A j \in DOMAIN heap' : SomeVersion(heap'[j].version)
      /\ \A d \in Cores : SomeVersion(last_commit_tid'[d])
  BY <1>3 DEF SomeVersion
<1>9. \A d \in Cores : txn'[d].pc = "install" => d # c /\ txn'[d] = txn[d]
  BY <1>1, <1>2 DEF OthersSame
<1> QED
  BY <1>3, <1>4, <1>6, <1>7, <1>8, <1>9, StampsKept

LEMMA SnapshotStamps ==
    ASSUME Types, Types', Stamps, NEW c \in Cores,
           TakeSnapshot(c) \/ Walk(c) \/ \E k \in Keys : FindHead(c, k)
    PROVE  Stamps'
<1>1. UNCHANGED <<heap, last_commit_tid, begun, vars>> /\ txn[c].pc \in {"begin", "snapshot", "walk"}
  BY DEF TakeSnapshot, Walk, FindHead, SameStore
<1>2. ASSUME NEW k \in Keys, NEW v, SomeVersion(v), Finds(txn[c], txn'[c], k, v)
      PROVE  txn'[c].pc = "snapshot" /\ \A j \in DOMAIN txn'[c].got : SomeVersion(txn'[c].got[j])
  <2>1. \A j \in DOMAIN txn[c].got : SomeVersion(txn[c].got[j])
    BY DEF SomeVersion
  <2>2. txn'[c].pc = "snapshot" /\ DOMAIN txn'[c].got = DOMAIN txn[c].got \cup {k} /\ txn'[c].got[k] = v
        /\ \A j \in DOMAIN txn[c].got \ {k} : txn'[c].got[j] = txn[c].got[j]
    BY <1>2 DEF Finds
  <2> QED
    BY <1>2, <2>1, <2>2
<1>3. ASSUME NEW k, NEW i, MovesTo(txn[c], txn'[c], k, i)
      PROVE  txn'[c].pc = "walk" /\ \A j \in DOMAIN txn'[c].got : SomeVersion(txn'[c].got[j])
  BY <1>3 DEF MovesTo, SomeVersion
<1>4. SomeVersion(MIN_TID)
  BY DEF SomeVersion
<1>5. OthersSame(c) /\ txn'[c].pc \in {"snapshot", "walk"}
      /\ \A j \in DOMAIN txn'[c].got : SomeVersion(txn'[c].got[j])
  <2>1. CASE TakeSnapshot(c)
    <3>1. txn'[c].pc = "snapshot" /\ txn'[c].got = txn[c].got /\ OthersSame(c)
      BY <2>1, TakeSnapshotStep, SnapFields
    <3> QED
      BY <3>1 DEF SomeVersion
  <2>2. ASSUME NEW k \in Keys, FindHead(c, k)
        PROVE  OthersSame(c) /\ txn'[c].pc \in {"snapshot", "walk"}
               /\ \A j \in DOMAIN txn'[c].got : SomeVersion(txn'[c].got[j])
    BY <1>2, <1>3, <1>4, <2>2, FindHeadMoves
  <2>3. CASE Walk(c)
    <3> DEFINE x == txn[c]
               n == heap[x.at]
               z == txn'[c]
               k == x.key
    <3>1. /\ OthersSame(c)
          /\ k \in Keys /\ x.at \in DOMAIN heap /\ n \in Tuples
          /\ n.version <= x.t => Finds(x, z, k, IF n.deleting THEN MIN_TID ELSE n.version)
          /\ ~(n.version <= x.t) /\ n.next = Nil => Finds(x, z, k, MIN_TID)
          /\ ~(n.version <= x.t) /\ n.next # Nil => MovesTo(x, z, k, n.next) /\ n.next \in DOMAIN heap
      BY <2>3, WalkMoves
    <3>2. SomeVersion(n.version)
      BY <3>1 DEF SomeVersion
    <3>3. SomeVersion(IF n.deleting THEN MIN_TID ELSE n.version)
      BY <1>4, <3>2
    <3> HIDE DEF n, k
    <3>4. CASE n.version <= x.t
      BY <1>2, <3>1, <3>3, <3>4
    <3>5. CASE ~(n.version <= x.t)
      BY <1>2, <1>3, <1>4, <3>1, <3>5
    <3> QED
      BY <3>1, <3>4, <3>5
  <2> QED
    BY <2>1, <2>2, <2>3
<1> QED
  BY <1>1, <1>5, FindsStamps

LEMMA SetLocksVersions ==
    ASSUME Types, NEW S, NEW b \in BOOLEAN, SetLocks(S, b) \/ UNCHANGED heap
    PROVE  \A i \in DOMAIN heap' : SomeVersion(heap'[i].version)
BY HeapVersionsSame

LEMMA RemovedVersions ==
    ASSUME Types, NEW c \in Cores, RemoveTombstone(c)
    PROVE  \A i \in DOMAIN heap' : SomeVersion(heap'[i].version)
<1> DEFINE i == Tombstone(c)
<1>1. /\ i \in DOMAIN heap /\ DOMAIN heap' = DOMAIN heap /\ heap'[i] = Removed(i)
      /\ \A j \in DOMAIN heap \ {i} : heap'[j] = heap[j]
  BY RemovedHeap
<1>2. Removed(i).version = heap[i].version
  BY <1>1, RemovedFields DEF Types, HeapTypes
<1> QED
  BY <1>1, <1>2 DEF SomeVersion

LEMMA StampsNext ==
    ASSUME Types, Types', Stamps, [VersionsNext]_vvars
    PROVE  Stamps'
<1>0. UNCHANGED heap => \A i \in DOMAIN heap' : SomeVersion(heap'[i].version)
  BY DEF SomeVersion
<1>p. {"validate", "gen_tid", "end", "committed", "idle"} \cup Collecting \subseteq Pcs
      /\ Collecting \cap {"validate", "gen_tid", "install", "run"} = {}
  BY DEF Pcs, Collecting, Examining, Writing
<1>1. ASSUME NEW c \in Cores, LockWrites(c) PROVE Stamps'
  <2>1. /\ begun' = begun /\ UNCHANGED last_commit_tid /\ UNCHANGED vars /\ c \in Undrawn
        /\ SetLocks(Writes(c), TRUE) \/ UNCHANGED heap
        /\ Go(c, "validate") \/ Go(c, "end")
    BY <1>1 DEF LockWrites, Undrawn
  <2>2. \A i \in DOMAIN heap' : SomeVersion(heap'[i].version)
    BY <2>1, SetLocksVersions
  <2> HIDE DEF Undrawn
  <2> QED
    BY <1>p, <2>1, <2>2, StampsGo
<1>2. ASSUME NEW c \in Cores, Validate(c) PROVE Stamps'
  <2>1. /\ begun' = begun /\ UNCHANGED last_commit_tid /\ UNCHANGED vars /\ c \in Undrawn
        /\ SetLocks(Writes(c), FALSE) \/ UNCHANGED heap
        /\ Go(c, "gen_tid") \/ Go(c, "end")
    BY <1>2 DEF Validate, Undrawn
  <2>2. \A i \in DOMAIN heap' : SomeVersion(heap'[i].version)
    BY <2>1, SetLocksVersions
  <2> HIDE DEF Undrawn
  <2> QED
    BY <1>p, <2>1, <2>2, StampsGo
<1>3. ASSUME NEW c \in Cores, NEW p \in {"end", "committed", "idle"} \cup Collecting, Go(c, p),
             UNCHANGED <<heap, last_commit_tid, begun>>, Start(c) \/ End(c) \/ UNCHANGED vars
      PROVE  Stamps'
  <2>1. p \in Pcs /\ p \notin {"validate", "gen_tid", "install", "run"} /\ begun' = begun
    BY <1>3, <1>p
  <2>2. \A i \in DOMAIN heap' : SomeVersion(heap'[i].version)
    BY <1>0, <1>3
  <2>3. UNCHANGED last_commit_tid
    BY <1>3
  <2> QED
    BY <1>3, <2>1, <2>2, <2>3, StampsGo
<1>q. {"collect", "wait", "spin", "locked", "remove", "release"} \subseteq Collecting
  BY DEF Collecting, Examining
<1>4. ASSUME NEW c \in Cores, Abort(c) \/ EndSnapshot(c) PROVE Stamps'
  BY <1>3, <1>4 DEF Abort, EndSnapshot, SameStore
<1>5. ASSUME NEW c \in Cores, TxnStep(c) PROVE Stamps'
  BY <1>1, <1>2, <1>4, <1>5, GenStamps, AccessStamps, SnapshotStamps, DeleteBoolean, InstallStamps,
     EndTxnStamps DEF TxnStep
<1>6. ASSUME NEW c \in Cores, on_post_rcu_region_completion(c) PROVE Stamps'
  <2>1. /\ UNCHANGED <<heap, last_commit_tid, begun>> /\ UNCHANGED vars
        /\ Go(c, "idle") \/ Go(c, "collect")
    BY <1>6 DEF on_post_rcu_region_completion, SameStore
  <2> QED
    BY <1>3, <1>q, <2>1
<1>7. ASSUME NEW c \in Cores, FreeVersion(c) PROVE Stamps'
  <2>1. UNCHANGED <<begun, last_commit_tid, txn, heap, region>> /\ now <= now'
    BY <1>7 DEF FreeVersion, SameStore, vars, Types, MiscTypes
  <2> QED
    BY <2>1, StampsStill
<1>8. ASSUME NEW c \in Cores, McsAcquire(c) PROVE Stamps'
  <2>1. /\ UNCHANGED <<heap, last_commit_tid, begun>> /\ UNCHANGED vars
        /\ Go(c, "spin") \/ Go(c, "wait")
    BY <1>8 DEF McsAcquire, SameStore
  <2> QED
    BY <1>3, <1>q, <2>1
<1>9. ASSUME NEW c \in Cores, SpinLock(c) PROVE Stamps'
  <2>1. /\ begun' = begun /\ UNCHANGED last_commit_tid /\ UNCHANGED vars
        /\ SetLocks({Tombstone(c)}, TRUE) /\ Go(c, "locked")
    BY <1>9 DEF SpinLock
  <2>2. \A i \in DOMAIN heap' : SomeVersion(heap'[i].version)
    BY <2>1, SetLocksVersions
  <2>3. "locked" \in Pcs
    BY <1>p, <1>q
  <2> QED
    BY <2>1, <2>2, <2>3, StampsGo
<1>10. ASSUME NEW c \in Cores, Requeue(c) PROVE Stamps'
  <2>1. /\ UNCHANGED <<heap, last_commit_tid, begun>> /\ UNCHANGED vars /\ Go(c, "release")
    BY <1>10 DEF Requeue, SameStore
  <2> QED
    BY <1>3, <1>q, <2>1
<1>11. ASSUME NEW c \in Cores, StillTombstone(c) PROVE Stamps'
  <2>1. /\ UNCHANGED <<heap, last_commit_tid, begun>> /\ Go(c, "remove")
        /\ Start(c) \/ UNCHANGED vars
    BY <1>11 DEF StillTombstone, SameStore
  <2> QED
    BY <1>3, <1>q, <2>1
<1>12. ASSUME NEW c \in Cores, RemoveTombstone(c) PROVE Stamps'
  <2>1. /\ UNCHANGED <<last_commit_tid, begun>> /\ Go(c, "release") /\ UNCHANGED vars
    BY <1>12 DEF RemoveTombstone
  <2>2. \A i \in DOMAIN heap' : SomeVersion(heap'[i].version)
    BY <1>12, RemovedVersions
  <2>3. "release" \in Pcs
    BY <1>p, <1>q
  <2> QED
    BY <2>1, <2>2, <2>3, StampsGo
<1>13. ASSUME NEW c \in Cores, McsRelease(c) PROVE Stamps'
  <2>1. /\ UNCHANGED <<last_commit_tid, begun>> /\ UNCHANGED vars
        /\ \E S : SetLocks(S, FALSE)
    BY <1>13 DEF McsRelease
  <2>2. \A i \in DOMAIN heap' : SomeVersion(heap'[i].version)
    BY <2>1, SetLocksVersions
  <2>3. Passes(c)
    BY <1>13, PassesStep
  <2>4. "collect" \in Pcs /\ "locked" \in Pcs
    BY <1>p, <1>q
  <2>5. ASSUME NEW d \in Cores
        PROVE  \/ txn'[d] = txn[d]
               \/ txn'[d] = [txn[d] EXCEPT !.pc = "collect"]
               \/ txn'[d] = [txn[d] EXCEPT !.pc = "locked"]
    BY <2>3 DEF Passes
  <2>6. now <= now' /\ region' = region
    BY <2>1 DEF vars, Types, MiscTypes
  <2>7. ASSUME NEW d \in Cores
        PROVE  \/ txn'[d] = txn[d] /\ (txn[d].pc = "install" => region'[d] = region[d])
               \/ \E q \in Pcs : /\ txn'[d] = [txn[d] EXCEPT !.pc = q]
                                 /\ q \in {"validate", "gen_tid"} => d \in Undrawn
                                 /\ q \notin {"install", "run"}
    BY <2>4, <2>5, <2>6
  <2> QED
    BY <2>1, <2>2, <2>6, <2>7, StampsSame
<1>14. ASSUME NEW c \in Cores, Collected(c) PROVE Stamps'
  <2>1. /\ UNCHANGED <<heap, last_commit_tid, begun>> /\ Go(c, "idle")
        /\ End(c) \/ UNCHANGED vars
    BY <1>14 DEF Collected, SameStore, vars
  <2> QED
    BY <1>3, <2>1
<1>15. ASSUME NEW c \in Cores, CollectStep(c) PROVE Stamps'
  BY <1>6, <1>7, <1>8, <1>9, <1>10, <1>11, <1>12, <1>13, <1>14, <1>15 DEF CollectStep
<1>16. CASE RcuFree
  <2>1. UNCHANGED <<begun, last_commit_tid, txn, heap, region>> /\ now <= now'
    BY <1>16 DEF RcuFree, SameStore, vars, Types, MiscTypes
  <2> QED
    BY <2>1, StampsStill
<1>17. CASE Tick
  <2>1. UNCHANGED <<begun, last_commit_tid, txn, heap, region>> /\ now <= now'
    BY <1>17 DEF Tick, SameStore, Advance, DeclareOver, Types, MiscTypes
  <2> QED
    BY <2>1, StampsStill
<1>18. CASE UNCHANGED vvars
  <2>1. UNCHANGED <<begun, last_commit_tid, txn, heap, region>> /\ now <= now'
    BY <1>18 DEF vvars, vars, Types, MiscTypes
  <2> QED
    BY <2>1, StampsStill
<1> QED
  BY <1>5, <1>15, <1>16, <1>17, <1>18, BeginStamps DEF VersionsNext

LEMMA InitStamps ==
    ASSUME VersionsInit
    PROVE  Stamps
<1>1. Types
  BY InitTypes
<1>2. Undrawn = {}
  BY DEF VersionsInit, Undrawn, Idle
<1>3. Cardinality(Undrawn) = 0 /\ begun = 0
  BY <1>2, FS_EmptySet DEF VersionsInit
<1>4. \A i \in DOMAIN heap : heap[i].version = LoadTid
  BY InitHeap
<1>5. Numbered(LoadTid)
  BY InitHeap DEF Numbered, VersionsInit, Init
<1>i. Idle.pc = "idle" /\ DOMAIN Idle.got = {}
  BY DEF Idle
<1>6. \A c \in Cores : last_commit_tid[c] = MIN_TID /\ txn[c].pc = "idle" /\ DOMAIN txn[c].got = {}
  <2>1. \A c \in Cores : last_commit_tid[c] = MIN_TID /\ txn[c] = Idle
    BY DEF VersionsInit
  <2> QED
    BY <1>i, <2>1
<1> QED
  BY <1>1, <1>3, <1>4, <1>5, <1>6, NumberedZero DEF Stamps

Typed == Types /\ Stamps

LEMMA TypedInvariant == VersionsSpec => []Typed
<1>1. VersionsInit => Typed
  BY InitTypes, InitStamps DEF Typed
<1>2. Typed /\ [VersionsNext]_vvars => Typed'
  BY TypesNext, StampsNext DEF Typed, Keeps
<1> QED
  BY <1>1, <1>2, PTL DEF VersionsSpec

LEMMA QueuedIs ==
    ASSUME Types, NEW c \in Cores
    PROVE  LET s == IF txn[c].pc = "release" THEN Tail(scratch[c]) ELSE scratch[c]
           IN  /\ queue[c] \in Seq(Entries) /\ s \in Seq(Entries) /\ Queued(c) = queue[c] \o s
               /\ \A n \in DOMAIN s : s[n].tuple \in DOMAIN heap
               /\ Queued(c) \in Seq(Entries)
               /\ \A n \in DOMAIN Queued(c) : Queued(c)[n].tuple \in DOMAIN heap
<1> DEFINE s == IF txn[c].pc = "release" THEN Tail(scratch[c]) ELSE scratch[c]
           q == queue[c]
           u == scratch[c]
<1>1. /\ q \in Seq(Entries) /\ u \in Seq(Entries)
      /\ \A n \in DOMAIN q : q[n].tuple \in DOMAIN heap
      /\ \A n \in DOMAIN u : u[n].tuple \in DOMAIN heap
      /\ txn[c].pc = "release" => u # <<>>
  BY DEF Types, GcTypes, Examining
<1>2. s \in Seq(Entries) /\ \A n \in DOMAIN s : s[n].tuple \in DOMAIN heap
  <2>1. CASE txn[c].pc = "release"
    <3> HIDE DEF u
    <3>1. u # <<>>
      BY <1>1, <2>1
    <3>2. Tail(u) \in Seq(Entries) /\ DOMAIN Tail(u) = 1..(Len(u) - 1)
          /\ \A i \in 1..(Len(u) - 1) : Tail(u)[i] = u[i + 1] /\ i + 1 \in DOMAIN u
      BY <1>1, <3>1, TailSeq
    <3>3. s = Tail(u)
      BY <2>1 DEF u
    <3> HIDE DEF s
    <3> QED
      BY <1>1, <3>2, <3>3
  <2>2. CASE txn[c].pc # "release"
    BY <1>1, <2>2
  <2> QED
    BY <2>1, <2>2
<1>3. Queued(c) = q \o s
  BY DEF Queued
<1> HIDE DEF q, s
<1>4. Queued(c) \in Seq(Entries)
  BY <1>1, <1>2, <1>3, ConcatSeq
<1>5. ASSUME NEW n \in DOMAIN (q \o s) PROVE (q \o s)[n].tuple \in DOMAIN heap
  <2>1. \/ n \in DOMAIN q /\ (q \o s)[n] = q[n]
        \/ n - Len(q) \in DOMAIN s /\ (q \o s)[n] = s[n - Len(q)]
    BY <1>1, <1>2, <1>5, ConcatRange
  <2> QED
    BY <1>1, <1>2, <2>1
<1> QED
  BY <1>1, <1>2, <1>3, <1>4, <1>5 DEF q, s

(* Type correctness: addresses stay within what was allocated, through     *)
(* installs, collection and removal, no version is of a tick to come, and  *)
(* so the numbers of commit ids never run into their epochs.               *)
THEOREM TypeCorrect == VersionsSpec => []VersionsTypeOK
<1>1. Typed => VersionsTypeOK
  <2> SUFFICES ASSUME Typed PROVE VersionsTypeOK
    OBVIOUS
  <2>1. Types /\ Stamps
    BY DEF Typed
  <2>2. now \in 1..MaxTick /\ over \in 0..MaxTick
    BY <2>1, Spans DEF Types, MiscTypes
  <2>3. tree \in [Keys -> Addresses \cup {Nil}] /\ freed \subseteq Addresses
    BY <2>1 DEF Types, HeapTypes, GcTypes, Addresses
  <2>4. \A i \in Addresses : heap[i].next \in Addresses \cup {Nil} /\ EpochId(heap[i].version) <= now
    BY <2>1 DEF Types, HeapTypes, Addresses, Stamps, Numbered
  <2>5. \A c \in Cores : /\ \A n \in DOMAIN Queued(c) : Queued(c)[n].tuple \in Addresses
                         /\ txn[c].at \in Addresses \cup {Nil}
    BY <2>1, QueuedIs DEF Types, TxnTypes, Addresses
  <2>6. mcs \in [Keys -> Seq(Cores)]
    BY <2>1 DEF Types, GcTypes
  <2> QED
    BY <2>2, <2>3, <2>4, <2>5, <2>6 DEF VersionsTypeOK
<1> QED
  BY <1>1, TypedInvariant, PTL

(***************************************************************************)
(* Tombstones: the entries of the queues, and what an install queues.      *)
(***************************************************************************)
(* The entries of a core, those it has taken to its scratch area included. *)
Listed(c, e) == \/ \E n \in DOMAIN queue[c] : e = queue[c][n]
                \/ \E n \in DOMAIN scratch[c] : e = scratch[c][n]

(* What an install queues, by the way it takes.                            *)
CommitTick(c) == to_read_only_tick(EpochId(txn[c].t))
InPlaceNew(c, k, delete, e) ==
    \/ Keep(c, k) /\ e.tuple = Len(heap) + 1 /\ e.tick = CommitTick(c) /\ ~e.key
    \/ delete /\ e.tuple = txn[c].refs[k] /\ e.tick = CommitTick(c) /\ e.key
ReplacedNew(c, k, delete, e) ==
    \/ ~heap[txn[c].refs[k]].deleting /\ e.tuple = txn[c].refs[k] /\ e.tick = CommitTick(c) /\ ~e.key
    \/ delete /\ e.tuple = Len(heap) + 1 /\ e.tick = CommitTick(c) /\ e.key

LEMMA ListedTypes ==
    ASSUME Types, NEW c \in Cores, NEW e, Listed(c, e)
    PROVE  e \in Entries /\ e.tuple \in DOMAIN heap /\ e.tick \in Nat /\ e.key \in BOOLEAN
<1>1. e \in Entries /\ e.tuple \in DOMAIN heap
  BY DEF Listed, Types, GcTypes
<1> QED
  BY <1>1 DEF Entries

LEMMA ListedSame ==
    ASSUME UNCHANGED <<queue, scratch>>, NEW c, NEW e, Listed(c, e)'
    PROVE  Listed(c, e)
BY DEF Listed

LEMMA InPlaceListed ==
    ASSUME Types, NEW c \in Cores, NEW k \in Keys, NEW delete \in BOOLEAN, InstallInPlace(c, k, delete),
           NEW d \in Cores, NEW e, Listed(d, e)'
    PROVE  Listed(d, e) \/ (d = c /\ InPlaceNew(c, k, delete, e))
<1> DEFINE r == InPlaceEntries(c, k, delete)
<1>1. txn[c].refs[k] \in DOMAIN heap
  BY InPlaceHeap
<1>2. r \in Seq(Entries) /\ \A n \in DOMAIN r : InPlaceNew(c, k, delete, r[n])
  BY <1>1, InPlaceEntriesAre DEF InPlaceNew, CommitTick
<1>3. Installed(c, k, delete, r)
  BY DEF InstallInPlace, InPlaceEntries, Keep
<1> HIDE DEF r
<1>4. /\ queue'[c] = queue[c] \o r /\ \A x \in Cores \ {c} : queue'[x] = queue[x]
      /\ scratch' = scratch
  BY <1>2, <1>3, InstalledQueue
<1>5. CASE d = c /\ \E n \in DOMAIN queue'[c] : e = queue'[c][n]
  <2>1. PICK n \in DOMAIN queue'[c] : e = queue'[c][n]
    BY <1>5
  <2>2. queue[c] \in Seq(Entries)
    BY DEF Types, GcTypes
  <2>3. \/ n \in DOMAIN queue[c] /\ e = queue[c][n]
        \/ n - Len(queue[c]) \in DOMAIN r /\ e = r[n - Len(queue[c])]
    BY <1>2, <1>4, <2>1, <2>2, ConcatRange
  <2> QED
    BY <1>2, <1>5, <2>3 DEF Listed
<1> QED
  BY <1>4, <1>5 DEF Listed

LEMMA ReplacedListed ==
    ASSUME Types, NEW c \in Cores, NEW k \in Keys, NEW delete \in BOOLEAN, InstallReplacement(c, k, delete),
           NEW d \in Cores, NEW e, Listed(d, e)'
    PROVE  Listed(d, e) \/ (d = c /\ ReplacedNew(c, k, delete, e))
<1> DEFINE r == ReplacedEntries(c, k, delete)
<1>1. txn[c].refs[k] \in DOMAIN heap
  BY ReplacedHeap
<1>2. r \in Seq(Entries) /\ \A n \in DOMAIN r : ReplacedNew(c, k, delete, r[n])
  BY <1>1, ReplacedEntriesAre DEF ReplacedNew, CommitTick
<1>3. Installed(c, k, delete, r)
  BY DEF InstallReplacement, ReplacedEntries
<1> HIDE DEF r
<1>4. /\ queue'[c] = queue[c] \o r /\ \A x \in Cores \ {c} : queue'[x] = queue[x]
      /\ scratch' = scratch
  BY <1>2, <1>3, InstalledQueue
<1>5. CASE d = c /\ \E n \in DOMAIN queue'[c] : e = queue'[c][n]
  <2>1. PICK n \in DOMAIN queue'[c] : e = queue'[c][n]
    BY <1>5
  <2>2. queue[c] \in Seq(Entries)
    BY DEF Types, GcTypes
  <2>3. \/ n \in DOMAIN queue[c] /\ e = queue[c][n]
        \/ n - Len(queue[c]) \in DOMAIN r /\ e = r[n - Len(queue[c])]
    BY <1>2, <1>4, <2>1, <2>2, ConcatRange
  <2> QED
    BY <1>2, <1>5, <2>3 DEF Listed
<1> QED
  BY <1>4, <1>5 DEF Listed

(* Taking entries to the scratch area adds none, nor does dropping one.    *)
LEMMA TakeListed ==
    ASSUME Types, NEW c \in Cores, on_post_rcu_region_completion(c),
           NEW d \in Cores, NEW e, Listed(d, e)'
    PROVE  Listed(d, e)
<1>1. CASE SameGc
  BY <1>1, ListedSame DEF SameGc, gc
<1>2. ASSUME NEW n \in 0..Len(queue[c]),
             scratch' = [scratch EXCEPT ![c] = SubSeq(queue[c], 1, n)],
             queue' = [queue EXCEPT ![c] = SubSeq(queue[c], n + 1, Len(queue[c]))]
      PROVE  Listed(d, e)
  <2>1. queue \in [Cores -> Seq(Entries)] /\ scratch \in [Cores -> Seq(Entries)] /\ queue[c] \in Seq(Entries)
    BY DEF Types, GcTypes
  <2>2. /\ queue'[c] = SubSeq(queue[c], n + 1, Len(queue[c])) /\ scratch'[c] = SubSeq(queue[c], 1, n)
        /\ \A x \in Cores \ {c} : queue'[x] = queue[x] /\ scratch'[x] = scratch[x]
    BY <1>2, <2>1
  <2> DEFINE q == queue[c]
             a == SubSeq(q, 1, n)
             b == SubSeq(q, n + 1, Len(q))
  <2>3. /\ DOMAIN a = 1..n /\ \A i \in 1..n : a[i] = q[i]
        /\ DOMAIN b = 1..(Len(q) - n) /\ \A i \in 1..(Len(q) - n) : b[i] = q[n + i]
        /\ DOMAIN q = 1..Len(q) /\ Len(q) \in Nat /\ n \in 0..Len(q)
    BY <2>1, SplitSeq
  <2> HIDE DEF q, a, b
  <2>4. /\ \A i \in DOMAIN a : i \in DOMAIN q /\ a[i] = q[i]
        /\ \A i \in DOMAIN b : n + i \in DOMAIN q /\ b[i] = q[n + i]
    BY <2>3
  <2>5. CASE d = c
    <3>1. (\E i \in DOMAIN b : e = b[i]) \/ (\E i \in DOMAIN a : e = a[i])
      BY <2>2, <2>5 DEF Listed, q, a, b
    <3>2. \E i \in DOMAIN q : e = q[i]
      BY <2>4, <3>1
    <3> QED
      BY <2>5, <3>2 DEF Listed, q
  <2>6. CASE d # c
    BY <2>2, <2>6 DEF Listed
  <2> QED
    BY <2>5, <2>6
<1> QED
  BY <1>1, <1>2, TakeStep

LEMMA DropListed ==
    ASSUME Types, NEW c \in Cores, scratch[c] # <<>>, scratch' = [scratch EXCEPT ![c] = Tail(@)],
           NEW d \in Cores, NEW e, Listed(d, e)', UNCHANGED queue
    PROVE  Listed(d, e)
<1>1. /\ scratch'[c] = Tail(scratch[c])
      /\ \A x \in Cores \ {c} : scratch'[x] = scratch[x]
  BY ScratchTail
<1>2. scratch[c] \in Seq(Entries)
  BY DEF Types, GcTypes
<1> DEFINE q == scratch[c]
<1>3. DOMAIN Tail(q) = 1..(Len(q) - 1) /\ \A i \in 1..(Len(q) - 1) : Tail(q)[i] = q[i + 1] /\ i + 1 \in DOMAIN q
  BY <1>2, TailSeq
<1>4. \A i \in DOMAIN scratch'[c] : i + 1 \in DOMAIN q /\ scratch'[c][i] = q[i + 1]
  <2> HIDE DEF q
  <2> QED
    BY <1>1, <1>3 DEF q
<1> QED
  BY <1>1, <1>4 DEF Listed

RequeuedEntry(c) == Entry(Tombstone(c), to_read_only_tick(now), FALSE)

LEMMA RequeueListed ==
    ASSUME Types, NEW c \in Cores, Requeue(c), NEW d \in Cores, NEW e, Listed(d, e)'
    PROVE  Listed(d, e) \/ (d = c /\ e = RequeuedEntry(c))
<1>1. /\ queue'[c] = Append(queue[c], RequeuedEntry(c)) /\ RequeuedEntry(c) \in Entries
      /\ \A x \in Cores \ {c} : queue'[x] = queue[x]
  BY RequeueKeeps DEF RequeuedEntry
<1>2. queue[c] \in Seq(Entries)
  BY DEF Types, GcTypes
<1> DEFINE q == queue[c]
           w == RequeuedEntry(c)
<1>3. DOMAIN Append(q, w) = 1..(Len(q) + 1) /\ DOMAIN q = 1..Len(q) /\ Len(q) \in Nat
      /\ (\A i \in 1..Len(q) : Append(q, w)[i] = q[i]) /\ Append(q, w)[Len(q) + 1] = w
  BY <1>1, <1>2, AppendSeq
<1>4. \A i \in DOMAIN queue'[c] : (i \in DOMAIN q /\ queue'[c][i] = q[i]) \/ queue'[c][i] = w
  <2> HIDE DEF q, w
  <2> QED
    BY <1>1, <1>3 DEF q, w
<1>5. scratch' = scratch
  BY DEF Requeue
<1> QED
  BY <1>1, <1>4, <1>5 DEF Listed

(***************************************************************************)
(* Tombstones: what each kind of step leaves of the heap and the queues.   *)
(***************************************************************************)
(* The entries of a core that are yet to be dealt with.                    *)
Pending(c) == IF txn[c].pc = "release" THEN Tail(scratch[c]) ELSE scratch[c]
Taken(c, e) == \E n \in DOMAIN scratch[c] : e = scratch[c][n]
SameHeap == DOMAIN heap' = DOMAIN heap /\ \A i \in DOMAIN heap : SameTuple(i)
SameRetired == retired' = retired \/ \E c \in Cores : retired' = RegionOver(c)

(* Nothing is queued, retired or freed, and the heap changes but its locks.*)
Still ==
    /\ SameHeap /\ SameRetired
    /\ UNCHANGED <<tree, installs, freed, queue>>
    /\ \A c \in Cores : Pending(c)' = Pending(c)
    /\ \A c \in Cores : \A e \in Entries : Taken(c, e)' => Taken(c, e)

LEMMA StillSame ==
    ASSUME Types, NEW c \in Cores, OthersSame(c), txn[c].pc # "release", txn'[c].pc # "release",
           UNCHANGED <<tree, installs, freed, queue, scratch>>, SameRetired,
           UNCHANGED heap \/ \E S : \E b \in BOOLEAN : SetLocks(S, b)
    PROVE  Still
<1>1. SameHeap
  <2>1. CASE UNCHANGED heap
    BY <2>1 DEF SameHeap, SameTuple
  <2>2. ASSUME NEW S, NEW b \in BOOLEAN, SetLocks(S, b)
        PROVE  SameHeap
    <3>1. LocksSet(S, b)
      BY <2>2, SetLocksStep DEF Types, HeapTypes
    <3> QED
      BY <3>1 DEF LocksSet, SameHeap
  <2> QED
    BY <2>1, <2>2
<1>2. \A d \in Cores : Pending(d)' = Pending(d)
  BY DEF Pending, OthersSame
<1>3. \A d \in Cores : \A e \in Entries : Taken(d, e)' => Taken(d, e)
  BY DEF Taken
<1> QED
  BY <1>1, <1>2, <1>3 DEF Still

LEMMA StillListed ==
    ASSUME Types, Types', Still, NEW c \in Cores, NEW e, Listed(c, e)'
    PROVE  Listed(c, e)
<1>1. e \in Entries
  <2>1. queue'[c] \in Seq(Entries) /\ scratch'[c] \in Seq(Entries)
    BY DEF Types, GcTypes
  <2> QED
    BY <2>1 DEF Listed
<1> QED
  BY <1>1 DEF Still, Listed, Taken

Quiet(c) ==
    \/ Begin(c) \/ LockWrites(c) \/ Validate(c) \/ Abort(c) \/ gen_commit_tid(c)
    \/ (\E k \in Keys : Access(c, k) \/ FindHead(c, k))
    \/ TakeSnapshot(c) \/ Walk(c) \/ EndSnapshot(c) \/ EndTxn(c)
    \/ McsAcquire(c) \/ SpinLock(c) \/ StillTombstone(c) \/ McsRelease(c) \/ Collected(c)

(* A step to another place that is not the release of a tombstone's lock.  *)
LEMMA GoStill ==
    ASSUME Types, NEW c \in Cores, NEW p \in Pcs \ {"release"}, Go(c, p), txn[c].pc # "release",
           UNCHANGED <<tree, installs, freed, queue, scratch>>, SameRetired,
           UNCHANGED heap \/ \E S : \E b \in BOOLEAN : SetLocks(S, b)
    PROVE  Still
<1>1. Goes(c, p)
  BY GoStep DEF Types, TxnTypes
<1>2. txn[c] \in TxnStates
  BY DEF Types, TxnTypes
<1>3. txn'[c].pc = p
  BY <1>1, <1>2, NewPc DEF Goes
<1> QED
  BY <1>1, <1>3, StillSame DEF Goes

LEMMA ReleaseStill ==
    ASSUME Types, NEW c \in Cores, McsRelease(c)
    PROVE  Still
<1>1. /\ txn[c].pc = "release" /\ scratch' = [scratch EXCEPT ![c] = Tail(@)]
      /\ UNCHANGED <<tree, installs, freed, queue, retired>>
      /\ \E S : \E b \in BOOLEAN : SetLocks(S, b)
  BY DEF McsRelease
<1>2. scratch[c] # <<>> /\ scratch[c] \in Seq(Entries)
  BY <1>1 DEF Types, GcTypes, Examining
<1>3. scratch'[c] = Tail(scratch[c]) /\ \A x \in Cores \ {c} : scratch'[x] = scratch[x]
  BY <1>1, <1>2, ScratchTail
<1>4. SameHeap
  BY <1>1, SetLocksStep DEF LocksSet, SameHeap, Types, HeapTypes
<1>5. /\ txn'[c] = [txn[c] EXCEPT !.pc = "collect"]
      /\ \A x \in Cores \ {c} : txn'[x] = txn[x] \/ (txn[x].pc = "wait" /\ txn'[x] = [txn[x] EXCEPT !.pc = "locked"])
  <2> DEFINE waiting == Tail(mcs[heap[Tombstone(c)].m_lock])
             d == Head(waiting)
  <2>1. /\ txn'[c] = [txn[c] EXCEPT !.pc = "collect"]
        /\ waiting = <<>> => \A x \in Cores \ {c} : txn'[x] = txn[x]
        /\ waiting # <<>> => /\ txn[d].pc = "wait" /\ txn'[d] = [txn[d] EXCEPT !.pc = "locked"]
                             /\ \A x \in Cores \ {c, d} : txn'[x] = txn[x]
    BY PassesStep DEF Passes
  <2> HIDE DEF waiting, d
  <2> QED
    BY <2>1
<1>6. \A x \in Cores : txn[x] \in TxnStates
  BY DEF Types, TxnTypes
<1>7. {"collect", "locked"} \subseteq Pcs
  BY DEF Pcs, Collecting, Examining
<1>8. txn'[c].pc = "collect" /\ \A x \in Cores \ {c} : txn'[x].pc = "release" <=> txn[x].pc = "release"
  <2>1. txn'[c].pc = "collect"
    BY <1>5, <1>6, <1>7, NewPc
  <2>2. ASSUME NEW x \in Cores \ {c} PROVE txn'[x].pc = "release" <=> txn[x].pc = "release"
    <3>1. CASE txn'[x] = txn[x]
      BY <3>1
    <3>2. CASE txn[x].pc = "wait" /\ txn'[x] = [txn[x] EXCEPT !.pc = "locked"]
      <4>1. txn'[x].pc = "locked"
        BY <1>6, <1>7, <3>2, NewPc
      <4> QED
        BY <3>2, <4>1
    <3> QED
      BY <1>5, <3>1, <3>2
  <2> QED
    BY <2>1, <2>2
<1>9. \A x \in Cores : Pending(x)' = Pending(x)
  BY <1>1, <1>3, <1>8 DEF Pending
<1>10. \A x \in Cores : \A e \in Entries : Taken(x, e)' => Taken(x, e)
  <2> DEFINE q == scratch[c]
  <2>1. DOMAIN Tail(q) = 1..(Len(q) - 1) /\ \A i \in 1..(Len(q) - 1) : Tail(q)[i] = q[i + 1] /\ i + 1 \in DOMAIN q
    BY <1>2, TailSeq
  <2>2. \A i \in DOMAIN scratch'[c] : i + 1 \in DOMAIN q /\ scratch'[c][i] = q[i + 1]
    <3> HIDE DEF q
    <3> QED
      BY <1>3, <2>1 DEF q
  <2>3. ASSUME NEW e \in Entries, Taken(c, e)' PROVE Taken(c, e)
    <3>1. PICK i \in DOMAIN scratch'[c] : e = scratch'[c][i]
      BY <2>3 DEF Taken
    <3> QED
      BY <2>2, <3>1 DEF Taken
  <2>4. ASSUME NEW x \in Cores \ {c} PROVE scratch'[x] = scratch[x]
    BY <1>3
  <2> QED
    BY <2>3, <2>4 DEF Taken
<1> QED
  BY <1>1, <1>4, <1>9, <1>10 DEF Still, SameRetired

LEMMA DrawStep ==
    ASSUME Types, NEW c \in Cores, gen_commit_tid(c)
    PROVE  \E tid \in Nat : txn'[c] = DrawState(c, tid) /\ OthersSame(c)
<1>1. PICK num \in Nums(c) :
          num \in 0..(NumSpan - 1) /\ txn'[c] = DrawState(c, MakeTid(c, num + 1, now)) /\ OthersSame(c)
  BY GenStep
<1>2. c \in Nat /\ num + 1 \in Nat /\ now \in Nat
  BY <1>1, Spans DEF Types, MiscTypes
<1>3. num + 1 + NumSpan * now \in Nat
  BY <1>2, Spans, Product
<1>4. CoreSpan * (num + 1 + NumSpan * now) \in Nat
  BY <1>3, Spans, Product
<1>5. MakeTid(c, num + 1, now) \in Nat
  BY <1>2, <1>4 DEF MakeTid
<1> QED
  BY <1>1, <1>5

LEMMA QuietStill ==
    ASSUME Types, Types', NEW c \in Cores, Quiet(c)
    PROVE  Still
<1>p. {"validate", "end", "gen_tid", "committed", "spin", "wait", "locked", "remove", "idle"} \subseteq Pcs \ {"release"}
  BY DEF Pcs, Collecting, Examining, Writing
<1>1. CASE LockWrites(c) \/ Validate(c) \/ Abort(c) \/ EndSnapshot(c)
  <2>1. \E p \in {"validate", "end", "gen_tid", "committed"} : Go(c, p)
    BY <1>1 DEF LockWrites, Validate, Abort, EndSnapshot
  <2>2. /\ txn[c].pc # "release" /\ UNCHANGED <<tree, installs, freed, queue, scratch, retired>>
        /\ UNCHANGED heap \/ \E S : \E b \in BOOLEAN : SetLocks(S, b)
    BY <1>1 DEF LockWrites, Validate, Abort, EndSnapshot, SameStore, SameGc, gc
  <2> QED
    BY <1>p, <2>1, <2>2, GoStill DEF SameRetired
<1>2. CASE McsAcquire(c) \/ SpinLock(c) \/ StillTombstone(c)
  <2>1. \E p \in {"spin", "wait", "locked", "remove"} : Go(c, p)
    BY <1>2 DEF McsAcquire, SpinLock, StillTombstone
  <2>2. /\ txn[c].pc # "release" /\ UNCHANGED <<tree, installs, freed, queue, scratch, retired>>
        /\ UNCHANGED heap \/ \E S : \E b \in BOOLEAN : SetLocks(S, b)
    BY <1>2 DEF McsAcquire, SpinLock, StillTombstone, SameStore, SameGc, gc
  <2> QED
    BY <1>p, <2>1, <2>2, GoStill DEF SameRetired
<1>3. CASE Collected(c)
  <2>1. /\ Go(c, "idle") /\ txn[c].pc # "release" /\ UNCHANGED <<heap, tree, installs, freed, queue, scratch>>
        /\ SameRetired
    BY <1>3 DEF Collected, SameStore, SameRetired
  <2> QED
    BY <1>p, <2>1, GoStill
<1>4. CASE EndTxn(c)
  <2>1. /\ txn[c].pc # "release" /\ UNCHANGED <<heap, tree, installs, freed, queue, scratch>>
        /\ retired' = RegionOver(c)
    BY <1>4 DEF EndTxn, SameStore
  <2>2. OthersSame(c) /\ txn'[c].pc = "post"
    BY <1>4, EndTxnStep, EndTxnTypes
  <2> QED
    BY <2>1, <2>2, StillSame DEF SameRetired
<1>5. CASE Begin(c) \/ gen_commit_tid(c) \/ TakeSnapshot(c) \/ Walk(c) \/ \E k \in Keys : Access(c, k) \/ FindHead(c, k)
  <2>1. /\ txn[c].pc \in {"idle", "gen_tid", "begin", "walk", "run", "snapshot"}
        /\ UNCHANGED <<heap, tree, installs, freed, queue, scratch, retired>>
    BY <1>5 DEF Begin, gen_commit_tid, TakeSnapshot, Walk, Access, FindHead, SameStore, SameGc, gc
  <2>2. OthersSame(c) /\ txn'[c].pc # "release"
    <3>1. CASE Begin(c)
      <4>1. PICK p \in ProgramSet : txn'[c] = BeginState(p) /\ OthersSame(c)
        BY <3>1, BeginStep
      <4>2. BeginState(p).pc \in {"begin", "run"}
        BY DEF BeginState, Idle
      <4> QED
        BY <4>1, <4>2
    <3>2. CASE gen_commit_tid(c)
      <4>1. PICK tid \in Nat : txn'[c] = DrawState(c, tid) /\ OthersSame(c)
        BY <3>2, DrawStep
      <4> QED
        BY <4>1, GenFields
    <3>3. CASE TakeSnapshot(c)
      BY <3>3, TakeSnapshotStep, SnapFields
    <3>4. CASE Walk(c)
      BY <3>4, WalkMoves DEF Finds, MovesTo
    <3>5. ASSUME NEW k \in Keys, Access(c, k) PROVE OthersSame(c) /\ txn'[c].pc # "release"
      BY <3>5, AccessStep, AccessFields
    <3>6. ASSUME NEW k \in Keys, FindHead(c, k) PROVE OthersSame(c) /\ txn'[c].pc # "release"
      BY <3>6, FindHeadMoves DEF Finds, MovesTo
    <3> QED
      BY <1>5, <3>1, <3>2, <3>3, <3>4, <3>5, <3>6
  <2> QED
    BY <2>1, <2>2, StillSame DEF SameRetired
<1> QED
  BY <1>1, <1>2, <1>3, <1>4, <1>5, ReleaseStill DEF Quiet

LEMMA ClockStill ==
    ASSUME Types, Tick \/ UNCHANGED vvars
    PROVE  Still /\ UNCHANGED <<txn, retired, heap>>
<1>1. UNCHANGED <<heap, tree, installs, freed, queue, scratch, retired, txn>>
  BY DEF Tick, SameStore, SameGc, gc, vvars
<1>2. SameHeap /\ SameRetired
  BY <1>1 DEF SameHeap, SameTuple, SameRetired
<1>3. \A c \in Cores : Pending(c)' = Pending(c)
  BY <1>1 DEF Pending
<1>4. \A c \in Cores : \A e \in Entries : Taken(c, e)' => Taken(c, e)
  BY <1>1 DEF Taken
<1> QED
  BY <1>1, <1>2, <1>3, <1>4 DEF Still

(* The steps, by what they do to the store.                                *)
LEMMA Kinds ==
    ASSUME [VersionsNext]_vvars
    PROVE  \/ \E c \in Cores : \E k \in Keys : \E delete \in Deletes[c] : InstallInPlace(c, k, delete)
           \/ \E c \in Cores : \E k \in Keys : \E delete \in Deletes[c] : InstallReplacement(c, k, delete)
           \/ \E c \in Cores : RemoveTombstone(c)
           \/ \E c \in Cores : Requeue(c)
           \/ \E c \in Cores : FreeVersion(c)
           \/ \E c \in Cores : on_post_rcu_region_completion(c)
           \/ \E c \in Cores : Quiet(c)
           \/ RcuFree
           \/ Tick \/ UNCHANGED vvars
BY DEF VersionsNext, TxnStep, CollectStep, Quiet

(***************************************************************************)
(* Tombstones: a queued tombstone is still the deleted version that queued *)
(* it.                                                                     *)
(***************************************************************************)
(* What an install leaves in the heap: i is the tuple found, l the new one.*)
WroteInPlace(c, i, l, keep, delete) ==
    /\ i \in DOMAIN heap /\ l \notin DOMAIN heap /\ l \in Nat /\ DOMAIN heap \subseteq DOMAIN heap'
    /\ DOMAIN heap' \subseteq DOMAIN heap \cup {l} /\ (l \in DOMAIN heap' <=> keep)
    /\ heap'[i].key = heap[i].key /\ heap'[i].version = txn[c].t /\ heap'[i].deleting = delete
    /\ heap'[i].latest = heap[i].latest /\ heap'[i].next = IF keep THEN l ELSE heap[i].next
    /\ \A j \in DOMAIN heap \ {i} : heap'[j] = heap[j]
    /\ keep => /\ heap'[l].key = heap[i].key /\ heap'[l].version = heap[i].version
               /\ heap'[l].deleting = heap[i].deleting /\ heap'[l].latest = FALSE
               /\ heap'[l].next = heap[i].next
WroteReplacement(c, i, l, delete) ==
    /\ i \in DOMAIN heap /\ l \notin DOMAIN heap /\ l \in Nat /\ DOMAIN heap' = DOMAIN heap \cup {l}
    /\ heap'[i].key = heap[i].key /\ heap'[i].version = heap[i].version
    /\ heap'[i].deleting = heap[i].deleting /\ heap'[i].latest = FALSE /\ heap'[i].next = heap[i].next
    /\ \A j \in DOMAIN heap \ {i} : heap'[j] = heap[j]
    /\ heap'[l].key = heap[i].key /\ heap'[l].version = txn[c].t /\ heap'[l].deleting = delete
    /\ heap'[l].latest = heap[i].latest /\ heap'[l].next = i
Untied(i) ==
    /\ i \in DOMAIN heap /\ DOMAIN heap' = DOMAIN heap
    /\ heap'[i].key = heap[i].key /\ heap'[i].version = heap[i].version
    /\ heap'[i].deleting = heap[i].deleting /\ heap'[i].next = heap[i].next
    /\ heap'[i].latest = FALSE /\ heap'[i].locked = heap[i].locked
    /\ \A j \in DOMAIN heap \ {i} : heap'[j] = heap[j]

LEMMA InPlaceWrote ==
    ASSUME Types, NEW c \in Cores, NEW k \in Keys, NEW delete \in BOOLEAN, InstallInPlace(c, k, delete)
    PROVE  WroteInPlace(c, txn[c].refs[k], Len(heap) + 1, Keep(c, k), delete)
<1> DEFINE i == txn[c].refs[k]
           l == Len(heap) + 1
           keep == Keep(c, k)
<1>1. InPlace(c, k, delete) /\ i \in DOMAIN heap
  BY InPlaceHeap
<1>2. LET e == Overwritten(c, k, delete)
          s == Spilled(c, k)
      IN  /\ e.key = heap[i].key /\ e.version = txn[c].t /\ e.deleting = delete
          /\ e.latest = heap[i].latest /\ e.next = IF keep THEN l ELSE heap[i].next
          /\ s.key = heap[i].key /\ s.version = heap[i].version /\ s.deleting = heap[i].deleting
          /\ s.latest = FALSE /\ s.next = heap[i].next
  BY <1>1, OverwrittenFields
<1> QED
  <2>1. /\ heap'[i] = Overwritten(c, k, delete) /\ l \notin DOMAIN heap /\ l \in Nat
        /\ \A j \in DOMAIN heap \ {i} : heap'[j] = heap[j]
        /\ keep => DOMAIN heap' = DOMAIN heap \cup {l} /\ heap'[l] = Spilled(c, k)
        /\ ~keep => DOMAIN heap' = DOMAIN heap
    BY <1>1 DEF InPlace
  <2> HIDE DEF keep, i, l
  <2> QED
    BY <1>1, <1>2, <2>1 DEF WroteInPlace, keep, i, l

LEMMA ReplacedWrote ==
    ASSUME Types, NEW c \in Cores, NEW k \in Keys, NEW delete \in BOOLEAN, InstallReplacement(c, k, delete)
    PROVE  WroteReplacement(c, txn[c].refs[k], Len(heap) + 1, delete)
<1> DEFINE i == txn[c].refs[k]
           l == Len(heap) + 1
<1>1. Replaced(c, k, delete) /\ i \in DOMAIN heap
  BY ReplacedHeap
<1>2. LET e == Superseded(i)
          r == Replacement(c, k, delete)
      IN  /\ e.key = heap[i].key /\ e.version = heap[i].version /\ e.deleting = heap[i].deleting
          /\ e.latest = FALSE /\ e.next = heap[i].next
          /\ r.key = heap[i].key /\ r.version = txn[c].t /\ r.deleting = delete
          /\ r.latest = heap[i].latest /\ r.next = i
  <2>1. ASSUME NEW e, e = Superseded(i)
        PROVE  /\ e.key = heap[i].key /\ e.version = heap[i].version /\ e.deleting = heap[i].deleting
               /\ e.latest = FALSE /\ e.next = heap[i].next
    <3>1. heap[i] \in Tuples
      BY <1>1, HeapLen DEF Types, HeapTypes
    <3> HIDE DEF i
    <3> QED
      BY <2>1, <3>1 DEF Superseded, Tuples
  <2>2. ASSUME NEW r, r = Replacement(c, k, delete)
        PROVE  /\ r.key = heap[i].key /\ r.version = txn[c].t /\ r.deleting = delete
               /\ r.latest = heap[i].latest /\ r.next = i
    <3>1. heap[i] \in Tuples
      BY <1>1, HeapLen DEF Types, HeapTypes
    <3>2. r = [heap[i] EXCEPT !.version = txn[c].t, !.next = i, !.deleting = delete, !.locked = FALSE]
      BY <2>2 DEF Replacement
    <3> HIDE DEF i
    <3> QED
      BY <3>1, <3>2 DEF Tuples
  <2> QED
    BY <2>1, <2>2
<1>3. /\ heap'[i] = Superseded(i) /\ l \notin DOMAIN heap /\ l \in Nat
      /\ \A j \in DOMAIN heap \ {i} : heap'[j] = heap[j]
      /\ DOMAIN heap' = DOMAIN heap \cup {l} /\ heap'[l] = Replacement(c, k, delete)
  BY <1>1 DEF Replaced
<1> HIDE DEF i, l
<1> QED
  BY <1>1, <1>2, <1>3 DEF WroteReplacement, i, l

LEMMA RemovedUntied ==
    ASSUME Types, NEW c \in Cores, RemoveTombstone(c)
    PROVE  Untied(Tombstone(c))
<1> DEFINE i == Tombstone(c)
<1>1. /\ i \in DOMAIN heap /\ DOMAIN heap' = DOMAIN heap /\ heap'[i] = Removed(i)
      /\ \A j \in DOMAIN heap \ {i} : heap'[j] = heap[j]
  BY RemovedHeap
<1>2. LET e == Removed(i)
      IN  /\ e.key = heap[i].key /\ e.version = heap[i].version /\ e.deleting = heap[i].deleting
          /\ e.locked = heap[i].locked /\ e.latest = FALSE /\ e.next = heap[i].next
  BY <1>1, RemovedFields DEF Types, HeapTypes
<1> QED
  BY <1>1, <1>2 DEF Untied

(***************************************************************************)
(* A tombstone on a queue is one: it is still deleted, by the version that *)
(* queued it.                                                              *)
(***************************************************************************)
RoTick(v) == to_read_only_tick(EpochId(v))
IsTomb(e) == heap[e.tuple].deleting /\ RoTick(heap[e.tuple].version) = e.tick
Tombs == \A c \in Cores : \A e \in Entries : Listed(c, e) /\ e.key => IsTomb(e)

LEMMA TombKept ==
    ASSUME Types, Tombs, NEW d \in Cores, NEW e \in Entries, Listed(d, e), e.key,
           heap[e.tuple].deleting => heap'[e.tuple].deleting = heap[e.tuple].deleting
                                     /\ heap'[e.tuple].version = heap[e.tuple].version
    PROVE  IsTomb(e)'
BY DEF Tombs, IsTomb

LEMMA TombsNext ==
    ASSUME Types, Types', Tombs, [VersionsNext]_vvars
    PROVE  Tombs'
<1> SUFFICES ASSUME NEW d \in Cores, NEW e \in Entries, Listed(d, e)', e.key
             PROVE  IsTomb(e)'
  BY DEF Tombs
<1>1. ASSUME Listed(d, e), SameHeap \/ UNCHANGED heap PROVE IsTomb(e)'
  <2>1. e.tuple \in DOMAIN heap
    BY <1>1, ListedTypes
  <2> QED
    BY <1>1, <2>1, TombKept DEF SameHeap, SameTuple
<1>2. CASE Still
  BY <1>1, <1>2, StillListed DEF Still
<1>3. CASE \E c \in Cores : on_post_rcu_region_completion(c)
  BY <1>1, <1>3, TakeListed DEF on_post_rcu_region_completion, SameStore
<1>4. CASE \E c \in Cores : FreeVersion(c)
  BY <1>1, <1>4, DropListed DEF FreeVersion, SameStore
<1>5. CASE RcuFree
  BY <1>1, <1>5, ListedSame DEF RcuFree, SameStore
<1>6. ASSUME NEW c \in Cores, Requeue(c) PROVE IsTomb(e)'
  <2>1. Tombstone(c) \in Nat /\ to_read_only_tick(now) \in Nat
    <3>1. scratch[c] # <<>>
      BY <1>6 DEF Requeue, Types, GcTypes, Examining
    <3> QED
      BY <3>1, TombstoneTypes, NowTypes, HeapLen DEF Types, HeapTypes
  <2>2. e # RequeuedEntry(c)
    BY <2>1, EntryTypes DEF RequeuedEntry
  <2> QED
    BY <1>1, <1>6, <2>2, RequeueListed DEF Requeue, SameStore
<1>7. ASSUME NEW c \in Cores, RemoveTombstone(c) PROVE IsTomb(e)'
  <2>1. Listed(d, e)
    BY <1>7, ListedSame DEF RemoveTombstone
  <2>2. e.tuple \in DOMAIN heap
    BY <2>1, ListedTypes
  <2>3. Untied(Tombstone(c))
    BY <1>7, RemovedUntied
  <2>4. heap'[e.tuple].deleting = heap[e.tuple].deleting /\ heap'[e.tuple].version = heap[e.tuple].version
    BY <2>2, <2>3 DEF Untied
  <2> QED
    BY <2>1, <2>4, TombKept
<1>8. ASSUME NEW c \in Cores, NEW k \in Keys, NEW delete \in Deletes[c], InstallInPlace(c, k, delete)
      PROVE  IsTomb(e)'
  <2> DEFINE i == txn[c].refs[k]
  <2>0. delete \in BOOLEAN
    BY DeleteBoolean
  <2>1. WroteInPlace(c, i, Len(heap) + 1, Keep(c, k), delete) /\ ~heap[i].deleting
    BY <1>8, <2>0, InPlaceWrote DEF InstallInPlace
  <2> HIDE DEF i
  <2>2. CASE Listed(d, e)
    <3>1. e.tuple \in DOMAIN heap
      BY <2>2, ListedTypes
    <3>2. heap[e.tuple].deleting => heap'[e.tuple] = heap[e.tuple]
      BY <2>1, <3>1 DEF WroteInPlace
    <3> QED
      BY <2>2, <3>2, TombKept
  <2>3. CASE d = c /\ InPlaceNew(c, k, delete, e)
    <3>1. e.tuple = i /\ delete /\ e.tick = CommitTick(c)
      BY <2>3 DEF InPlaceNew, i
    <3>2. heap'[i].deleting /\ heap'[i].version = txn[c].t
      BY <2>1, <3>1 DEF WroteInPlace
    <3> QED
      BY <2>0, <2>3, <3>1, <3>2 DEF IsTomb, RoTick, CommitTick
  <2> QED
    BY <1>8, <2>0, <2>2, <2>3, InPlaceListed
<1>9. ASSUME NEW c \in Cores, NEW k \in Keys, NEW delete \in Deletes[c], InstallReplacement(c, k, delete)
      PROVE  IsTomb(e)'
  <2> DEFINE i == txn[c].refs[k]
             l == Len(heap) + 1
  <2>0. delete \in BOOLEAN
    BY DeleteBoolean
  <2>1. WroteReplacement(c, i, l, delete)
    BY <1>9, <2>0, ReplacedWrote
  <2> HIDE DEF i, l
  <2>2. CASE Listed(d, e)
    <3>1. e.tuple \in DOMAIN heap
      BY <2>2, ListedTypes
    <3>2. heap'[e.tuple].deleting = heap[e.tuple].deleting /\ heap'[e.tuple].version = heap[e.tuple].version
      BY <2>1, <3>1 DEF WroteReplacement
    <3> QED
      BY <2>2, <3>2, TombKept
  <2>3. CASE d = c /\ ReplacedNew(c, k, delete, e)
    <3>1. e.tuple = l /\ delete /\ e.tick = CommitTick(c)
      BY <2>3 DEF ReplacedNew, l
    <3>2. heap'[l].deleting /\ heap'[l].version = txn[c].t
      BY <2>1, <3>1 DEF WroteReplacement
    <3> QED
      BY <2>0, <2>3, <3>1, <3>2 DEF IsTomb, RoTick, CommitTick
  <2> QED
    BY <1>9, <2>0, <2>2, <2>3, ReplacedListed
<1> QED
  BY <1>2, <1>3, <1>4, <1>5, <1>6, <1>7, <1>8, <1>9, Kinds, QuietStill, ClockStill

(***************************************************************************)
(* What a collector at an MCS lock examines, and to whom it releases it.   *)
(***************************************************************************)
LEMMA Examiner ==
    ASSUME Types, Tombs, NEW c \in Cores, txn[c].pc \in Waiting
    PROVE  /\ scratch[c] # <<>> /\ Tombstone(c) \in DOMAIN heap
           /\ heap[Tombstone(c)].deleting /\ Listed(c, Head(scratch[c])) /\ Head(scratch[c]).key
<1>1. scratch[c] # <<>> /\ Head(scratch[c]).key
  BY DEF Types, GcTypes, Waiting, Examining
<1>2. /\ Head(scratch[c]) \in Entries /\ Head(scratch[c]) = scratch[c][1] /\ 1 \in DOMAIN scratch[c]
      /\ Tombstone(c) \in DOMAIN heap
  BY <1>1, TombstoneTypes
<1>3. Listed(c, Head(scratch[c]))
  BY <1>2 DEF Listed
<1>4. IsTomb(Head(scratch[c]))
  BY <1>1, <1>2, <1>3 DEF Tombs
<1> QED
  BY <1>1, <1>2, <1>3, <1>4 DEF IsTomb, Tombstone

(* A release passes the lock to nobody.                                    *)
LEMMA Alone ==
    ASSUME Types, Uncontended, NEW c \in Cores, McsRelease(c)
    PROVE  Tail(mcs[heap[Tombstone(c)].m_lock]) = <<>>
<1> DEFINE m == heap[Tombstone(c)].m_lock
<1>1. m \in Keys /\ mcs[m] # <<>>
  BY PassesStep DEF Passes
<1>2. mcs[m] \in Seq(Cores) /\ Len(mcs[m]) <= 1
  BY <1>1 DEF Uncontended, Types, GcTypes
<1> HIDE DEF m
<1>3. Tail(mcs[m]) = <<>>
  BY <1>1, <1>2
<1> QED
  BY <1>3 DEF m

(***************************************************************************)
(* The spin locks: who holds which tuple, in every phase.                  *)
(***************************************************************************)
Holding == {"validate", "gen_tid", "install", "locked", "remove", "release"}
Sure == {"validate", "gen_tid", "install", "remove"}
Held(c) ==
    IF txn[c].pc \in {"validate", "gen_tid"} THEN Writes(c)
    ELSE IF txn[c].pc = "install" THEN {txn[c].refs[k] : k \in txn[c].todo}
    ELSE IF txn[c].pc \in {"locked", "remove", "release"} THEN {Tombstone(c)}
    ELSE {}
LockedInv ==
    /\ \A c \in Cores : \A i \in Held(c) : heap[i].locked
    /\ \A c, d \in Cores : c # d => Held(c) \cap Held(d) = {}
    /\ \A c \in Cores : txn[c].pc \in Sure => \A i \in Held(c) : heap[i].latest
RefKeys == \A c \in Cores : \A k \in DOMAIN txn[c].refs : heap[txn[c].refs[k]].key = k
Rooted ==
    /\ \A i \in DOMAIN heap : heap[i].latest <=> tree[heap[i].key] = i
    /\ \A k \in Keys : tree[k] # Nil => heap[tree[k]].key = k
Locks == LockedInv /\ RefKeys /\ Rooted

LEMMA HeldIn ==
    ASSUME Types, NEW c \in Cores
    PROVE  Held(c) \subseteq DOMAIN heap
<1>1. CASE txn[c].pc \in {"validate", "gen_tid"}
  BY <1>1, MetTypes DEF Held
<1>2. CASE txn[c].pc = "install"
  <2>1. txn[c].todo \subseteq Keys
    BY TxnFields DEF Types, TxnTypes
  <2>2. \A k \in txn[c].todo : txn[c].refs[k] \in DOMAIN heap
    BY <1>2, <2>1, RefTypes
  <2>3. Held(c) = {txn[c].refs[k] : k \in txn[c].todo}
    BY <1>2 DEF Held
  <2> QED
    BY <2>2, <2>3
<1>3. CASE txn[c].pc \in {"locked", "remove", "release"}
  <2>1. scratch[c] # <<>>
    BY <1>3 DEF Types, GcTypes, Examining
  <2> QED
    BY <1>3, <2>1, TombstoneTypes DEF Held
<1> QED
  BY <1>1, <1>2, <1>3 DEF Held

LEMMA HeldSame ==
    ASSUME NEW c \in Cores, txn'[c] = txn[c], scratch'[c] = scratch[c]
    PROVE  Held(c)' = Held(c)
BY DEF Held, Writes, Tombstone

LEMMA HeldNone ==
    ASSUME NEW c \in Cores, txn[c].pc \notin Holding
    PROVE  Held(c) = {}
BY DEF Held, Holding

LEMMA HeldNoneNext ==
    ASSUME NEW c \in Cores, txn'[c].pc \notin Holding
    PROVE  Held(c)' = {}
BY DEF Held, Holding

LEMMA LocksKept ==
    ASSUME LockedInv, NEW c \in Cores, OthersSame(c), \A d \in Cores \ {c} : scratch'[d] = scratch[d],
           \A i \in Held(c)' : /\ heap'[i].locked /\ (txn'[c].pc \in Sure => heap'[i].latest)
                               /\ \A d \in Cores \ {c} : i \notin Held(d),
           \A d \in Cores \ {c} : \A i \in Held(d) :
               heap'[i].locked = heap[i].locked /\ heap'[i].latest = heap[i].latest
    PROVE  LockedInv'
<1>1. \A d \in Cores \ {c} : Held(d)' = Held(d) /\ txn'[d] = txn[d]
  BY HeldSame DEF OthersSame
<1>2. \A d \in Cores : \A i \in Held(d)' : heap'[i].locked
  BY <1>1 DEF LockedInv
<1>3. \A d \in Cores : txn'[d].pc \in Sure => \A i \in Held(d)' : heap'[i].latest
  BY <1>1 DEF LockedInv
<1>4. \A d, e \in Cores : d # e => Held(d)' \cap Held(e)' = {}
  BY <1>1 DEF LockedInv
<1> QED
  BY <1>2, <1>3, <1>4 DEF LockedInv

(* A step that leaves its core without a lock.                             *)
LEMMA LocksDropped ==
    ASSUME Types, LockedInv, NEW c \in Cores, OthersSame(c), \A d \in Cores \ {c} : scratch'[d] = scratch[d],
           txn'[c].pc \notin Holding,
           \/ UNCHANGED heap
           \/ \E S : \E b \in BOOLEAN : SetLocks(S, b) /\ \A d \in Cores \ {c} : S \cap Held(d) = {}
    PROVE  LockedInv'
<1>1. \A d \in Cores \ {c} : \A i \in Held(d) :
          heap'[i].locked = heap[i].locked /\ heap'[i].latest = heap[i].latest
  <2>1. CASE UNCHANGED heap
    BY <2>1
  <2>2. ASSUME NEW S, NEW b \in BOOLEAN, SetLocks(S, b), \A d \in Cores \ {c} : S \cap Held(d) = {},
               NEW d \in Cores \ {c}, NEW i \in Held(d)
        PROVE  heap'[i].locked = heap[i].locked /\ heap'[i].latest = heap[i].latest
    <3>1. LocksSet(S, b)
      BY <2>2, SetLocksStep DEF Types, HeapTypes
    <3>2. i \in DOMAIN heap /\ i \notin S
      BY <2>2, HeldIn
    <3> QED
      BY <3>1, <3>2 DEF LocksSet, SameTuple
  <2> QED
    BY <2>1, <2>2
<1>2. Held(c)' = {}
  BY HeldNoneNext
<1> QED
  BY <1>1, <1>2, LocksKept

(* A step that takes the locks of S, which were free.                      *)
LEMMA LocksTaken ==
    ASSUME Types, LockedInv, NEW c \in Cores, OthersSame(c), UNCHANGED scratch,
           NEW S, S \subseteq DOMAIN heap, \A i \in S : ~heap[i].locked, SetLocks(S, TRUE),
           Held(c)' = S, txn'[c].pc \in Sure => \A i \in S : heap[i].latest
    PROVE  LockedInv'
<1>1. LocksSet(S, TRUE)
  BY SetLocksStep DEF Types, HeapTypes
<1>2. \A d \in Cores : \A i \in Held(d) : i \in DOMAIN heap /\ i \notin S
  BY HeldIn DEF LockedInv
<1>3. \A d \in Cores \ {c} : \A i \in Held(d) :
          heap'[i].locked = heap[i].locked /\ heap'[i].latest = heap[i].latest
  BY <1>1, <1>2 DEF LocksSet, SameTuple
<1>4. \A i \in S : /\ heap'[i].locked /\ heap'[i].latest = heap[i].latest
                   /\ \A d \in Cores \ {c} : i \notin Held(d)
  BY <1>1, <1>2 DEF LocksSet, SameTuple
<1> QED
  BY <1>3, <1>4, LocksKept

(* A step that keeps its core's locks and the heap.                        *)
LEMMA LocksStay ==
    ASSUME LockedInv, NEW c \in Cores, OthersSame(c), UNCHANGED <<heap, scratch>>,
           Held(c)' = Held(c), txn'[c].pc \in Sure => \A i \in Held(c) : heap[i].latest
    PROVE  LockedInv'
<1>1. \A d \in Cores \ {c} : \A i \in Held(c) : i \notin Held(d)
  BY DEF LockedInv
<1>2. \A i \in Held(c) : heap[i].locked
  BY DEF LockedInv
<1> QED
  BY <1>1, <1>2, LocksKept

(* Another place for the same transaction.                                 *)
MovedTo(c, p) ==
    /\ OthersSame(c) /\ txn'[c].pc = p /\ txn'[c].refs = txn[c].refs /\ txn'[c].prog = txn[c].prog
    /\ txn'[c].todo = txn[c].todo /\ txn'[c].t = txn[c].t /\ txn'[c].at = txn[c].at
    /\ txn'[c].got = txn[c].got /\ txn'[c].key = txn[c].key

LEMMA GoMoves ==
    ASSUME Types, NEW c \in Cores, NEW p \in Pcs, Go(c, p)
    PROVE  MovedTo(c, p)
<1>1. Goes(c, p)
  BY GoStep DEF Types, TxnTypes
<1>2. txn[c] \in TxnStates
  BY DEF Types, TxnTypes
<1> QED
  BY <1>1, <1>2, NewPc DEF Goes, MovedTo

LEMMA PcsIn ==
    {"validate", "end", "gen_tid", "committed", "spin", "wait", "locked", "remove", "idle", "release", "collect"}
       \subseteq Pcs
BY DEF Pcs, Collecting, Examining, Writing

LEMMA LockWritesLocks ==
    ASSUME Types, LockedInv, NEW c \in Cores, LockWrites(c)
    PROVE  LockedInv'
<1>1. UNCHANGED scratch
  BY DEF LockWrites, SameGc, gc
<1>2. CASE /\ \A i \in Writes(c) : heap[i].latest
           /\ SetLocks(Writes(c), TRUE) /\ Go(c, "validate")
  <2>1. MovedTo(c, "validate")
    BY <1>2, GoMoves, PcsIn
  <2>2. Held(c)' = Writes(c)
    BY <2>1 DEF MovedTo, Held, Writes
  <2>3. \A i \in Writes(c) : ~heap[i].locked
    BY DEF LockWrites
  <2>4. Writes(c) \subseteq DOMAIN heap
    <3>1. txn[c].prog.writes \subseteq DOMAIN txn[c].refs
      BY DEF LockWrites
    <3> QED
      BY <3>1 DEF Writes, Types, TxnTypes
  <2> QED
    BY <1>1, <1>2, <2>1, <2>2, <2>3, <2>4, LocksTaken DEF MovedTo
<1>3. CASE UNCHANGED heap /\ Go(c, "end")
  <2>1. MovedTo(c, "end")
    BY <1>3, GoMoves, PcsIn
  <2> QED
    BY <1>1, <1>3, <2>1, LocksDropped DEF MovedTo, Holding
<1> QED
  BY <1>2, <1>3 DEF LockWrites

LEMMA ValidateLocks ==
    ASSUME Types, LockedInv, NEW c \in Cores, Validate(c)
    PROVE  LockedInv'
<1>1. UNCHANGED scratch /\ txn[c].pc = "validate"
  BY DEF Validate, SameGc, gc
<1>2. CASE Go(c, "gen_tid") /\ UNCHANGED heap
  <2>1. MovedTo(c, "gen_tid")
    BY <1>2, GoMoves, PcsIn
  <2>2. Held(c)' = Held(c)
    BY <1>1, <2>1 DEF MovedTo, Held, Writes
  <2>3. \A i \in Held(c) : heap[i].latest
    BY <1>1 DEF LockedInv, Sure
  <2> QED
    BY <1>1, <1>2, <2>1, <2>2, <2>3, LocksStay DEF MovedTo
<1>3. CASE Go(c, "end") /\ SetLocks(Writes(c), FALSE)
  <2>1. MovedTo(c, "end")
    BY <1>3, GoMoves, PcsIn
  <2>2. Held(c) = Writes(c)
    BY <1>1 DEF Held
  <2>3. \A d \in Cores \ {c} : Writes(c) \cap Held(d) = {}
    BY <2>2 DEF LockedInv
  <2> QED
    BY <1>1, <1>3, <2>1, <2>3, LocksDropped DEF MovedTo, Holding
<1> QED
  BY <1>2, <1>3 DEF Validate

LEMMA GenLocks ==
    ASSUME Types, LockedInv, NEW c \in Cores, gen_commit_tid(c)
    PROVE  LockedInv'
<1>1. UNCHANGED <<heap, scratch>> /\ txn[c].pc = "gen_tid"
  BY DEF gen_commit_tid, SameGc, gc
<1>2. PICK tid \in Nat : txn'[c] = DrawState(c, tid) /\ OthersSame(c)
  BY DrawStep
<1>3. txn'[c].pc = "install" /\ txn'[c].todo = txn[c].prog.writes /\ txn'[c].refs = txn[c].refs
  BY <1>2, GenFields
<1>4. Held(c)' = Held(c)
  BY <1>1, <1>3 DEF Held, Writes
<1>5. \A i \in Held(c) : heap[i].latest
  BY <1>1 DEF LockedInv, Sure
<1> QED
  BY <1>1, <1>2, <1>4, <1>5, LocksStay

LEMMA SpinLocks ==
    ASSUME Types, LockedInv, NEW c \in Cores, SpinLock(c)
    PROVE  LockedInv'
<1>1. UNCHANGED scratch /\ txn[c].pc = "spin" /\ ~heap[Tombstone(c)].locked /\ Go(c, "locked")
      /\ SetLocks({Tombstone(c)}, TRUE)
  BY DEF SpinLock, SameGc, gc
<1>2. MovedTo(c, "locked")
  BY <1>1, GoMoves, PcsIn
<1>3. Held(c)' = {Tombstone(c)}
  BY <1>1, <1>2 DEF MovedTo, Held, Tombstone
<1>4. Tombstone(c) \in DOMAIN heap
  BY <1>1, TombstoneTypes DEF Types, GcTypes, Examining
<1> QED
  BY <1>1, <1>2, <1>3, <1>4, LocksTaken DEF MovedTo, Sure

LEMMA ExamineLocks ==
    ASSUME Types, LockedInv, NEW c \in Cores, StillTombstone(c) \/ Requeue(c)
    PROVE  LockedInv'
<1>1. /\ UNCHANGED <<heap, scratch>> /\ txn[c].pc = "locked"
      /\ Go(c, "release") \/ (Go(c, "remove") /\ heap[Tombstone(c)].latest)
  BY DEF StillTombstone, Requeue, SameStore, SameGc, gc
<1>2. Held(c) = {Tombstone(c)}
  BY <1>1 DEF Held
<1>3. CASE Go(c, "release")
  <2>1. MovedTo(c, "release")
    BY <1>3, GoMoves, PcsIn
  <2>2. Held(c)' = Held(c)
    BY <1>1, <1>2, <2>1 DEF MovedTo, Held, Tombstone
  <2> QED
    BY <1>1, <2>1, <2>2, LocksStay DEF MovedTo, Sure
<1>4. CASE Go(c, "remove") /\ heap[Tombstone(c)].latest
  <2>1. MovedTo(c, "remove")
    BY <1>4, GoMoves, PcsIn
  <2>2. Held(c)' = Held(c)
    BY <1>1, <1>2, <2>1 DEF MovedTo, Held, Tombstone
  <2> QED
    BY <1>1, <1>2, <1>4, <2>1, <2>2, LocksStay DEF MovedTo
<1> QED
  BY <1>1, <1>3, <1>4

LEMMA RemoveLocks ==
    ASSUME Types, LockedInv, NEW c \in Cores, RemoveTombstone(c)
    PROVE  LockedInv'
<1>1. UNCHANGED scratch /\ txn[c].pc = "remove" /\ Go(c, "release") /\ Untied(Tombstone(c))
  BY RemovedUntied DEF RemoveTombstone
<1>2. MovedTo(c, "release")
  BY <1>1, GoMoves, PcsIn
<1>3. Held(c) = {Tombstone(c)} /\ Held(c)' = {Tombstone(c)}
  BY <1>1, <1>2 DEF MovedTo, Held, Tombstone
<1>4. heap[Tombstone(c)].locked /\ \A d \in Cores \ {c} : Tombstone(c) \notin Held(d)
  BY <1>3 DEF LockedInv
<1>5. \A d \in Cores \ {c} : \A i \in Held(d) : heap'[i] = heap[i]
  BY <1>1, <1>4, HeldIn DEF Untied
<1> QED
  BY <1>1, <1>2, <1>3, <1>4, <1>5, LocksKept DEF MovedTo, Sure, Untied

LEMMA ReleaseLocks ==
    ASSUME Types, Uncontended, LockedInv, NEW c \in Cores, McsRelease(c)
    PROVE  LockedInv' /\ OthersSame(c)
<1> DEFINE i == Tombstone(c)
<1>1. Passes(c) /\ txn[c].pc = "release" /\ scratch' = [scratch EXCEPT ![c] = Tail(@)]
  BY PassesStep DEF McsRelease
<1>2. Tail(mcs[heap[i].m_lock]) = <<>>
  BY Alone
<1>3. SetLocks({i}, FALSE)
  BY <1>2 DEF McsRelease
<1>4. OthersSame(c) /\ txn'[c] = [txn[c] EXCEPT !.pc = "collect"]
  BY <1>1, <1>2 DEF Passes, OthersSame
<1>5. txn'[c].pc = "collect"
  BY <1>4, NewPc, PcsIn DEF Types, TxnTypes
<1>6. \A d \in Cores \ {c} : scratch'[d] = scratch[d]
  BY <1>1 DEF Types, GcTypes
<1>7. Held(c) = {i}
  BY <1>1 DEF Held
<1>8. \A d \in Cores \ {c} : {i} \cap Held(d) = {}
  BY <1>7 DEF LockedInv
<1> HIDE DEF i
<1> QED
  BY <1>3, <1>4, <1>5, <1>6, <1>8, LocksDropped DEF Holding

(***************************************************************************)
(* Locks: the steps that take none, and the install.                       *)
(***************************************************************************)
(* The steps that neither take nor keep a lock.                            *)
Lockless(c) ==
    \/ Begin(c) \/ Abort(c) \/ TakeSnapshot(c) \/ Walk(c) \/ EndSnapshot(c) \/ EndTxn(c)
    \/ (\E k \in Keys : Access(c, k) \/ FindHead(c, k))
    \/ McsAcquire(c) \/ Collected(c) \/ on_post_rcu_region_completion(c)

LEMMA LocklessMoves ==
    ASSUME Types, Types', NEW c \in Cores, Lockless(c)
    PROVE  /\ OthersSame(c) /\ txn'[c].pc \notin Holding /\ UNCHANGED heap
           /\ \A d \in Cores \ {c} : scratch'[d] = scratch[d]
<1>1. UNCHANGED heap /\ \A d \in Cores \ {c} : scratch'[d] = scratch[d]
  <2>1. CASE on_post_rcu_region_completion(c)
    BY <2>1, TakeStep DEF on_post_rcu_region_completion, SameStore, SameGc, gc, Types, GcTypes
  <2>2. CASE ~on_post_rcu_region_completion(c)
    BY <2>2 DEF Lockless, Begin, Abort, TakeSnapshot, Walk, EndSnapshot, EndTxn, Access, FindHead,
                McsAcquire, Collected, SameStore, SameGc, gc
  <2> QED
    BY <2>1, <2>2
<1>2. CASE Abort(c) \/ EndSnapshot(c) \/ McsAcquire(c) \/ Collected(c) \/ on_post_rcu_region_completion(c)
  <2>1. \E p \in {"end", "committed", "spin", "wait", "idle", "collect"} : Go(c, p)
    BY <1>2 DEF Abort, EndSnapshot, McsAcquire, Collected, on_post_rcu_region_completion
  <2>2. PICK p \in {"end", "committed", "spin", "wait", "idle", "collect"} : Go(c, p)
    BY <2>1
  <2>3. MovedTo(c, p)
    BY <2>2, GoMoves, PcsIn
  <2> QED
    BY <1>1, <2>2, <2>3 DEF MovedTo, Holding
<1>3. CASE Begin(c)
  <2>1. PICK p \in ProgramSet : txn'[c] = BeginState(p) /\ OthersSame(c)
    BY <1>3, BeginStep
  <2>2. BeginState(p).pc \in {"begin", "run"}
    BY DEF BeginState, Idle
  <2> QED
    BY <1>1, <2>1, <2>2 DEF Holding
<1>4. CASE TakeSnapshot(c)
  BY <1>1, <1>4, TakeSnapshotStep, SnapFields DEF Holding
<1>5. CASE Walk(c)
  BY <1>1, <1>5, WalkMoves DEF Finds, MovesTo, Holding
<1>6. ASSUME NEW k \in Keys, Access(c, k)
      PROVE  OthersSame(c) /\ txn'[c].pc \notin Holding
  BY <1>6, AccessStep, AccessFields DEF Holding
<1>7. ASSUME NEW k \in Keys, FindHead(c, k)
      PROVE  OthersSame(c) /\ txn'[c].pc \notin Holding
  BY <1>7, FindHeadMoves DEF Finds, MovesTo, Holding
<1>8. CASE EndTxn(c)
  BY <1>1, <1>8, EndTxnStep, EndTxnTypes DEF Holding
<1> QED
  BY <1>1, <1>2, <1>3, <1>4, <1>5, <1>6, <1>7, <1>8 DEF Lockless

LEMMA LocklessLocks ==
    ASSUME Types, Types', LockedInv, NEW c \in Cores, Lockless(c)
    PROVE  LockedInv'
BY LocklessMoves, LocksDropped

(* An install gives up the lock of the tuple it writes, and keeps the rest.*)
LEMMA InstallHeld ==
    ASSUME Types, LockedInv, RefKeys, NEW c \in Cores, NEW k \in Keys, k \in txn[c].todo, txn[c].pc = "install",
           txn'[c] = InstalledState(c, k), OthersSame(c)
    PROVE  /\ txn[c].refs[k] \in Held(c) /\ heap[txn[c].refs[k]].latest /\ heap[txn[c].refs[k]].key = k
           /\ txn[c].refs[k] \notin Held(c)' /\ Held(c)' \subseteq Held(c)
           /\ \A d \in Cores \ {c} : txn[c].refs[k] \notin Held(d)
           /\ txn'[c].refs = txn[c].refs /\ txn'[c].t = txn[c].t /\ txn'[c].at = txn[c].at
<1> DEFINE x == txn[c]
           z == txn'[c]
<1>1. /\ z.pc = IF x.todo = {k} THEN "committed" ELSE x.pc
      /\ z.todo = x.todo \ {k} /\ z.refs = x.refs /\ z.t = x.t /\ z.at = x.at
  BY InstalledFields
<1>2. Held(c) = {x.refs[j] : j \in x.todo}
  BY DEF Held
<1>3. x.refs[k] \in Held(c)
  BY <1>2
<1>4. x.todo \subseteq DOMAIN x.refs /\ x.todo \subseteq Keys
  <2>1. x.todo \subseteq Keys
    BY TxnFields DEF Types, TxnTypes
  <2>2. \A j \in x.todo : j \in DOMAIN x.refs
    BY <2>1, RefTypes
  <2> QED
    BY <2>1, <2>2
<1>5. \A j \in x.todo : heap[x.refs[j]].key = j
  BY <1>4 DEF RefKeys
<1>6. Held(c)' \subseteq {x.refs[j] : j \in x.todo \ {k}}
  <2>1. CASE x.todo = {k}
    <3>1. Held(c)' = {}
      BY <1>1, <2>1, HeldNoneNext DEF Holding
    <3> QED
      BY <3>1
  <2>2. CASE x.todo # {k}
    <3>1. z.pc = "install"
      BY <1>1, <2>2
    <3>2. Held(c)' = {z.refs[j] : j \in z.todo}
      BY <3>1 DEF Held
    <3> QED
      BY <1>1, <3>2
  <2> QED
    BY <2>1, <2>2
<1>7. heap[x.refs[k]].latest
  BY <1>3 DEF LockedInv, Sure
<1>8. \A d \in Cores \ {c} : x.refs[k] \notin Held(d)
  BY <1>3 DEF LockedInv
<1>0. k \in x.todo
  OBVIOUS
<1> HIDE DEF x, z
<1>9. x.refs[k] \notin Held(c)' /\ Held(c)' \subseteq Held(c)
  <2>1. Held(c)' \subseteq Held(c)
    BY <1>2, <1>6
  <2>2. ASSUME x.refs[k] \in Held(c)' PROVE FALSE
    <3>1. PICK j \in x.todo \ {k} : x.refs[k] = x.refs[j]
      BY <1>6, <2>2
    <3>2. heap[x.refs[j]].key = j /\ heap[x.refs[k]].key = k
      BY <1>0, <1>5
    <3> QED
      BY <3>1, <3>2
  <2> QED
    BY <2>1, <2>2
<1> QED
  BY <1>1, <1>3, <1>5, <1>7, <1>8, <1>9 DEF x, z

LEMMA InstallLocks ==
    ASSUME Types, LockedInv, RefKeys, NEW c \in Cores, NEW k \in Keys, k \in txn[c].todo, txn[c].pc = "install",
           txn'[c] = InstalledState(c, k), OthersSame(c), UNCHANGED scratch,
           \A j \in DOMAIN heap \ {txn[c].refs[k]} : heap'[j] = heap[j]
    PROVE  LockedInv'
<1> DEFINE i == txn[c].refs[k]
<1>1. /\ i \in Held(c) /\ i \notin Held(c)' /\ Held(c)' \subseteq Held(c)
      /\ \A d \in Cores \ {c} : i \notin Held(d)
  BY InstallHeld
<1>2. \A d \in Cores : \A j \in Held(d) : j \in DOMAIN heap
  BY HeldIn
<1>3. \A j \in Held(c)' : /\ heap'[j] = heap[j] /\ heap[j].locked /\ heap[j].latest
                          /\ \A d \in Cores \ {c} : j \notin Held(d)
  <2> HIDE DEF i
  <2>1. \A j \in Held(c) : heap[j].locked /\ heap[j].latest /\ \A d \in Cores \ {c} : j \notin Held(d)
    BY DEF LockedInv, Sure
  <2> QED
    BY <1>1, <1>2, <2>1 DEF i
<1>4. \A d \in Cores \ {c} : \A j \in Held(d) : heap'[j] = heap[j]
  BY <1>1, <1>2
<1> QED
  BY <1>3, <1>4, LocksKept

(***************************************************************************)
(* What a transaction has found is under the key it looked for.            *)
(***************************************************************************)
FoundIn(d) ==
    \A k \in DOMAIN txn'[d].refs :
       \/ k \in DOMAIN txn[d].refs /\ txn'[d].refs[k] = txn[d].refs[k]
       \/ k \in Keys /\ tree[k] # Nil /\ txn'[d].refs[k] = tree[k] /\ txn[d].pc = "run" /\ txn'[d].pc = "run"

LEMMA FoundSame ==
    ASSUME NEW c \in Cores, OthersSame(c), DOMAIN txn'[c].refs = {} \/ txn'[c].refs = txn[c].refs
    PROVE  \A d \in Cores : FoundIn(d)
BY DEF OthersSame, FoundIn

LEMMA GoFinds ==
    ASSUME Types, NEW c \in Cores, NEW p \in Pcs, Go(c, p)
    PROVE  \A d \in Cores : FoundIn(d)
BY GoMoves, FoundSame DEF MovedTo

LEMMA FoundNext ==
    ASSUME Types, Types', [VersionsNext]_vvars
    PROVE  \A d \in Cores : FoundIn(d)
<1>1. ASSUME NEW c \in Cores, \E p \in Pcs : Go(c, p) PROVE \A d \in Cores : FoundIn(d)
  BY <1>1, GoFinds
<1>2. ASSUME NEW c \in Cores, Begin(c) \/ EndTxn(c) PROVE \A d \in Cores : FoundIn(d)
  <2>1. CASE Begin(c)
    <3>1. PICK p \in ProgramSet : txn'[c] = BeginState(p) /\ OthersSame(c)
      BY <2>1, BeginStep
    <3>2. DOMAIN BeginState(p).refs = {}
      BY DEF BeginState, Idle
    <3> QED
      BY <3>1, <3>2, FoundSame
  <2>2. CASE EndTxn(c)
    <3>1. OthersSame(c) /\ txn'[c] = [Idle EXCEPT !.pc = "post"]
      BY <2>2, EndTxnStep
    <3>2. DOMAIN [Idle EXCEPT !.pc = "post"].refs = {}
      BY IdleState DEF Pcs
    <3> QED
      BY <3>1, <3>2, FoundSame
  <2> QED
    BY <1>2, <2>1, <2>2
<1>3. ASSUME NEW c \in Cores, NEW k \in Keys, Access(c, k) PROVE \A d \in Cores : FoundIn(d)
  <2>1. OthersSame(c) /\ txn'[c].refs = With(txn[c].refs, k, tree[k]) /\ txn'[c].pc = "run"
    BY <1>3, AccessStep, AccessFields
  <2>2. txn[c].pc = "run" /\ tree[k] # Nil /\ txn[c].refs \in Partial /\ tree[k] \in Nat
    BY <1>3, TxnFields DEF Access, Types, TxnTypes, HeapTypes
  <2>3. /\ DOMAIN txn'[c].refs = DOMAIN txn[c].refs \cup {k} /\ txn'[c].refs[k] = tree[k]
        /\ \A j \in DOMAIN txn[c].refs \ {k} : txn'[c].refs[j] = txn[c].refs[j]
    <3> DEFINE f == txn[c].refs
               v == tree[k]
    <3>1. f \in Partial /\ v \in Nat
      BY <2>2
    <3> HIDE DEF f, v
    <3>2. /\ DOMAIN With(f, k, v) = DOMAIN f \cup {k} /\ With(f, k, v)[k] = v
          /\ \A j \in DOMAIN f \ {k} : With(f, k, v)[j] = f[j]
      BY <3>1, WithType
    <3> QED
      BY <2>1, <3>2 DEF f, v
  <2>4. FoundIn(c)
    BY <2>1, <2>2, <2>3 DEF FoundIn
  <2> QED
    BY <2>1, <2>4 DEF OthersSame, FoundIn
<1>4. ASSUME NEW c \in Cores, gen_commit_tid(c) PROVE \A d \in Cores : FoundIn(d)
  <2>1. PICK tid \in Nat : txn'[c] = DrawState(c, tid) /\ OthersSame(c)
    BY <1>4, DrawStep
  <2> QED
    BY <2>1, GenFields, FoundSame
<1>5. ASSUME NEW c \in Cores, TakeSnapshot(c) \/ Walk(c) \/ \E k \in Keys : FindHead(c, k)
      PROVE  \A d \in Cores : FoundIn(d)
  <2>1. OthersSame(c) /\ txn'[c].refs = txn[c].refs
    <3>1. CASE TakeSnapshot(c)
      BY <3>1, TakeSnapshotStep, SnapFields
    <3>2. CASE Walk(c)
      BY <3>2, WalkMoves DEF Finds, MovesTo
    <3>3. ASSUME NEW k \in Keys, FindHead(c, k) PROVE OthersSame(c) /\ txn'[c].refs = txn[c].refs
      BY <3>3, FindHeadMoves DEF Finds, MovesTo
    <3> QED
      BY <1>5, <3>1, <3>2, <3>3
  <2> QED
    BY <2>1, FoundSame
<1>6. ASSUME NEW c \in Cores, NEW k \in Keys, NEW delete \in Deletes[c],
             InstallInPlace(c, k, delete) \/ InstallReplacement(c, k, delete)
      PROVE  \A d \in Cores : FoundIn(d)
  <2>1. txn'[c] = InstalledState(c, k) /\ OthersSame(c)
    BY <1>6, InstalledStep DEF InstallInPlace, InstallReplacement
  <2> QED
    BY <2>1, InstalledFields, FoundSame
<1>7. ASSUME NEW c \in Cores, McsRelease(c) PROVE \A d \in Cores : FoundIn(d)
  <2>1. ASSUME NEW d \in Cores PROVE txn'[d].refs = txn[d].refs
    <3>1. txn[d] \in TxnStates
      BY DEF Types, TxnTypes
    <3>2. txn'[d] = txn[d] \/ \E p \in Pcs : txn'[d] = [txn[d] EXCEPT !.pc = p]
      <4>1. Passes(c)
        BY <1>7, PassesStep
      <4>2. "collect" \in Pcs /\ "locked" \in Pcs
        BY DEF Pcs, Collecting, Examining
      <4> QED
        BY <4>1, <4>2 DEF Passes
    <3>3. ASSUME NEW p \in Pcs, txn'[d] = [txn[d] EXCEPT !.pc = p] PROVE txn'[d].refs = txn[d].refs
      BY <3>1, <3>3, NewPc
    <3> QED
      BY <3>2, <3>3
  <2> QED
    BY <2>1 DEF FoundIn
<1>8. ASSUME UNCHANGED txn PROVE \A d \in Cores : FoundIn(d)
  BY <1>8 DEF FoundIn
<1>9. ASSUME NEW c \in Cores, LockWrites(c) \/ Validate(c) \/ Abort(c) \/ EndSnapshot(c) \/ McsAcquire(c) \/ SpinLock(c)
                 \/ Requeue(c) \/ StillTombstone(c) \/ RemoveTombstone(c) \/ Collected(c)
                 \/ on_post_rcu_region_completion(c)
      PROVE  \A d \in Cores : FoundIn(d)
  <2>1. \E p \in Pcs : Go(c, p)
    BY <1>9, PcsIn DEF LockWrites, Validate, Abort, EndSnapshot, McsAcquire, SpinLock, Requeue,
              StillTombstone, RemoveTombstone, Collected, on_post_rcu_region_completion
  <2> QED
    BY <1>1, <2>1
<1>10. ASSUME RcuFree \/ Tick \/ UNCHANGED vvars \/ \E c \in Cores : FreeVersion(c)
       PROVE  \A d \in Cores : FoundIn(d)
  BY <1>8, <1>10 DEF RcuFree, Tick, vvars, FreeVersion
<1> QED
  BY <1>2, <1>3, <1>4, <1>5, <1>6, <1>7, <1>9, <1>10 DEF VersionsNext, TxnStep, CollectStep

LEMMA RefKeysNext ==
    ASSUME Types, Types', Locks, [VersionsNext]_vvars
    PROVE  RefKeys'
<1> SUFFICES ASSUME NEW d \in Cores, NEW k \in DOMAIN txn'[d].refs
             PROVE  heap'[txn'[d].refs[k]].key = k
  BY DEF RefKeys
<1>1. HeapStays
  BY TypesNext DEF Keeps
<1>2. FoundIn(d)
  BY FoundNext
<1>3. CASE k \in DOMAIN txn[d].refs /\ txn'[d].refs[k] = txn[d].refs[k]
  <2>1. txn[d].refs[k] \in DOMAIN heap /\ heap[txn[d].refs[k]].key = k
    BY <1>3 DEF Locks, RefKeys, Types, TxnTypes
  <2> QED
    BY <1>1, <1>3, <2>1 DEF HeapStays
<1>4. CASE k \in Keys /\ tree[k] # Nil /\ txn'[d].refs[k] = tree[k]
  <2>1. tree[k] \in DOMAIN heap /\ heap[tree[k]].key = k
    BY <1>4 DEF Locks, Rooted, Types, HeapTypes
  <2> QED
    BY <1>1, <1>4, <2>1 DEF HeapStays
<1> QED
  BY <1>2, <1>3, <1>4 DEF FoundIn

(***************************************************************************)
(* Locks: the tree holds exactly the latest tuples, and only tombstones    *)
(* are removed from it.                                                    *)
(***************************************************************************)
LEMMA RootedSame ==
    ASSUME Types, Rooted, SameHeap \/ UNCHANGED heap, UNCHANGED tree
    PROVE  Rooted'
<1>1. DOMAIN heap' = DOMAIN heap
      /\ \A i \in DOMAIN heap : heap'[i].key = heap[i].key /\ heap'[i].latest = heap[i].latest
  BY DEF SameHeap, SameTuple
<1>2. \A k \in Keys : tree[k] # Nil => tree[k] \in DOMAIN heap
  BY DEF Types, HeapTypes
<1> QED
  BY <1>1, <1>2 DEF Rooted

LEMMA RootedInPlace ==
    ASSUME Types, Types', Rooted, NEW c \in Cores, NEW k \in Keys, NEW delete \in BOOLEAN, InstallInPlace(c, k, delete)
    PROVE  Rooted'
<1> DEFINE i == txn[c].refs[k]
           l == Len(heap) + 1
<1>1. WroteInPlace(c, i, l, Keep(c, k), delete) /\ UNCHANGED tree
  BY InPlaceWrote DEF InstallInPlace
<1>2. \A j \in Keys : tree[j] \in DOMAIN heap \cup {Nil}
  BY DEF Types, HeapTypes
<1> HIDE DEF i, l
<1>3. \A j \in DOMAIN heap : heap'[j].key = heap[j].key /\ heap'[j].latest = heap[j].latest
  BY <1>1 DEF WroteInPlace
<1>4. ASSUME NEW j \in DOMAIN heap' PROVE heap'[j].latest <=> tree[heap'[j].key] = j
  <2>1. CASE j \in DOMAIN heap
    BY <1>3, <2>1 DEF Rooted
  <2>2. CASE j \notin DOMAIN heap
    <3>1. j = l /\ Keep(c, k) /\ i \in DOMAIN heap
      BY <1>1, <2>2 DEF WroteInPlace
    <3>2. heap'[j].latest = FALSE /\ heap'[j].key = heap[i].key
      BY <1>1, <3>1 DEF WroteInPlace
    <3>3. heap[i].key \in Keys /\ j # Nil
      BY <3>1, HeapLen, TupleFields DEF Types, HeapTypes
    <3> QED
      BY <1>2, <2>2, <3>2, <3>3
  <2> QED
    BY <2>1, <2>2
<1>5. \A j \in Keys : tree[j] # Nil => heap'[tree[j]].key = j
  BY <1>2, <1>3 DEF Rooted
<1> QED
  BY <1>1, <1>4, <1>5 DEF Rooted

LEMMA RootedReplaced ==
    ASSUME Types, Types', Rooted, NEW c \in Cores, NEW k \in Keys, NEW delete \in BOOLEAN,
           InstallReplacement(c, k, delete), heap[txn[c].refs[k]].latest, heap[txn[c].refs[k]].key = k
    PROVE  Rooted'
<1> DEFINE i == txn[c].refs[k]
           l == Len(heap) + 1
<1>1. /\ WroteReplacement(c, i, l, delete) /\ tree'[k] = l /\ \A j \in Keys \ {k} : tree'[j] = tree[j]
      /\ heap[i].latest /\ heap[i].key = k
  BY ReplacedWrote, ReplacedHeap
<1>2. \A j \in Keys : tree[j] \in DOMAIN heap \cup {Nil}
  BY DEF Types, HeapTypes
<1>3. \A j \in DOMAIN heap : heap[j].key \in Keys
  BY HeapLen, TupleFields DEF Types, HeapTypes
<1> HIDE DEF i, l
<1>4. tree[k] = i
  BY <1>1 DEF Rooted, WroteReplacement
<1>5. ASSUME NEW j \in DOMAIN heap' PROVE heap'[j].latest <=> tree'[heap'[j].key] = j
  <2>1. CASE j = l
    BY <1>1, <2>1 DEF WroteReplacement
  <2>2. CASE j = i
    BY <1>1, <2>2 DEF WroteReplacement
  <2>3. CASE j # i /\ j # l
    <3>1. j \in DOMAIN heap /\ heap'[j] = heap[j] /\ heap[j].key \in Keys
      BY <1>1, <1>3, <2>3 DEF WroteReplacement
    <3>2. heap[j].latest <=> tree[heap[j].key] = j
      BY <3>1 DEF Rooted
    <3>3. CASE heap[j].key = k
      BY <1>1, <1>4, <2>3, <3>1, <3>2, <3>3
    <3>4. CASE heap[j].key # k
      BY <1>1, <3>1, <3>2, <3>4
    <3> QED
      BY <3>3, <3>4
  <2> QED
    BY <2>1, <2>2, <2>3
<1>6. ASSUME NEW j \in Keys, tree'[j] # Nil PROVE heap'[tree'[j]].key = j
  <2>1. CASE j = k
    BY <1>1, <2>1 DEF WroteReplacement
  <2>2. CASE j # k
    <3>1. tree'[j] = tree[j] /\ tree[j] \in DOMAIN heap /\ heap[tree[j]].key = j
      BY <1>1, <1>2, <1>6, <2>2 DEF Rooted
    <3>2. tree[j] # i
      BY <1>1, <2>2, <3>1
    <3> QED
      BY <1>1, <3>1, <3>2 DEF WroteReplacement
  <2> QED
    BY <2>1, <2>2
<1> QED
  BY <1>5, <1>6 DEF Rooted

LEMMA RootedRemoved ==
    ASSUME Types, Types', Rooted, NEW c \in Cores, RemoveTombstone(c), heap[Tombstone(c)].latest
    PROVE  Rooted'
<1> DEFINE i == Tombstone(c)
           k == heap[i].key
<1>1. /\ Untied(i) /\ tree'[k] = Nil /\ k \in Keys /\ \A j \in Keys \ {k} : tree'[j] = tree[j]
      /\ heap[i].latest
  BY RemovedUntied, RemovedHeap
<1>2. \A j \in Keys : tree[j] \in DOMAIN heap \cup {Nil}
  BY DEF Types, HeapTypes
<1>3. \A j \in DOMAIN heap : heap[j].key \in Keys /\ j # Nil
  BY HeapLen, TupleFields DEF Types, HeapTypes
<1>4. tree[k] = i /\ heap[i].key = k
  BY <1>1 DEF Rooted, Untied
<1> HIDE DEF i, k
<1>5. \A j \in DOMAIN heap : heap'[j].key = heap[j].key
  BY <1>1 DEF Untied
<1>6. ASSUME NEW j \in DOMAIN heap PROVE heap'[j].latest <=> tree'[heap'[j].key] = j
  <2>1. heap[j].latest <=> tree[heap[j].key] = j
    BY DEF Rooted
  <2>2. CASE j = i
    BY <1>1, <1>3, <1>4, <1>5, <2>2 DEF Untied
  <2>3. CASE j # i /\ heap[j].key = k
    <3>1. heap'[j] = heap[j] /\ tree'[heap'[j].key] = Nil /\ ~heap[j].latest
      BY <1>1, <1>4, <2>1, <2>3 DEF Untied
    <3> QED
      BY <1>3, <3>1
  <2>4. CASE j # i /\ heap[j].key # k
    BY <1>1, <1>3, <2>1, <2>4 DEF Untied
  <2> QED
    BY <2>2, <2>3, <2>4
<1>7. ASSUME NEW j \in Keys, tree'[j] # Nil PROVE heap'[tree'[j]].key = j
  <2>1. j # k
    BY <1>1, <1>7
  <2>2. tree'[j] = tree[j] /\ tree[j] \in DOMAIN heap
    BY <1>1, <1>2, <1>7, <2>1
  <2> QED
    BY <1>5, <1>7, <2>2 DEF Rooted
<1>8. DOMAIN heap' = DOMAIN heap
  BY <1>1 DEF Untied
<1> QED
  BY <1>6, <1>7, <1>8 DEF Rooted

LEMMA InstallPlace ==
    ASSUME Types, NEW c \in Cores, NEW k \in Keys, NEW delete \in BOOLEAN,
           InstallInPlace(c, k, delete) \/ InstallReplacement(c, k, delete)
    PROVE  /\ txn[c].pc = "install" /\ k \in txn[c].todo /\ txn'[c] = InstalledState(c, k) /\ OthersSame(c)
           /\ UNCHANGED scratch /\ \A j \in DOMAIN heap \ {txn[c].refs[k]} : heap'[j] = heap[j]
<1>1. txn[c].pc = "install" /\ k \in txn[c].todo
  BY DEF InstallInPlace, InstallReplacement
<1>2. txn'[c] = InstalledState(c, k) /\ OthersSame(c)
  BY InstalledStep DEF InstallInPlace, InstallReplacement
<1>3. UNCHANGED scratch
  BY DEF InstallInPlace, InstallReplacement, Installed
<1>4. CASE InstallInPlace(c, k, delete)
  BY <1>1, <1>2, <1>3, <1>4, InPlaceWrote DEF WroteInPlace
<1>5. CASE InstallReplacement(c, k, delete)
  BY <1>1, <1>2, <1>3, <1>5, ReplacedWrote DEF WroteReplacement
<1> QED
  BY <1>4, <1>5

LEMMA InstallsLatest ==
    ASSUME Types, Locks, NEW c \in Cores, NEW k \in Keys, NEW delete \in BOOLEAN,
           InstallInPlace(c, k, delete) \/ InstallReplacement(c, k, delete)
    PROVE  heap[txn[c].refs[k]].latest /\ heap[txn[c].refs[k]].key = k /\ tree[k] = txn[c].refs[k]
<1>1. heap[txn[c].refs[k]].latest /\ heap[txn[c].refs[k]].key = k
  BY InstallPlace, InstallHeld DEF Locks
<1>2. txn[c].refs[k] \in DOMAIN heap
  BY InstallPlace, RefTypes
<1> QED
  BY <1>1, <1>2 DEF Locks, Rooted

LEMMA RemovesLatest ==
    ASSUME Types, Locks, NEW c \in Cores, RemoveTombstone(c)
    PROVE  heap[Tombstone(c)].latest /\ tree[heap[Tombstone(c)].key] = Tombstone(c) /\ Tombstone(c) \in DOMAIN heap
<1>1. txn[c].pc = "remove"
  BY DEF RemoveTombstone
<1>2. Tombstone(c) \in Held(c)
  BY <1>1 DEF Held
<1>3. heap[Tombstone(c)].latest
  BY <1>1, <1>2 DEF Locks, LockedInv, Sure
<1>4. Tombstone(c) \in DOMAIN heap
  BY RemovedHeap
<1> QED
  BY <1>3, <1>4 DEF Locks, Rooted

LEMMA RootedNext ==
    ASSUME Types, Types', Locks, [VersionsNext]_vvars
    PROVE  Rooted'
<1>0. Rooted
  BY DEF Locks
<1>1. CASE Still
  BY <1>0, <1>1, RootedSame DEF Still
<1>2. CASE RcuFree \/ \E c \in Cores : on_post_rcu_region_completion(c) \/ FreeVersion(c) \/ Requeue(c)
  <2>1. UNCHANGED <<heap, tree>>
    BY <1>2 DEF RcuFree, on_post_rcu_region_completion, FreeVersion, Requeue, SameStore
  <2> QED
    BY <1>0, <2>1, RootedSame
<1>3. CASE \E c \in Cores : RemoveTombstone(c)
  BY <1>0, <1>3, RootedRemoved, RemovesLatest
<1>4. ASSUME NEW c \in Cores, NEW k \in Keys, NEW delete \in Deletes[c], InstallInPlace(c, k, delete)
      PROVE  Rooted'
  BY <1>0, <1>4, DeleteBoolean, RootedInPlace
<1>5. ASSUME NEW c \in Cores, NEW k \in Keys, NEW delete \in Deletes[c], InstallReplacement(c, k, delete)
      PROVE  Rooted'
  <2>1. delete \in BOOLEAN
    BY DeleteBoolean
  <2> QED
    BY <1>0, <1>5, <2>1, InstallsLatest, RootedReplaced
<1> QED
  BY <1>1, <1>2, <1>3, <1>4, <1>5, Kinds, QuietStill, ClockStill

LEMMA LockedNext ==
    ASSUME Types, Types', Uncontended, Locks, [VersionsNext]_vvars
    PROVE  LockedInv'
<1>0. LockedInv /\ RefKeys
  BY DEF Locks
<1>1. ASSUME NEW c \in Cores, Lockless(c) PROVE LockedInv'
  BY <1>0, <1>1, LocklessLocks
<1>2. ASSUME NEW c \in Cores, LockWrites(c) \/ Validate(c) \/ gen_commit_tid(c) PROVE LockedInv'
  BY <1>0, <1>2, LockWritesLocks, ValidateLocks, GenLocks
<1>3. ASSUME NEW c \in Cores, SpinLock(c) \/ StillTombstone(c) \/ Requeue(c) \/ RemoveTombstone(c) \/ McsRelease(c)
      PROVE  LockedInv'
  BY <1>0, <1>3, SpinLocks, ExamineLocks, RemoveLocks, ReleaseLocks
<1>4. ASSUME NEW c \in Cores, NEW k \in Keys, NEW delete \in Deletes[c],
             InstallInPlace(c, k, delete) \/ InstallReplacement(c, k, delete)
      PROVE  LockedInv'
  <2>1. delete \in BOOLEAN
    BY DeleteBoolean
  <2> QED
    BY <1>0, <1>4, <2>1, InstallPlace, InstallLocks
<1>5. ASSUME NEW c \in Cores, FreeVersion(c) PROVE LockedInv'
  <2>1. txn[c].pc = "collect" /\ UNCHANGED <<heap, txn>> /\ scratch[c] # <<>> /\ scratch' = [scratch EXCEPT ![c] = Tail(@)]
    BY <1>5 DEF FreeVersion, SameStore
  <2>2. OthersSame(c)
    BY <2>1 DEF OthersSame, Types, TxnTypes
  <2>3. \A d \in Cores \ {c} : scratch'[d] = scratch[d]
    BY <2>1, ScratchTail
  <2> QED
    BY <1>0, <2>1, <2>2, <2>3, LocksDropped DEF Holding
<1>6. CASE RcuFree \/ Tick \/ UNCHANGED vvars
  <2>1. UNCHANGED <<heap, txn, scratch>>
    BY <1>6 DEF RcuFree, Tick, vvars, SameStore, SameGc, gc
  <2>2. \A d \in Cores : Held(d)' = Held(d)
    BY <2>1, HeldSame
  <2> QED
    BY <1>0, <2>1, <2>2 DEF LockedInv
<1> QED
  BY <1>1, <1>2, <1>3, <1>4, <1>5, <1>6 DEF VersionsNext, TxnStep, CollectStep, Lockless

LEMMA LocksNext ==
    ASSUME Types, Types', Uncontended, Locks, [VersionsNext]_vvars
    PROVE  Locks'
BY RootedNext, LockedNext, RefKeysNext DEF Locks

LEMMA InitLocks ==
    ASSUME VersionsInit
    PROVE  Tombs /\ Locks /\ Uncontended
<1>1. /\ DOMAIN heap = Keys /\ tree = [k \in Keys |-> k] /\ txn = [c \in Cores |-> Idle]
      /\ queue = [c \in Cores |-> <<>>] /\ scratch = [c \in Cores |-> <<>>]
      /\ \A k \in Keys : heap[k].key = k /\ heap[k].latest /\ k # Nil
  BY InitHeap DEF VersionsInit
<1>2. Tombs
  BY <1>1 DEF Tombs, Listed
<1>3. \A c \in Cores : txn[c].pc = "idle" /\ DOMAIN txn[c].refs = {}
  <2>1. Idle.pc = "idle" /\ Idle.refs = <<>>
    BY DEF Idle
  <2>2. DOMAIN <<>> = {}
    OBVIOUS
  <2> QED
    BY <1>1, <2>1, <2>2
<1>4. \A c \in Cores : Held(c) = {}
  BY <1>3, HeldNone DEF Holding
<1>5. LockedInv
  BY <1>4 DEF LockedInv
<1>6. RefKeys
  BY <1>3 DEF RefKeys
<1>7. Rooted
  BY <1>1 DEF Rooted
<1>8. Uncontended
  <2>1. \A k \in Keys : mcs[k] = <<>>
    BY DEF VersionsInit
  <2>2. Len(<<>>) = 0
    OBVIOUS
  <2> QED
    BY <2>1, <2>2 DEF Uncontended
<1> QED
  BY <1>2, <1>5, <1>6, <1>7, <1>8 DEF Locks

(* The steps of the restricted specification are steps of the whole one.   *)
LEMMA UncontendedNext ==
    ASSUME Uncontended, [VersionsNext /\ Uncontended']_vvars
    PROVE  [VersionsNext]_vvars /\ Uncontended'
BY DEF vvars, gc, Uncontended

(* What is proved so far, without contention for the MCS locks.            *)
Locked == Typed /\ Tombs /\ Uncontended /\ Locks

LEMMA LockedInvariant == UncontendedSpec => []Locked
<1>1. VersionsInit => Locked
  BY InitTypes, InitStamps, InitLocks DEF Locked, Typed
<1>2. Locked /\ [VersionsNext /\ Uncontended']_vvars => Locked'
  <2> SUFFICES ASSUME Locked, [VersionsNext /\ Uncontended']_vvars PROVE Locked'
    OBVIOUS
  <2>1. Types /\ Stamps /\ Tombs /\ Locks /\ [VersionsNext]_vvars /\ Uncontended /\ Uncontended'
    BY UncontendedNext DEF Locked, Typed
  <2>2. Types' /\ Stamps'
    BY <2>1, TypesNext, StampsNext DEF Keeps
  <2> QED
    BY <2>1, <2>2, TombsNext, LocksNext DEF Locked, Typed
<1> QED
  BY <1>1, <1>2, PTL DEF UncontendedSpec

(* Whichever cores delete, and of whatever keys: as long as no collector   *)
(* waits for the MCS lock of another, collectors remove only tombstones    *)
(* from the tree: the tuple that one has found deleted and latest under its*)
(* lock is still both when it removes it.                                  *)
THEOREM OnlyTombstones == UncontendedSpec => RemovesTombstones
<1>1. ASSUME Locked, [VersionsNext /\ Uncontended']_vvars
      PROVE  [\A k \in Keys : tree[k] # Nil /\ tree'[k] = Nil => heap[tree[k]].deleting]_vvars
  <2>0. [VersionsNext]_vvars /\ Types /\ Stamps /\ Tombs /\ Locks
    BY <1>1, UncontendedNext DEF Locked, Typed
  <2>1. Types /\ Types' /\ Tombs /\ Locks
    BY <2>0, TypesNext DEF Keeps
  <2> SUFFICES ASSUME NEW k \in Keys, tree[k] # Nil, tree'[k] = Nil
               PROVE  heap[tree[k]].deleting
    OBVIOUS
  <2>2. CASE UNCHANGED tree
    BY <2>2
  <2>3. ASSUME NEW c \in Cores, RemoveTombstone(c) PROVE heap[tree[k]].deleting
    <3> DEFINE i == Tombstone(c)
    <3>1. tree[heap[i].key] = i /\ heap[i].key = k
      BY <2>1, <2>3, RemovesLatest, RemovedHeap
    <3>2. heap[i].deleting
      BY <2>1, <2>3, Examiner DEF RemoveTombstone, Waiting, Examining
    <3> QED
      BY <3>1, <3>2
  <2>4. ASSUME NEW c \in Cores, NEW j \in Keys, NEW delete \in Deletes[c], InstallReplacement(c, j, delete)
        PROVE  FALSE
    <3>1. tree'[j] = Len(heap) + 1 /\ \A m \in Keys \ {j} : tree'[m] = tree[m]
      BY <2>1, <2>4, DeleteBoolean, ReplacedHeap
    <3>2. Len(heap) + 1 # Nil
      BY <2>1, HeapLen DEF Types, HeapTypes, Nil
    <3> QED
      BY <3>1, <3>2
  <2>5. CASE Still
    BY <2>2, <2>5 DEF Still
  <2>6. CASE RcuFree
    BY <2>2, <2>6 DEF RcuFree, SameStore
  <2>7. ASSUME NEW c \in Cores, on_post_rcu_region_completion(c) \/ FreeVersion(c) \/ Requeue(c)
        PROVE  FALSE
    BY <2>2, <2>7 DEF on_post_rcu_region_completion, FreeVersion, Requeue, SameStore
  <2>8. ASSUME NEW c \in Cores, NEW j \in Keys, NEW delete \in Deletes[c], InstallInPlace(c, j, delete)
        PROVE  FALSE
    BY <2>2, <2>8 DEF InstallInPlace
  <2> QED
    BY <2>0, <2>1, <2>3, <2>4, <2>5, <2>6, <2>7, <2>8, Kinds, QuietStill, ClockStill
<1> QED
  BY <1>1, LockedInvariant, PTL DEF UncontendedSpec, RemovesTombstones

(***************************************************************************)
(* Where each tuple is: as sequences, what a queue holds and whether it    *)
(* holds it once.                                                          *)
(***************************************************************************)
In(q, i) == \E n \in DOMAIN q : q[n].tuple = i
Distinct(q) == \A n, m \in DOMAIN q : q[n].tuple = q[m].tuple => n = m
Apart(q, s) == \A n \in DOMAIN q, m \in DOMAIN s : q[n].tuple # s[m].tuple

LEMMA ConcatPlaces ==
    ASSUME NEW q \in Seq(Entries), NEW r \in Seq(Entries)
    PROVE  /\ \A i : In(q \o r, i) <=> In(q, i) \/ In(r, i)
           /\ Distinct(q) /\ Distinct(r) /\ Apart(q, r) => Distinct(q \o r)
           /\ \A s : Apart(q, s) /\ Apart(r, s) => Apart(q \o r, s)
<1> DEFINE z == q \o r
<1>1. /\ DOMAIN z = 1..(Len(q) + Len(r)) /\ DOMAIN q = 1..Len(q) /\ DOMAIN r = 1..Len(r)
      /\ Len(q) \in Nat /\ Len(r) \in Nat
      /\ \A i \in 1..Len(q) : z[i] = q[i]
      /\ \A i \in 1..Len(r) : z[Len(q) + i] = r[i]
  BY ConcatSeq
<1>2. \A n \in DOMAIN z : \/ n \in DOMAIN q /\ z[n] = q[n]
                          \/ n - Len(q) \in DOMAIN r /\ z[n] = r[n - Len(q)] /\ n = Len(q) + (n - Len(q))
  BY ConcatRange
<1> HIDE DEF z
<1>3. (\A n \in DOMAIN q : n \in DOMAIN z) /\ \A n \in DOMAIN r : Len(q) + n \in DOMAIN z
  BY <1>1
<1>4. ASSUME NEW i PROVE In(z, i) <=> In(q, i) \/ In(r, i)
  <2>1. In(z, i) => In(q, i) \/ In(r, i)
    BY <1>2 DEF In
  <2>2. In(q, i) => In(z, i)
    BY <1>1, <1>3 DEF In
  <2>3. In(r, i) => In(z, i)
    BY <1>1, <1>3 DEF In
  <2> QED
    BY <2>1, <2>2, <2>3
<1>5. ASSUME Distinct(q), Distinct(r), Apart(q, r), NEW n \in DOMAIN z, NEW m \in DOMAIN z, z[n].tuple = z[m].tuple
      PROVE  n = m
  <2>1. CASE n \in DOMAIN q /\ z[n] = q[n] /\ m \in DOMAIN q /\ z[m] = q[m]
    BY <1>5, <2>1 DEF Distinct
  <2>2. CASE n \in DOMAIN q /\ z[n] = q[n] /\ m - Len(q) \in DOMAIN r /\ z[m] = r[m - Len(q)]
    BY <1>5, <2>2 DEF Apart
  <2>3. CASE m \in DOMAIN q /\ z[m] = q[m] /\ n - Len(q) \in DOMAIN r /\ z[n] = r[n - Len(q)]
    BY <1>5, <2>3 DEF Apart
  <2>4. CASE /\ n - Len(q) \in DOMAIN r /\ z[n] = r[n - Len(q)] /\ n = Len(q) + (n - Len(q))
             /\ m - Len(q) \in DOMAIN r /\ z[m] = r[m - Len(q)] /\ m = Len(q) + (m - Len(q))
    <3>1. n - Len(q) = m - Len(q)
      BY <1>5, <2>4 DEF Distinct
    <3> QED
      BY <2>4, <3>1
  <2> QED
    BY <1>2, <2>1, <2>2, <2>3, <2>4
<1>6. ASSUME NEW s, Apart(q, s), Apart(r, s) PROVE Apart(z, s)
  BY <1>2, <1>6 DEF Apart
<1> QED
  BY <1>4, <1>5, <1>6 DEF Distinct, z

LEMMA TailPlaces ==
    ASSUME NEW q \in Seq(Entries), q # <<>>
    PROVE  /\ \A i : In(Tail(q), i) => In(q, i)
           /\ \A i : In(q, i) => i = Head(q).tuple \/ In(Tail(q), i)
           /\ In(q, Head(q).tuple)
           /\ Distinct(q) => Distinct(Tail(q)) /\ ~In(Tail(q), Head(q).tuple)
           /\ \A s : Apart(s, q) => Apart(s, Tail(q))
<1> DEFINE t == Tail(q)
           h == Head(q)
<1>1. /\ DOMAIN t = 1..(Len(q) - 1) /\ \A i \in 1..(Len(q) - 1) : t[i] = q[i + 1] /\ i + 1 \in DOMAIN q
      /\ Len(q) \in Nat \ {0} /\ DOMAIN q = 1..Len(q) /\ 1 \in DOMAIN q /\ h = q[1]
  BY TailSeq
<1> HIDE DEF t, h
<1>2. /\ \A n \in DOMAIN t : n + 1 \in DOMAIN q /\ t[n] = q[n + 1] /\ n + 1 # 1 /\ n \in Nat
      /\ \A n \in DOMAIN q : n = 1 \/ (n - 1 \in DOMAIN t /\ t[n - 1] = q[n])
  BY <1>1
<1>3. ASSUME NEW i PROVE /\ In(t, i) => In(q, i)
                         /\ In(q, i) => i = h.tuple \/ In(t, i)
  BY <1>1, <1>2 DEF In
<1>4. In(q, h.tuple)
  BY <1>1 DEF In
<1>5. ASSUME Distinct(q) PROVE Distinct(t) /\ ~In(t, h.tuple)
  <2>1. \A n, m \in DOMAIN t : t[n].tuple = t[m].tuple => n + 1 = m + 1
    BY <1>2, <1>5 DEF Distinct
  <2>2. Distinct(t)
    BY <1>2, <2>1 DEF Distinct
  <2>3. ASSUME In(t, h.tuple) PROVE FALSE
    <3>1. PICK n \in DOMAIN t : t[n].tuple = h.tuple
      BY <2>3 DEF In
    <3>2. n + 1 \in DOMAIN q /\ t[n] = q[n + 1] /\ n + 1 # 1 /\ 1 \in DOMAIN q
      BY <1>1, <1>2
    <3>3. q[n + 1].tuple = q[1].tuple
      BY <1>1, <3>1, <3>2
    <3> QED
      BY <1>5, <3>2, <3>3 DEF Distinct
  <2> QED
    BY <2>2, <2>3
<1>6. ASSUME NEW s, Apart(s, q) PROVE Apart(s, t)
  BY <1>2, <1>6 DEF Apart
<1> QED
  BY <1>3, <1>4, <1>5, <1>6 DEF t, h

LEMMA SplitPlaces ==
    ASSUME NEW q \in Seq(Entries), NEW n \in 0..Len(q)
    PROVE  LET a == SubSeq(q, 1, n)
               b == SubSeq(q, n + 1, Len(q))
           IN  /\ \A i : In(q, i) <=> In(b, i) \/ In(a, i)
               /\ Distinct(q) => Distinct(a) /\ Distinct(b) /\ Apart(b, a)
<1> DEFINE a == SubSeq(q, 1, n)
           b == SubSeq(q, n + 1, Len(q))
<1>1. /\ DOMAIN a = 1..n /\ \A i \in 1..n : a[i] = q[i]
      /\ DOMAIN b = 1..(Len(q) - n) /\ \A i \in 1..(Len(q) - n) : b[i] = q[n + i]
      /\ DOMAIN q = 1..Len(q) /\ Len(q) \in Nat /\ n \in 0..Len(q)
  BY SplitSeq
<1> HIDE DEF a, b
<1>2. /\ \A i \in DOMAIN a : i \in DOMAIN q /\ a[i] = q[i] /\ i <= n /\ i \in Nat
      /\ \A i \in DOMAIN b : n + i \in DOMAIN q /\ b[i] = q[n + i] /\ n + i > n /\ i \in Nat
      /\ \A i \in DOMAIN q : (i \in DOMAIN a /\ a[i] = q[i]) \/ (i - n \in DOMAIN b /\ b[i - n] = q[i])
  BY <1>1
<1>3. ASSUME NEW i PROVE In(q, i) <=> In(b, i) \/ In(a, i)
  BY <1>2 DEF In
<1>4. ASSUME Distinct(q) PROVE Distinct(a) /\ Distinct(b) /\ Apart(b, a)
  <2>1. Distinct(a)
    BY <1>2, <1>4 DEF Distinct
  <2>2. \A i, j \in DOMAIN b : b[i].tuple = b[j].tuple => n + i = n + j
    BY <1>2, <1>4 DEF Distinct
  <2>3. Distinct(b)
    BY <1>2, <2>2 DEF Distinct
  <2>4. ASSUME NEW i \in DOMAIN b, NEW j \in DOMAIN a, b[i].tuple = a[j].tuple PROVE FALSE
    <3>1. n + i = j
      BY <1>2, <1>4, <2>4 DEF Distinct
    <3> QED
      BY <1>2, <3>1
  <2> QED
    BY <2>1, <2>3, <2>4 DEF Apart
<1> QED
  BY <1>3, <1>4 DEF a, b

(***************************************************************************)
(* Where each tuple is, in a state.                                        *)
(***************************************************************************)
Has(c, i) == In(queue[c], i) \/ In(Pending(c), i)
Due(c, e) == \/ \E n \in DOMAIN queue[c] : e = queue[c][n]
             \/ \E n \in DOMAIN Pending(c) : e = Pending(c)[n]
Retired(i) == \E r \in retired : r.tuple = i
OnQueue(i) == \E c \in Cores : Has(c, i)

Once ==
    /\ \A c \in Cores : Distinct(queue[c]) /\ Distinct(Pending(c)) /\ Apart(queue[c], Pending(c))
    /\ \A c, d \in Cores : \A i : Has(c, i) /\ Has(d, i) => c = d
Placed ==
    /\ \A i : OnQueue(i) => ~Retired(i) /\ i \notin freed
    /\ \A c \in Cores : \A e \in Entries : Due(c, e) /\ ~e.key => ~heap[e.tuple].latest
    /\ \A i \in DOMAIN heap : heap[i].latest \/ OnQueue(i) \/ Retired(i) \/ i \in freed
    /\ \A i \in DOMAIN heap : heap[i].latest => ~Retired(i) /\ i \notin freed
    /\ \A i \in DOMAIN heap : heap[i].latest /\ heap[i].deleting => OnQueue(i)
    /\ \A r, s \in retired : r.tuple = s.tuple => r = s
    /\ \A i : Retired(i) => i \notin freed
Places == Once /\ Placed

LEMMA PendingTypes ==
    ASSUME Types, NEW c \in Cores
    PROVE  /\ queue[c] \in Seq(Entries) /\ Pending(c) \in Seq(Entries) /\ scratch[c] \in Seq(Entries)
           /\ \A i : Has(c, i) => i \in DOMAIN heap
           /\ \A e : Due(c, e) => e \in Entries /\ e.tuple \in DOMAIN heap /\ Has(c, e.tuple) /\ Listed(c, e)
<1>1. /\ queue[c] \in Seq(Entries) /\ scratch[c] \in Seq(Entries)
      /\ \A n \in DOMAIN queue[c] : queue[c][n].tuple \in DOMAIN heap
      /\ \A n \in DOMAIN scratch[c] : scratch[c][n].tuple \in DOMAIN heap
      /\ txn[c].pc = "release" => scratch[c] # <<>>
  BY DEF Types, GcTypes, Examining
<1>2. /\ Pending(c) \in Seq(Entries)
      /\ \A n \in DOMAIN Pending(c) : \E m \in DOMAIN scratch[c] : Pending(c)[n] = scratch[c][m]
  <2>1. CASE txn[c].pc = "release"
    <3> DEFINE q == scratch[c]
    <3>1. q \in Seq(Entries) /\ q # <<>>
      BY <1>1, <2>1
    <3>2. Tail(q) \in Seq(Entries) /\ DOMAIN Tail(q) = 1..(Len(q) - 1)
          /\ \A i \in 1..(Len(q) - 1) : Tail(q)[i] = q[i + 1] /\ i + 1 \in DOMAIN q
      BY <3>1, TailSeq
    <3>3. Pending(c) = Tail(q)
      BY <2>1 DEF Pending
    <3> HIDE DEF q
    <3>4. \A n \in DOMAIN Tail(q) : \E m \in DOMAIN q : Tail(q)[n] = q[m]
      BY <3>2
    <3> QED
      BY <3>2, <3>3, <3>4 DEF q
  <2>2. CASE txn[c].pc # "release"
    BY <1>1, <2>2 DEF Pending
  <2> QED
    BY <2>1, <2>2
<1>3. ASSUME NEW e, Due(c, e) PROVE e.tuple \in DOMAIN heap /\ Has(c, e.tuple) /\ Listed(c, e)
  <2>1. Listed(c, e)
    BY <1>2, <1>3 DEF Due, Listed
  <2>2. Has(c, e.tuple)
    BY <1>3 DEF Due, Has, In
  <2> QED
    BY <2>1, <2>2, ListedTypes
<1>4. ASSUME NEW i, Has(c, i) PROVE i \in DOMAIN heap
  BY <1>1, <1>2, <1>4 DEF Has, In
<1>5. \A e : Due(c, e) => e \in Entries
  BY <1>3, ListedTypes
<1> QED
  BY <1>1, <1>2, <1>3, <1>4, <1>5

LEMMA HasSame ==
    ASSUME NEW c \in Cores, queue'[c] = queue[c], Pending(c)' = Pending(c)
    PROVE  /\ \A i : Has(c, i)' <=> Has(c, i)
           /\ \A e : Due(c, e)' <=> Due(c, e)
BY DEF Has, Due, In

(* Queues that hold the same tuples, once.                                 *)
LEMMA PlacedSame ==
    ASSUME Placed, \A i : OnQueue(i)' <=> OnQueue(i),
           \A c \in Cores : \A e \in Entries : Due(c, e)' /\ ~e.key =>
               Due(c, e) \/ (e.tuple \in DOMAIN heap /\ ~heap[e.tuple].latest),
           SameHeap \/ UNCHANGED heap, \A i : Retired(i)' <=> Retired(i), UNCHANGED freed,
           \A r, s \in retired' : r.tuple = s.tuple => r = s, Types, Types'
    PROVE  Placed'
<1>1. /\ DOMAIN heap' = DOMAIN heap
      /\ \A i \in DOMAIN heap : heap'[i].latest = heap[i].latest /\ heap'[i].deleting = heap[i].deleting
  BY DEF SameHeap, SameTuple
<1>2. ASSUME NEW c \in Cores, NEW e \in Entries, Due(c, e)', ~e.key PROVE ~heap'[e.tuple].latest
  <2>1. Due(c, e) => e.tuple \in DOMAIN heap /\ ~heap[e.tuple].latest
    BY <1>2, PendingTypes DEF Placed
  <2>2. e.tuple \in DOMAIN heap /\ ~heap[e.tuple].latest
    BY <1>2, <2>1
  <2> QED
    BY <1>1, <2>2
<1>3. \A i : OnQueue(i)' => ~Retired(i)' /\ i \notin freed'
  BY DEF Placed
<1>4. \A i \in DOMAIN heap' : heap'[i].latest \/ OnQueue(i)' \/ Retired(i)' \/ i \in freed'
  BY <1>1 DEF Placed
<1>5. \A i \in DOMAIN heap' : heap'[i].latest => ~Retired(i)' /\ i \notin freed'
  BY <1>1 DEF Placed
<1>6. \A i \in DOMAIN heap' : heap'[i].latest /\ heap'[i].deleting => OnQueue(i)'
  BY <1>1 DEF Placed
<1>7. \A i : Retired(i)' => i \notin freed'
  BY DEF Placed
<1> QED
  BY <1>2, <1>3, <1>4, <1>5, <1>6, <1>7 DEF Placed

LEMMA RetiredSame ==
    ASSUME Types, Placed, SameRetired
    PROVE  (\A i : Retired(i)' <=> Retired(i)) /\ \A r, s \in retired' : r.tuple = s.tuple => r = s
<1>1. CASE retired' = retired
  BY <1>1 DEF Retired, Placed
<1>2. ASSUME NEW c \in Cores, retired' = RegionOver(c)
      PROVE  (\A i : Retired(i)' <=> Retired(i)) /\ \A r, s \in retired' : r.tuple = s.tuple => r = s
  <2> DEFINE f(r) == [r EXCEPT !.regions = @ \ {c}]
  <2>1. retired' = {f(r) : r \in retired}
    BY <1>2 DEF RegionOver
  <2>2. \A r \in retired : f(r).tuple = r.tuple
    BY DEF Types, GcTypes
  <2> HIDE DEF f
  <2>3. \A i : Retired(i)' <=> Retired(i)
    BY <2>1, <2>2 DEF Retired
  <2>4. ASSUME NEW r \in retired', NEW s \in retired', r.tuple = s.tuple PROVE r = s
    <3>1. PICK u \in retired : r = f(u)
      BY <2>1
    <3>2. PICK v \in retired : s = f(v)
      BY <2>1
    <3>3. u = v
      BY <2>2, <2>4, <3>1, <3>2 DEF Placed
    <3> QED
      BY <3>1, <3>2, <3>3
  <2> QED
    BY <2>3, <2>4
<1> QED
  BY <1>1, <1>2 DEF SameRetired

LEMMA OnceSame ==
    ASSUME Once, UNCHANGED queue, \A c \in Cores : Pending(c)' = Pending(c)
    PROVE  Once' /\ (\A i : OnQueue(i)' <=> OnQueue(i)) /\ \A c \in Cores : \A e : Due(c, e)' <=> Due(c, e)
<1>1. \A c \in Cores : (\A i : Has(c, i)' <=> Has(c, i)) /\ (\A e : Due(c, e)' <=> Due(c, e))
  BY HasSame
<1>2. Once'
  BY <1>1 DEF Once, Distinct, Apart
<1> QED
  BY <1>1, <1>2 DEF OnQueue

LEMMA StillPlaces ==
    ASSUME Types, Types', Places, Still
    PROVE  Places'
<1>1. Once' /\ (\A i : OnQueue(i)' <=> OnQueue(i)) /\ \A c \in Cores : \A e : Due(c, e)' <=> Due(c, e)
  BY OnceSame DEF Places, Still
<1>2. (\A i : Retired(i)' <=> Retired(i)) /\ \A r, s \in retired' : r.tuple = s.tuple => r = s
  BY RetiredSame DEF Places, Still
<1> QED
  BY <1>1, <1>2, PlacedSame DEF Places, Still

(***************************************************************************)
(* Places: the steps of the collector.                                     *)
(***************************************************************************)
(* A step of one core: what it has on its queues, of the tuples of no other*)
LEMMA OnceKept ==
    ASSUME Types, Once, NEW c \in Cores,
           \A d \in Cores \ {c} : queue'[d] = queue[d] /\ Pending(d)' = Pending(d),
           Distinct(queue'[c]), Distinct(Pending(c)'), Apart(queue'[c], Pending(c)'),
           \A i : Has(c, i)' => Has(c, i) \/ ~OnQueue(i)
    PROVE  Once'
<1>1. \A d \in Cores \ {c} : \A i : Has(d, i)' <=> Has(d, i)
  BY HasSame
<1>2. \A d \in Cores : Distinct(queue'[d]) /\ Distinct(Pending(d)') /\ Apart(queue'[d], Pending(d)')
  BY DEF Once
<1>3. \A d, e \in Cores : \A i : Has(d, i)' /\ Has(e, i)' => d = e
  <2> SUFFICES ASSUME NEW d \in Cores, NEW e \in Cores, NEW i, Has(d, i)', Has(e, i)' PROVE d = e
    OBVIOUS
  <2>1. CASE ~OnQueue(i)
    BY <1>1, <2>1 DEF OnQueue
  <2>2. CASE OnQueue(i)
    <3>1. Has(d, i) /\ Has(e, i)
      BY <1>1, <2>2
    <3> QED
      BY <3>1 DEF Once
  <2> QED
    BY <2>1, <2>2
<1> QED
  BY <1>2, <1>3 DEF Once

LEMMA TakePlaces ==
    ASSUME Types, Types', Places, NEW c \in Cores, on_post_rcu_region_completion(c)
    PROVE  Places'
<1>1. /\ txn[c].pc = "post" /\ UNCHANGED <<heap, retired, freed>> /\ scratch[c] = <<>>
      /\ \E p \in Pcs : p # "release" /\ Go(c, p)
  <2>1. txn[c].pc = "post" /\ UNCHANGED <<heap, retired, freed>>
    BY DEF on_post_rcu_region_completion, SameStore, SameGc, gc
  <2>2. scratch[c] = <<>>
    BY <2>1 DEF Types, GcTypes, Collecting, Examining
  <2>3. \E p \in Pcs : p # "release" /\ Go(c, p)
    BY PcsIn DEF on_post_rcu_region_completion
  <2> QED
    BY <2>1, <2>2, <2>3
<1>2. OthersSame(c) /\ txn'[c].pc # "release"
  <2>1. PICK p \in Pcs : p # "release" /\ Go(c, p)
    BY <1>1
  <2>2. MovedTo(c, p)
    BY <2>1, GoMoves
  <2> QED
    BY <2>1, <2>2 DEF MovedTo
<1>3. (\A i : Retired(i)' <=> Retired(i)) /\ \A r, s \in retired' : r.tuple = s.tuple => r = s
  BY <1>1, RetiredSame DEF Places, SameRetired
<1>4. CASE SameGc
  <2>1. \A d \in Cores : Pending(d)' = Pending(d)
    BY <1>1, <1>2, <1>4 DEF Pending, OthersSame, SameGc, gc
  <2>2. Still
    BY <1>1, <1>4, <2>1 DEF Still, SameGc, gc, SameHeap, SameTuple, SameRetired, on_post_rcu_region_completion, SameStore, Taken
  <2> QED
    BY <2>2, StillPlaces
<1>5. ASSUME NEW n \in 0..Len(queue[c]),
             scratch' = [scratch EXCEPT ![c] = SubSeq(queue[c], 1, n)],
             queue' = [queue EXCEPT ![c] = SubSeq(queue[c], n + 1, Len(queue[c]))]
      PROVE  Places'
  <2>1. queue \in [Cores -> Seq(Entries)] /\ scratch \in [Cores -> Seq(Entries)] /\ queue[c] \in Seq(Entries)
    BY DEF Types, GcTypes
  <2>2. /\ queue'[c] = SubSeq(queue[c], n + 1, Len(queue[c])) /\ scratch'[c] = SubSeq(queue[c], 1, n)
        /\ \A x \in Cores \ {c} : queue'[x] = queue[x] /\ scratch'[x] = scratch[x]
    BY <1>5, <2>1
  <2>3. /\ Pending(c) = <<>> /\ Pending(c)' = SubSeq(queue[c], 1, n)
        /\ \A x \in Cores \ {c} : Pending(x)' = Pending(x)
    BY <1>1, <1>2, <2>2 DEF Pending, OthersSame
  <2> DEFINE q == queue[c]
             a == SubSeq(q, 1, n)
             b == SubSeq(q, n + 1, Len(q))
  <2>4. /\ \A i : In(q, i) <=> In(b, i) \/ In(a, i)
        /\ Distinct(q) => Distinct(a) /\ Distinct(b) /\ Apart(b, a)
    BY <2>1, SplitPlaces
  <2>5. Distinct(q)
    BY DEF Places, Once
  <2>6. ~\E i : In(Pending(c), i)
    BY <2>3 DEF In
  <2>7. queue'[c] = b /\ Pending(c)' = a
    BY <2>2, <2>3
  <2> HIDE DEF a, b
  <2>8. \A i : Has(c, i)' <=> Has(c, i)
    BY <2>4, <2>6, <2>7 DEF Has
  <2>9. Once'
    <3>1. Distinct(queue'[c]) /\ Distinct(Pending(c)') /\ Apart(queue'[c], Pending(c)')
      BY <2>4, <2>5, <2>7
    <3>2. \A d \in Cores \ {c} : queue'[d] = queue[d] /\ Pending(d)' = Pending(d)
      BY <2>2, <2>3
    <3> QED
      BY <2>8, <3>1, <3>2, OnceKept DEF Places
  <2>10. \A i : OnQueue(i)' <=> OnQueue(i)
    BY <2>2, <2>3, <2>8, HasSame DEF OnQueue
  <2>11. \A d \in Cores : \A e \in Entries : Due(d, e)' => Due(d, e)
    <3> SUFFICES ASSUME NEW d \in Cores, NEW e \in Entries, Due(d, e)' PROVE Due(d, e)
      OBVIOUS
    <3>1. CASE d # c
      BY <2>2, <2>3, <3>1, HasSame
    <3>2. CASE d = c
      <4>1. Listed(c, e)'
        BY <3>2, PendingTypes, <1>2, <2>2, <2>3 DEF Due, Listed
      <4>2. Listed(c, e)
        BY <4>1, TakeListed
      <4> QED
        BY <1>1, <3>2, <4>2 DEF Listed, Due
    <3> QED
      BY <3>1, <3>2
  <2> QED
    BY <1>1, <1>3, <2>9, <2>10, <2>11, PlacedSame DEF Places
<1> QED
  BY <1>4, <1>5, TakeStep

(* What leaves the scratch area goes to RCU, or is free, or is queued.     *)
LEMMA DropPlaces ==
    ASSUME Types, Places, NEW c \in Cores, scratch[c] # <<>>, txn[c].pc # "release",
           Pending(c)' = Tail(scratch[c]), \A d \in Cores \ {c} : Pending(d)' = Pending(d), UNCHANGED queue
    PROVE  /\ Once' /\ Has(c, Tombstone(c))
           /\ \A i : OnQueue(i)' <=> OnQueue(i) /\ i # Tombstone(c)
           /\ \A d \in Cores : \A e \in Entries : Due(d, e)' => Due(d, e)
<1> DEFINE q == scratch[c]
           j == Tombstone(c)
<1>1. q \in Seq(Entries) /\ Pending(c) = q /\ j = Head(q).tuple
  BY DEF Types, GcTypes, Pending, Tombstone
<1>2. /\ \A i : In(Tail(q), i) => In(q, i)
      /\ \A i : In(q, i) => i = j \/ In(Tail(q), i)
      /\ In(q, j)
      /\ Distinct(q) => Distinct(Tail(q)) /\ ~In(Tail(q), j)
      /\ \A s : Apart(s, q) => Apart(s, Tail(q))
  BY <1>1, TailPlaces
<1>3. Distinct(q) /\ Apart(queue[c], q) /\ Distinct(queue[c])
  BY <1>1 DEF Places, Once
<1>4. ~In(queue[c], j)
  BY <1>2, <1>3 DEF In, Apart
<1>5. Pending(c)' = Tail(q)
  OBVIOUS
<1> HIDE DEF q, j
<1>6. \A i : Has(c, i)' <=> Has(c, i) /\ i # j
  BY <1>1, <1>2, <1>3, <1>4, <1>5 DEF Has
<1>7. Once'
  <2>1. Distinct(queue'[c]) /\ Distinct(Pending(c)') /\ Apart(queue'[c], Pending(c)')
    BY <1>2, <1>3, <1>5
  <2> QED
    BY <1>6, <2>1, OnceKept DEF Places
<1>8. Has(c, j)
  BY <1>1, <1>2 DEF Has
<1>9. \A d \in Cores \ {c} : \A i : Has(d, i)' <=> Has(d, i) /\ i # j
  <2>1. \A d \in Cores \ {c} : ~Has(d, j)
    BY <1>8 DEF Places, Once
  <2> QED
    BY <2>1, HasSame
<1>10. \A i : OnQueue(i)' <=> OnQueue(i) /\ i # j
  BY <1>6, <1>9 DEF OnQueue
<1>11. \A d \in Cores : \A e \in Entries : Due(d, e)' => Due(d, e)
  <2> SUFFICES ASSUME NEW d \in Cores, NEW e \in Entries, Due(d, e)' PROVE Due(d, e)
    OBVIOUS
  <2>1. CASE d # c
    BY <2>1, HasSame
  <2>2. CASE d = c
    <3>1. DOMAIN Tail(q) = 1..(Len(q) - 1) /\ \A n \in 1..(Len(q) - 1) : Tail(q)[n] = q[n + 1] /\ n + 1 \in DOMAIN q
      BY <1>1, TailSeq DEF q
    <3>2. \A n \in DOMAIN Tail(q) : n + 1 \in DOMAIN q /\ Tail(q)[n] = q[n + 1]
      BY <3>1
    <3>3. (\E n \in DOMAIN queue[c] : e = queue[c][n]) \/ \E n \in DOMAIN Tail(q) : e = Tail(q)[n]
      BY <1>5, <2>2 DEF Due
    <3>4. (\E n \in DOMAIN Tail(q) : e = Tail(q)[n]) => \E n \in DOMAIN q : e = q[n]
      BY <3>2
    <3> QED
      BY <1>1, <2>2, <3>3, <3>4 DEF Due
  <2> QED
    BY <2>1, <2>2
<1> QED
  BY <1>7, <1>8, <1>10, <1>11 DEF j

LEMMA FreePlaces ==
    ASSUME Types, Types', Places, NEW c \in Cores, FreeVersion(c)
    PROVE  Places'
<1> DEFINE j == Tombstone(c)
<1>1. /\ txn[c].pc = "collect" /\ scratch[c] # <<>> /\ ~Head(scratch[c]).key /\ freed' = freed \cup {j}
      /\ scratch' = [scratch EXCEPT ![c] = Tail(@)] /\ UNCHANGED <<heap, queue, retired, txn>>
  BY DEF FreeVersion, Tombstone, SameStore
<1>2. scratch'[c] = Tail(scratch[c]) /\ \A d \in Cores \ {c} : scratch'[d] = scratch[d]
  BY <1>1, ScratchTail
<1>3. Pending(c)' = Tail(scratch[c]) /\ \A d \in Cores \ {c} : Pending(d)' = Pending(d)
  BY <1>1, <1>2 DEF Pending
<1>4. /\ Once' /\ Has(c, j)
      /\ \A i : OnQueue(i)' <=> OnQueue(i) /\ i # j
      /\ \A d \in Cores : \A e \in Entries : Due(d, e)' => Due(d, e)
  BY <1>1, <1>3, DropPlaces
<1>5. ~heap[j].latest /\ ~Retired(j)
  <2>1. Head(scratch[c]) \in Entries /\ Head(scratch[c]) = scratch[c][1] /\ 1 \in DOMAIN scratch[c]
    BY <1>1, TombstoneTypes
  <2>2. Due(c, Head(scratch[c]))
    BY <1>1, <2>1 DEF Due, Pending
  <2> QED
    BY <1>1, <1>4, <2>1, <2>2 DEF Places, Placed, OnQueue, Tombstone
<1>6. \A i : Retired(i)' <=> Retired(i)
  BY <1>1 DEF Retired
<1> HIDE DEF j
<1>7. Placed'
  <2>1. \A i : OnQueue(i)' => ~Retired(i)' /\ i \notin freed'
    BY <1>1, <1>4, <1>6 DEF Places, Placed
  <2>2. \A d \in Cores : \A e \in Entries : Due(d, e)' /\ ~e.key => ~heap'[e.tuple].latest
    BY <1>1, <1>4 DEF Places, Placed
  <2>3. \A i \in DOMAIN heap' : heap'[i].latest \/ OnQueue(i)' \/ Retired(i)' \/ i \in freed'
    BY <1>1, <1>4, <1>6 DEF Places, Placed
  <2>4. \A i \in DOMAIN heap' : heap'[i].latest => ~Retired(i)' /\ i \notin freed'
    BY <1>1, <1>5, <1>6 DEF Places, Placed
  <2>5. \A i \in DOMAIN heap' : heap'[i].latest /\ heap'[i].deleting => OnQueue(i)'
    BY <1>1, <1>4, <1>5 DEF Places, Placed
  <2>6. \A r, s \in retired' : r.tuple = s.tuple => r = s
    BY <1>1 DEF Places, Placed
  <2>7. \A i : Retired(i)' => i \notin freed'
    BY <1>1, <1>5, <1>6 DEF Places, Placed
  <2> QED
    BY <2>1, <2>2, <2>3, <2>4, <2>5, <2>6, <2>7 DEF Placed
<1> QED
  BY <1>4, <1>7 DEF Places

LEMMA RemovePlaces ==
    ASSUME Types, Types', Locks, Places, NEW c \in Cores, RemoveTombstone(c)
    PROVE  Places'
<1> DEFINE j == Tombstone(c)
<1>1. /\ txn[c].pc = "remove" /\ UNCHANGED <<scratch, queue, freed>> /\ Go(c, "release")
      /\ retired' = retired \cup {[tuple |-> j, regions |-> {d \in Cores : region[d] # None}]}
      /\ Untied(j) /\ heap[j].latest
  BY RemovedUntied, RemovesLatest DEF RemoveTombstone
<1>2. MovedTo(c, "release") /\ scratch[c] # <<>>
  BY <1>1, GoMoves, PcsIn DEF Types, GcTypes, Examining
<1>3. Pending(c)' = Tail(scratch[c]) /\ \A d \in Cores \ {c} : Pending(d)' = Pending(d)
  BY <1>1, <1>2 DEF Pending, MovedTo, OthersSame
<1>4. /\ Once' /\ Has(c, j)
      /\ \A i : OnQueue(i)' <=> OnQueue(i) /\ i # j
      /\ \A d \in Cores : \A e \in Entries : Due(d, e)' => Due(d, e)
  BY <1>1, <1>2, <1>3, DropPlaces
<1>5. ~Retired(j) /\ j \notin freed
  BY <1>1, <1>4 DEF Places, Placed, OnQueue
<1> HIDE DEF j
<1>6. \A i : Retired(i)' <=> Retired(i) \/ i = j
  <2> DEFINE w == [tuple |-> j, regions |-> {d \in Cores : region[d] # None}]
  <2>1. w.tuple = j /\ retired' = retired \cup {w}
    BY <1>1
  <2> HIDE DEF w
  <2> QED
    BY <2>1 DEF Retired
<1>7. /\ DOMAIN heap' = DOMAIN heap /\ heap'[j].latest = FALSE
      /\ \A i \in DOMAIN heap \ {j} : heap'[i] = heap[i]
  BY <1>1 DEF Untied
<1>8. Placed'
  <2>1. \A i : OnQueue(i)' => ~Retired(i)' /\ i \notin freed'
    BY <1>1, <1>4, <1>6 DEF Places, Placed
  <2>2. ASSUME NEW d \in Cores, NEW e \in Entries, Due(d, e)', ~e.key PROVE ~heap'[e.tuple].latest
    <3>1. e.tuple \in DOMAIN heap /\ ~heap[e.tuple].latest
      BY <1>4, <2>2, PendingTypes DEF Places, Placed
    <3> QED
      BY <1>7, <3>1
  <2>3. \A i \in DOMAIN heap' : heap'[i].latest \/ OnQueue(i)' \/ Retired(i)' \/ i \in freed'
    BY <1>1, <1>4, <1>6, <1>7 DEF Places, Placed
  <2>4. \A i \in DOMAIN heap' : heap'[i].latest => ~Retired(i)' /\ i \notin freed'
    BY <1>1, <1>6, <1>7 DEF Places, Placed
  <2>5. \A i \in DOMAIN heap' : heap'[i].latest /\ heap'[i].deleting => OnQueue(i)'
    BY <1>4, <1>7 DEF Places, Placed
  <2>6. ASSUME NEW r \in retired', NEW s \in retired', r.tuple = s.tuple PROVE r = s
    <3> DEFINE w == [tuple |-> j, regions |-> {d \in Cores : region[d] # None}]
    <3>1. w.tuple = j
      OBVIOUS
    <3>2. \A u \in retired : u.tuple # j
      BY <1>5 DEF Retired
    <3>3. retired' = retired \cup {w}
      BY <1>1
    <3> HIDE DEF w
    <3> QED
      BY <2>6, <3>1, <3>2, <3>3 DEF Places, Placed
  <2>7. \A i : Retired(i)' => i \notin freed'
    BY <1>1, <1>5, <1>6 DEF Places, Placed
  <2> QED
    BY <2>1, <2>2, <2>3, <2>4, <2>5, <2>6, <2>7 DEF Placed
<1> QED
  BY <1>4, <1>8 DEF Places

LEMMA RcuPlaces ==
    ASSUME Types, Types', Places, RcuFree
    PROVE  Places'
<1>1. PICK r \in retired : retired' = retired \ {r} /\ freed' = freed \cup {r.tuple}
  BY DEF RcuFree
<1>2. UNCHANGED <<heap, queue, scratch, txn>>
  BY DEF RcuFree, SameStore
<1>3. \A c \in Cores : Pending(c)' = Pending(c)
  BY <1>2 DEF Pending
<1>4. Once' /\ (\A i : OnQueue(i)' <=> OnQueue(i)) /\ \A c \in Cores : \A e : Due(c, e)' <=> Due(c, e)
  BY <1>2, <1>3, OnceSame DEF Places
<1>5. \A i : Retired(i)' <=> Retired(i) /\ i # r.tuple
  BY <1>1 DEF Retired, Places, Placed
<1>6. Retired(r.tuple)
  BY DEF Retired
<1>7. Placed'
  <2>1. \A i : OnQueue(i)' => ~Retired(i)' /\ i \notin freed'
    BY <1>1, <1>4, <1>5, <1>6 DEF Places, Placed
  <2>2. \A d \in Cores : \A e \in Entries : Due(d, e)' /\ ~e.key => ~heap'[e.tuple].latest
    BY <1>2, <1>4 DEF Places, Placed
  <2>3. \A i \in DOMAIN heap' : heap'[i].latest \/ OnQueue(i)' \/ Retired(i)' \/ i \in freed'
    BY <1>1, <1>2, <1>4, <1>5 DEF Places, Placed
  <2>4. \A i \in DOMAIN heap' : heap'[i].latest => ~Retired(i)' /\ i \notin freed'
    BY <1>1, <1>2, <1>5, <1>6 DEF Places, Placed
  <2>5. \A i \in DOMAIN heap' : heap'[i].latest /\ heap'[i].deleting => OnQueue(i)'
    BY <1>2, <1>4 DEF Places, Placed
  <2>6. \A u, v \in retired' : u.tuple = v.tuple => u = v
    BY <1>1 DEF Places, Placed
  <2>7. \A i : Retired(i)' => i \notin freed'
    BY <1>1, <1>5 DEF Places, Placed
  <2> QED
    BY <2>1, <2>2, <2>3, <2>4, <2>5, <2>6, <2>7 DEF Placed
<1> QED
  BY <1>4, <1>7 DEF Places

(***************************************************************************)
(* Places: the requeue of a tombstone and the installs.                    *)
(***************************************************************************)
LEMMA OnePlace ==
    ASSUME NEW e \in Entries
    PROVE  /\ <<e>> \in Seq(Entries) /\ Distinct(<<e>>) /\ \A i : In(<<e>>, i) <=> i = e.tuple
           /\ \A s : (\A n \in DOMAIN s : s[n].tuple # e.tuple) => Apart(<<e>>, s) /\ Apart(s, <<e>>)
<1> DEFINE r == <<e>>
<1>1. r \in Seq(Entries) /\ r[1] = e /\ 1 \in DOMAIN r /\ \A n \in DOMAIN r : n = 1
  BY OneLong
<1> HIDE DEF r
<1>2. Distinct(r) /\ \A i : In(r, i) <=> i = e.tuple
  BY <1>1 DEF Distinct, In
<1>3. ASSUME NEW s, \A n \in DOMAIN s : s[n].tuple # e.tuple PROVE Apart(r, s) /\ Apart(s, r)
  BY <1>1, <1>3 DEF Apart
<1> QED
  BY <1>1, <1>2, <1>3 DEF r

LEMMA AppendIs ==
    ASSUME NEW q \in Seq(Entries), NEW e \in Entries
    PROVE  Append(q, e) = q \o <<e>>
OBVIOUS

(* A tombstone that was replaced is queued again: at another place.        *)
LEMMA RequeuePlaces ==
    ASSUME Types, Types', Places, NEW c \in Cores, Requeue(c)
    PROVE  Places'
<1> DEFINE j == Tombstone(c)
           q == scratch[c]
           w == RequeuedEntry(c)
<1>1. /\ txn[c].pc = "locked" /\ UNCHANGED <<heap, scratch, retired, freed>> /\ Go(c, "release") /\ ~heap[j].latest
  BY DEF Requeue, SameStore
<1>2. MovedTo(c, "release") /\ q # <<>>
  BY <1>1, GoMoves, PcsIn DEF Types, GcTypes, Examining
<1>3. /\ Pending(c) = q /\ Pending(c)' = Tail(q) /\ \A d \in Cores \ {c} : Pending(d)' = Pending(d)
  BY <1>1, <1>2 DEF Pending, MovedTo, OthersSame
<1>4. /\ queue'[c] = Append(queue[c], w) /\ w \in Entries /\ \A d \in Cores \ {c} : queue'[d] = queue[d]
      /\ queue[c] \in Seq(Entries) /\ q \in Seq(Entries)
  BY RequeueKeeps DEF RequeuedEntry, Types, GcTypes
<1>5. j \in DOMAIN heap /\ w.tuple = j
  <2>1. j \in DOMAIN heap
    BY <1>2, TombstoneTypes
  <2> QED
    <3>1. j \in Nat
      BY <2>1, HeapLen DEF Types, HeapTypes
    <3>2. to_read_only_tick(now) \in Nat
      BY NowTypes
    <3>3. ASSUME NEW tick \in Nat PROVE Entry(j, tick, FALSE).tuple = j
      BY <3>1 DEF Entry
    <3> QED
      BY <2>1, <3>2, <3>3 DEF RequeuedEntry
<1>6. j = Head(q).tuple
  BY DEF Tombstone
<1> HIDE DEF j, q, w
<1>7. /\ \A i : In(Tail(q), i) => In(q, i)
      /\ \A i : In(q, i) => i = j \/ In(Tail(q), i)
      /\ In(q, j)
      /\ Distinct(q) => Distinct(Tail(q)) /\ ~In(Tail(q), j)
      /\ \A s : Apart(s, q) => Apart(s, Tail(q))
  BY <1>2, <1>4, <1>6, TailPlaces
<1>8. Distinct(q) /\ Apart(queue[c], q) /\ Distinct(queue[c])
  BY <1>3 DEF Places, Once
<1>9. ~In(queue[c], j)
  BY <1>7, <1>8 DEF In, Apart
<1>10. /\ <<w>> \in Seq(Entries) /\ Distinct(<<w>>) /\ (\A i : In(<<w>>, i) <=> i = j)
       /\ Apart(queue[c], <<w>>) /\ Apart(<<w>>, Tail(q))
  BY <1>4, <1>5, <1>7, <1>8, <1>9, OnePlace DEF In
<1>11. queue'[c] = queue[c] \o <<w>>
  BY <1>4, AppendIs
<1>12. /\ \A i : In(queue'[c], i) <=> In(queue[c], i) \/ i = j
       /\ Distinct(queue'[c])
       /\ Apart(queue'[c], Tail(q))
  <2> DEFINE r == <<w>>
  <2>1. /\ r \in Seq(Entries) /\ Distinct(r) /\ (\A i : In(r, i) <=> i = j)
        /\ Apart(queue[c], r) /\ Apart(r, Tail(q)) /\ queue'[c] = queue[c] \o r /\ Apart(queue[c], Tail(q))
    BY <1>7, <1>8, <1>10, <1>11
  <2> HIDE DEF r
  <2> QED
    BY <1>4, <1>8, <2>1, ConcatPlaces
<1>13. \A i : Has(c, i)' <=> Has(c, i)
  BY <1>3, <1>7, <1>12 DEF Has
<1>14. Once'
  <2>1. Distinct(queue'[c]) /\ Distinct(Pending(c)') /\ Apart(queue'[c], Pending(c)')
    BY <1>3, <1>7, <1>8, <1>12
  <2> QED
    BY <1>3, <1>4, <1>13, <2>1, OnceKept DEF Places
<1>15. \A i : OnQueue(i)' <=> OnQueue(i)
  BY <1>3, <1>4, <1>13, HasSame DEF OnQueue
<1>16. ASSUME NEW d \in Cores, NEW e \in Entries, Due(d, e)', ~e.key
       PROVE  Due(d, e) \/ (e.tuple \in DOMAIN heap /\ ~heap[e.tuple].latest)
  <2>1. CASE d # c
    BY <1>3, <1>4, <1>16, <2>1, HasSame
  <2>2. CASE d = c
    <3>1. Listed(c, e)'
      <4>1. (\E n \in DOMAIN queue'[c] : e = queue'[c][n]) \/ \E n \in DOMAIN Tail(q) : e = Tail(q)[n]
        BY <1>3, <1>16, <2>2 DEF Due
      <4>2. DOMAIN Tail(q) = 1..(Len(q) - 1) /\ \A n \in 1..(Len(q) - 1) : Tail(q)[n] = q[n + 1] /\ n + 1 \in DOMAIN q
        BY <1>2, <1>4, TailSeq
      <4>3. (\E n \in DOMAIN Tail(q) : e = Tail(q)[n]) => \E n \in DOMAIN q : e = q[n]
        BY <4>2
      <4>4. scratch'[c] = q
        BY <1>1 DEF q
      <4> QED
        BY <4>1, <4>3, <4>4 DEF Listed
    <3>2. Listed(c, e) \/ e = w
      BY <3>1, RequeueListed DEF w
    <3>3. Listed(c, e) => Due(c, e)
      BY <1>3 DEF Listed, Due, q
    <3> QED
      BY <1>1, <1>5, <2>2, <3>2, <3>3 DEF j
  <2> QED
    BY <2>1, <2>2
<1>17. (\A i : Retired(i)' <=> Retired(i)) /\ \A r, s \in retired' : r.tuple = s.tuple => r = s
  BY <1>1, RetiredSame DEF Places, SameRetired
<1> QED
  BY <1>1, <1>14, <1>15, <1>16, <1>17, PlacedSame DEF Places

(* What an install queues is on no queue before.                           *)
LEMMA InstalledPlaces ==
    ASSUME Types, Types', Once, NEW c \in Cores, NEW r \in Seq(Entries), queue'[c] = queue[c] \o r,
           \A d \in Cores \ {c} : queue'[d] = queue[d], UNCHANGED scratch, OthersSame(c),
           txn[c].pc # "release", txn'[c].pc # "release", Distinct(r), \A i : In(r, i) => ~OnQueue(i)
    PROVE  /\ Once' /\ \A i : OnQueue(i)' <=> OnQueue(i) \/ In(r, i)
           /\ \A d \in Cores : \A e : Due(d, e)' => Due(d, e) \/ \E n \in DOMAIN r : e = r[n]
<1> DEFINE q == queue[c]
           s == Pending(c)
<1>1. \A d \in Cores : Pending(d)' = Pending(d)
  BY DEF Pending, OthersSame
<1>2. q \in Seq(Entries) /\ Distinct(q) /\ Distinct(s) /\ Apart(q, s) /\ Pending(c)' = s /\ queue'[c] = q \o r
  BY <1>1 DEF Once, Types, GcTypes
<1>3. \A i : In(r, i) => ~In(q, i) /\ ~In(s, i)
  BY DEF OnQueue, Has
<1> HIDE DEF q, s
<1>4. Apart(q, r) /\ Apart(r, s)
  BY <1>3 DEF In, Apart
<1>5. (\A i : In(q \o r, i) <=> In(q, i) \/ In(r, i)) /\ Distinct(q \o r) /\ Apart(q \o r, s)
  BY <1>2, <1>4, ConcatPlaces
<1>6. \A i : Has(c, i)' <=> Has(c, i) \/ In(r, i)
  BY <1>2, <1>5 DEF Has, q, s
<1>7. Once'
  <2>1. Distinct(queue'[c]) /\ Distinct(Pending(c)') /\ Apart(queue'[c], Pending(c)')
    BY <1>2, <1>5
  <2>2. \A i : Has(c, i)' => Has(c, i) \/ ~OnQueue(i)
    BY <1>6
  <2> QED
    BY <1>1, <2>1, <2>2, OnceKept
<1>8. \A i : OnQueue(i)' <=> OnQueue(i) \/ In(r, i)
  BY <1>1, <1>6, HasSame DEF OnQueue
<1>9. ASSUME NEW d \in Cores, NEW e, Due(d, e)' PROVE Due(d, e) \/ \E n \in DOMAIN r : e = r[n]
  <2>1. CASE d # c
    BY <1>1, <1>9, <2>1, HasSame
  <2>2. CASE d = c
    <3>1. (\E n \in DOMAIN (q \o r) : e = (q \o r)[n]) \/ \E n \in DOMAIN s : e = s[n]
      BY <1>2, <1>9, <2>2 DEF Due
    <3>2. (\E n \in DOMAIN (q \o r) : e = (q \o r)[n]) => (\E n \in DOMAIN q : e = q[n]) \/ \E n \in DOMAIN r : e = r[n]
      BY <1>2, ConcatRange
    <3> QED
      BY <2>2, <3>1, <3>2 DEF Due, q, s
  <2> QED
    BY <2>1, <2>2
<1> QED
  BY <1>7, <1>8, <1>9

LEMMA LiveUnqueued ==
    ASSUME Types, Tombs, Places, NEW i \in DOMAIN heap, heap[i].latest, ~heap[i].deleting
    PROVE  ~OnQueue(i)
<1> SUFFICES ASSUME NEW d \in Cores, Has(d, i) PROVE FALSE
  BY DEF OnQueue
<1>1. PICK e : Due(d, e) /\ e.tuple = i
  BY DEF Has, Due, In
<1>2. e \in Entries /\ Listed(d, e)
  BY <1>1, PendingTypes
<1>3. CASE e.key
  BY <1>1, <1>2, <1>3 DEF Tombs, IsTomb
<1>4. CASE ~e.key
  BY <1>1, <1>2, <1>4 DEF Places, Placed
<1> QED
  BY <1>3, <1>4

LEMMA InstallQueues ==
    ASSUME Types, NEW c \in Cores, NEW k \in Keys, NEW delete \in BOOLEAN, NEW r \in Seq(Entries),
           Installed(c, k, delete, r), txn[c].pc = "install"
    PROVE  /\ queue'[c] = queue[c] \o r /\ \A d \in Cores \ {c} : queue'[d] = queue[d]
           /\ UNCHANGED <<scratch, retired, freed>> /\ OthersSame(c) /\ txn'[c].pc # "release"
<1>1. txn'[c] = InstalledState(c, k) /\ OthersSame(c)
  BY InstalledStep
<1>2. txn'[c].pc \in {"committed", "install"}
  BY <1>1, InstalledFields
<1> QED
  BY <1>1, <1>2, InstalledQueue

LEMMA InPlacePlaces ==
    ASSUME Types, Types', Tombs, Locks, Places, NEW c \in Cores, NEW k \in Keys, NEW delete \in BOOLEAN,
           InstallInPlace(c, k, delete)
    PROVE  Places'
<1> DEFINE i == txn[c].refs[k]
           l == Len(heap) + 1
           keep == Keep(c, k)
           r == InPlaceEntries(c, k, delete)
<1>1. /\ WroteInPlace(c, i, l, keep, delete) /\ ~heap[i].deleting /\ heap[i].latest /\ txn[c].pc = "install"
  <2>1. WroteInPlace(c, i, l, keep, delete)
    BY InPlaceWrote
  <2>2. heap[i].latest
    BY InstallsLatest
  <2>3. ~heap[i].deleting /\ txn[c].pc = "install"
    BY DEF InstallInPlace
  <2> QED
    BY <2>1, <2>2, <2>3
<1>2. i \in DOMAIN heap /\ l \notin DOMAIN heap /\ i # l
  BY <1>1 DEF WroteInPlace
<1>3. /\ r \in Seq(Entries)
      /\ \A n \in DOMAIN r :
            \/ keep /\ r[n].tuple = l /\ ~r[n].key /\ n = 1
            \/ delete /\ r[n].tuple = i /\ r[n].key /\ n = IF keep THEN 2 ELSE 1
      /\ keep => \E n \in DOMAIN r : r[n].tuple = l
      /\ delete => \E n \in DOMAIN r : r[n].tuple = i
  BY <1>2, InPlaceEntriesAre
<1>4. Installed(c, k, delete, r)
  BY DEF InstallInPlace, InPlaceEntries, Keep
<1> HIDE DEF i, l, keep, r
<1>5. /\ queue'[c] = queue[c] \o r /\ \A d \in Cores \ {c} : queue'[d] = queue[d]
      /\ UNCHANGED <<scratch, retired, freed>> /\ OthersSame(c) /\ txn'[c].pc # "release"
  BY <1>1, <1>3, <1>4, InstallQueues
<1>6. Distinct(r) /\ \A x : In(r, x) <=> (x = l /\ keep) \/ (x = i /\ delete)
  <2>1. Distinct(r)
    BY <1>2, <1>3 DEF Distinct
  <2>2. ASSUME NEW x PROVE In(r, x) <=> (x = l /\ keep) \/ (x = i /\ delete)
    BY <1>3 DEF In
  <2> QED
    BY <2>1, <2>2
<1>7. ~OnQueue(i) /\ ~OnQueue(l)
  BY <1>1, <1>2, LiveUnqueued, PendingTypes DEF OnQueue
<1>8. /\ Once' /\ \A x : OnQueue(x)' <=> OnQueue(x) \/ In(r, x)
      /\ \A d \in Cores : \A e : Due(d, e)' => Due(d, e) \/ \E n \in DOMAIN r : e = r[n]
  <2>1. \A x : In(r, x) => ~OnQueue(x)
    BY <1>6, <1>7
  <2> QED
    BY <1>1, <1>3, <1>5, <1>6, <2>1, InstalledPlaces DEF Places
<1>9. \A x : Retired(x)' <=> Retired(x)
  BY <1>5 DEF Retired
<1>10. ~Retired(l) /\ l \notin freed
  BY <1>2 DEF Types, GcTypes, Retired
<1>11. /\ \A x \in DOMAIN heap' : x \in DOMAIN heap \/ (x = l /\ keep)
       /\ \A x \in DOMAIN heap : heap'[x].latest = heap[x].latest /\ (x # i => heap'[x].deleting = heap[x].deleting)
       /\ heap'[i].deleting = delete /\ (keep => ~heap'[l].latest)
  BY <1>1 DEF WroteInPlace
<1>12. Placed'
  <2>1. \A x : OnQueue(x)' => ~Retired(x)' /\ x \notin freed'
    BY <1>1, <1>2, <1>5, <1>6, <1>8, <1>9, <1>10 DEF Places, Placed
  <2>2. ASSUME NEW d \in Cores, NEW e \in Entries, Due(d, e)', ~e.key PROVE ~heap'[e.tuple].latest
    <3>1. CASE Due(d, e)
      <4>1. e.tuple \in DOMAIN heap /\ ~heap[e.tuple].latest
        BY <2>2, <3>1, PendingTypes DEF Places, Placed
      <4> QED
        BY <1>11, <4>1
    <3>2. CASE \E n \in DOMAIN r : e = r[n]
      <4>1. e.tuple = l /\ keep
        BY <1>3, <2>2, <3>2
      <4> QED
        BY <1>11, <4>1
    <3> QED
      BY <1>8, <2>2, <3>1, <3>2
  <2>3. \A x \in DOMAIN heap' : heap'[x].latest \/ OnQueue(x)' \/ Retired(x)' \/ x \in freed'
    BY <1>5, <1>6, <1>8, <1>9, <1>11 DEF Places, Placed
  <2>4. \A x \in DOMAIN heap' : heap'[x].latest => ~Retired(x)' /\ x \notin freed'
    BY <1>5, <1>9, <1>11 DEF Places, Placed
  <2>5. ASSUME NEW x \in DOMAIN heap', heap'[x].latest, heap'[x].deleting PROVE OnQueue(x)'
    <3>1. x \in DOMAIN heap /\ heap[x].latest
      BY <1>11, <2>5
    <3>2. CASE x = i
      BY <1>6, <1>8, <1>11, <2>5, <3>2
    <3>3. CASE x # i
      BY <1>8, <1>11, <2>5, <3>1, <3>3 DEF Places, Placed
    <3> QED
      BY <3>2, <3>3
  <2>6. \A u, v \in retired' : u.tuple = v.tuple => u = v
    BY <1>5 DEF Places, Placed
  <2>7. \A x : Retired(x)' => x \notin freed'
    BY <1>5, <1>9 DEF Places, Placed
  <2> QED
    BY <2>1, <2>2, <2>3, <2>4, <2>5, <2>6, <2>7 DEF Placed
<1> QED
  BY <1>8, <1>12 DEF Places

LEMMA ReplacedPlaces ==
    ASSUME Types, Types', Tombs, Locks, Places, NEW c \in Cores, NEW k \in Keys, NEW delete \in BOOLEAN,
           InstallReplacement(c, k, delete)
    PROVE  Places'
<1> DEFINE i == txn[c].refs[k]
           l == Len(heap) + 1
           live == ~heap[i].deleting
           r == ReplacedEntries(c, k, delete)
<1>1. WroteReplacement(c, i, l, delete) /\ heap[i].latest /\ txn[c].pc = "install"
  <2>1. WroteReplacement(c, i, l, delete)
    BY ReplacedWrote
  <2>2. heap[i].latest
    BY InstallsLatest
  <2>3. txn[c].pc = "install"
    BY DEF InstallReplacement
  <2> QED
    BY <2>1, <2>2, <2>3
<1>2. i \in DOMAIN heap /\ l \notin DOMAIN heap /\ i # l
  BY <1>1 DEF WroteReplacement
<1>3. /\ r \in Seq(Entries)
      /\ \A n \in DOMAIN r :
            \/ live /\ r[n].tuple = i /\ ~r[n].key /\ n = 1
            \/ delete /\ r[n].tuple = l /\ r[n].key /\ n = IF live THEN 2 ELSE 1
      /\ live => \E n \in DOMAIN r : r[n].tuple = i
      /\ delete => \E n \in DOMAIN r : r[n].tuple = l
  BY <1>2, ReplacedEntriesAre
<1>4. Installed(c, k, delete, r)
  BY DEF InstallReplacement, ReplacedEntries
<1>5. live => ~OnQueue(i)
  BY <1>1, <1>2, LiveUnqueued
<1>6. ~live => OnQueue(i)
  BY <1>1, <1>2 DEF Places, Placed
<1> HIDE DEF i, l, live, r
<1>7. /\ queue'[c] = queue[c] \o r /\ \A d \in Cores \ {c} : queue'[d] = queue[d]
      /\ UNCHANGED <<scratch, retired, freed>> /\ OthersSame(c) /\ txn'[c].pc # "release"
  BY <1>1, <1>3, <1>4, InstallQueues
<1>8. Distinct(r) /\ \A x : In(r, x) <=> (x = i /\ live) \/ (x = l /\ delete)
  <2>1. Distinct(r)
    BY <1>2, <1>3 DEF Distinct
  <2>2. ASSUME NEW x PROVE In(r, x) <=> (x = i /\ live) \/ (x = l /\ delete)
    BY <1>3 DEF In
  <2> QED
    BY <2>1, <2>2
<1>9. ~OnQueue(l)
  BY <1>2, PendingTypes DEF OnQueue
<1>10. /\ Once' /\ \A x : OnQueue(x)' <=> OnQueue(x) \/ In(r, x)
       /\ \A d \in Cores : \A e : Due(d, e)' => Due(d, e) \/ \E n \in DOMAIN r : e = r[n]
  <2>1. \A x : In(r, x) => ~OnQueue(x)
    BY <1>5, <1>8, <1>9
  <2> QED
    BY <1>1, <1>3, <1>7, <1>8, <2>1, InstalledPlaces DEF Places
<1>11. \A x : Retired(x)' <=> Retired(x)
  BY <1>7 DEF Retired
<1>12. ~Retired(l) /\ l \notin freed
  BY <1>2 DEF Types, GcTypes, Retired
<1>13. /\ \A x \in DOMAIN heap' : x \in DOMAIN heap \/ x = l
       /\ \A x \in DOMAIN heap \ {i} : heap'[x] = heap[x]
       /\ heap'[l].deleting = delete /\ ~heap'[i].latest
  BY <1>1 DEF WroteReplacement
<1>14. Placed'
  <2>1. ASSUME NEW x, OnQueue(x)' PROVE ~Retired(x)' /\ x \notin freed'
    <3>1. CASE OnQueue(x)
      BY <1>7, <1>11, <3>1 DEF Places, Placed
    <3>2. CASE x = i
      BY <1>1, <1>2, <1>7, <1>11, <3>2 DEF Places, Placed
    <3>3. CASE x = l
      BY <1>7, <1>11, <1>12, <3>3
    <3> QED
      BY <1>8, <1>10, <2>1, <3>1, <3>2, <3>3
  <2>2. ASSUME NEW d \in Cores, NEW e \in Entries, Due(d, e)', ~e.key PROVE ~heap'[e.tuple].latest
    <3>1. CASE Due(d, e)
      <4>1. e.tuple \in DOMAIN heap /\ ~heap[e.tuple].latest
        BY <2>2, <3>1, PendingTypes DEF Places, Placed
      <4> QED
        BY <1>13, <4>1
    <3>2. CASE \E n \in DOMAIN r : e = r[n]
      <4>1. e.tuple = i
        BY <1>3, <2>2, <3>2
      <4> QED
        BY <1>13, <4>1
    <3> QED
      BY <1>10, <2>2, <3>1, <3>2
  <2>3. ASSUME NEW x \in DOMAIN heap' PROVE heap'[x].latest \/ OnQueue(x)' \/ Retired(x)' \/ x \in freed'
    <3>1. CASE x = i
      BY <1>6, <1>8, <1>10, <3>1
    <3>2. CASE x = l
      BY <1>1, <3>2 DEF WroteReplacement
    <3>3. CASE x \in DOMAIN heap \ {i}
      BY <1>7, <1>10, <1>11, <1>13, <3>3 DEF Places, Placed
    <3> QED
      BY <1>13, <3>1, <3>2, <3>3
  <2>4. ASSUME NEW x \in DOMAIN heap', heap'[x].latest PROVE ~Retired(x)' /\ x \notin freed'
    <3>1. CASE x = l
      BY <1>7, <1>11, <1>12, <3>1
    <3>2. CASE x # l
      <4>1. x \in DOMAIN heap \ {i} /\ heap[x].latest
        BY <1>13, <2>4, <3>2
      <4> QED
        BY <1>7, <1>11, <4>1 DEF Places, Placed
    <3> QED
      BY <3>1, <3>2
  <2>5. ASSUME NEW x \in DOMAIN heap', heap'[x].latest, heap'[x].deleting PROVE OnQueue(x)'
    <3>1. CASE x = l
      BY <1>8, <1>10, <1>13, <2>5, <3>1
    <3>2. CASE x # l
      <4>1. x \in DOMAIN heap \ {i} /\ heap'[x] = heap[x]
        BY <1>13, <2>5, <3>2
      <4> QED
        BY <1>10, <2>5, <4>1 DEF Places, Placed
    <3> QED
      BY <3>1, <3>2
  <2>6. \A u, v \in retired' : u.tuple = v.tuple => u = v
    BY <1>7 DEF Places, Placed
  <2>7. \A x : Retired(x)' => x \notin freed'
    BY <1>7, <1>11 DEF Places, Placed
  <2> QED
    BY <2>1, <2>2, <2>3, <2>4, <2>5, <2>6, <2>7 DEF Placed
<1> QED
  BY <1>10, <1>14 DEF Places

(***************************************************************************)
(* Places: every step, and the theorem.                                    *)
(***************************************************************************)
LEMMA PlacesNext ==
    ASSUME Types, Types', Tombs, Locks, Places, [VersionsNext]_vvars
    PROVE  Places'
<1>1. CASE Still
  BY <1>1, StillPlaces
<1>2. CASE RcuFree
  BY <1>2, RcuPlaces
<1>3. CASE \E c \in Cores : on_post_rcu_region_completion(c)
  BY <1>3, TakePlaces
<1>4. CASE \E c \in Cores : FreeVersion(c)
  BY <1>4, FreePlaces
<1>5. CASE \E c \in Cores : Requeue(c)
  BY <1>5, RequeuePlaces
<1>6. CASE \E c \in Cores : RemoveTombstone(c)
  BY <1>6, RemovePlaces
<1>7. ASSUME NEW c \in Cores, NEW k \in Keys, NEW delete \in Deletes[c], InstallInPlace(c, k, delete)
      PROVE  Places'
  <2>1. delete \in BOOLEAN
    BY DeleteBoolean
  <2> QED
    BY <1>7, <2>1, InPlacePlaces
<1>8. ASSUME NEW c \in Cores, NEW k \in Keys, NEW delete \in Deletes[c], InstallReplacement(c, k, delete)
      PROVE  Places'
  <2>1. delete \in BOOLEAN
    BY DeleteBoolean
  <2> QED
    BY <1>8, <2>1, ReplacedPlaces
<1> QED
  BY <1>1, <1>2, <1>3, <1>4, <1>5, <1>6, <1>7, <1>8, Kinds, QuietStill, ClockStill

LEMMA InitPlaces ==
    ASSUME VersionsInit
    PROVE  Places
<1>1. /\ queue = [c \in Cores |-> <<>>] /\ scratch = [c \in Cores |-> <<>>] /\ txn = [c \in Cores |-> Idle]
      /\ retired = {} /\ freed = {} /\ DOMAIN heap = Keys
      /\ \A k \in Keys : heap[k].latest /\ ~heap[k].deleting
  BY InitHeap DEF VersionsInit
<1>2. \A c \in Cores : queue[c] = <<>> /\ Pending(c) = <<>>
  BY <1>1 DEF Pending, Idle
<1>3. DOMAIN <<>> = {}
  OBVIOUS
<1>4. Once /\ \A i : ~OnQueue(i)
  BY <1>2, <1>3 DEF Once, Distinct, Apart, Has, In, OnQueue
<1>5. \A c \in Cores : \A e : ~Due(c, e)
  BY <1>2, <1>3 DEF Due
<1>6. \A i : ~Retired(i)
  BY <1>1 DEF Retired
<1>7. Placed
  BY <1>1, <1>4, <1>5, <1>6 DEF Placed
<1> QED
  BY <1>4, <1>7 DEF Places

PlacedInv == Locked /\ Places

LEMMA PlacedInvariant == UncontendedSpec => []PlacedInv
<1>1. VersionsInit => Places
  BY InitPlaces
<1>2. Locked /\ Locked' /\ Places /\ [VersionsNext /\ Uncontended']_vvars => Places'
  BY PlacesNext, UncontendedNext DEF Locked, Typed
<1> QED
  BY <1>1, <1>2, LockedInvariant, PTL DEF UncontendedSpec, PlacedInv

(* A set all of whose members are one has at most one.                     *)
LEMMA AtMostOne ==
    ASSUME NEW S, \A x, y \in S : x = y
    PROVE  Cardinality(S) <= 1 /\ (S # {} => Cardinality(S) = 1)
<1>1. CASE S = {}
  BY <1>1, FS_EmptySet
<1>2. CASE S # {}
  <2>1. PICK x \in S : TRUE
    BY <1>2
  <2>2. S = {x}
    BY <2>1
  <2> QED
    BY <2>2, FS_Singleton
<1> QED
  BY <1>1, <1>2

QueueSpots(i) == UNION {{<<"queue", c, n>> : n \in {m \in DOMAIN Queued(c) : Queued(c)[m].tuple = i}} : c \in Cores}
RcuSpots(i) == {<<"rcu", r>> : r \in {x \in retired : x.tuple = i}}
FreeSpots(i) == IF i \in freed THEN {<<"free">>} ELSE {}

LEMMA SpotsAre ==
    ASSUME Types, Places, NEW i
    PROVE  /\ \A x, y \in QueueSpots(i) : x = y
           /\ QueueSpots(i) # {} <=> OnQueue(i)
           /\ \A x, y \in RcuSpots(i) : x = y
           /\ RcuSpots(i) # {} <=> Retired(i)
           /\ \A x, y \in FreeSpots(i) : x = y
           /\ FreeSpots(i) # {} <=> i \in freed
<1>1. ASSUME NEW c \in Cores
      PROVE  Distinct(Queued(c)) /\ (In(Queued(c), i) <=> Has(c, i))
  <2>1. /\ queue[c] \in Seq(Entries) /\ Pending(c) \in Seq(Entries) /\ Queued(c) = queue[c] \o Pending(c)
    BY QueuedIs DEF Pending
  <2>2. Distinct(queue[c]) /\ Distinct(Pending(c)) /\ Apart(queue[c], Pending(c))
    BY DEF Places, Once
  <2> QED
    BY <2>1, <2>2, ConcatPlaces DEF Has
<1>2. ASSUME NEW x \in QueueSpots(i)
      PROVE  \E c \in Cores : \E n \in DOMAIN Queued(c) : x = <<"queue", c, n>> /\ Queued(c)[n].tuple = i
  BY DEF QueueSpots
<1>3. ASSUME NEW x \in QueueSpots(i), NEW y \in QueueSpots(i) PROVE x = y
  <2>1. PICK c \in Cores : \E n \in DOMAIN Queued(c) : x = <<"queue", c, n>> /\ Queued(c)[n].tuple = i
    BY <1>2
  <2>2. PICK d \in Cores : \E n \in DOMAIN Queued(d) : y = <<"queue", d, n>> /\ Queued(d)[n].tuple = i
    BY <1>2
  <2>3. PICK n \in DOMAIN Queued(c) : x = <<"queue", c, n>> /\ Queued(c)[n].tuple = i
    BY <2>1
  <2>4. PICK m \in DOMAIN Queued(d) : y = <<"queue", d, m>> /\ Queued(d)[m].tuple = i
    BY <2>2
  <2>5. c = d
    BY <1>1, <2>3, <2>4 DEF In, Places, Once
  <2>6. n = m
    BY <1>1, <2>3, <2>4, <2>5 DEF Distinct
  <2> QED
    BY <2>3, <2>4, <2>5, <2>6
<1>4. QueueSpots(i) # {} <=> OnQueue(i)
  <2>1. QueueSpots(i) # {} => OnQueue(i)
    BY <1>1, <1>2 DEF In, OnQueue
  <2>2. ASSUME NEW c \in Cores, Has(c, i) PROVE QueueSpots(i) # {}
    <3>1. PICK n \in DOMAIN Queued(c) : Queued(c)[n].tuple = i
      BY <1>1, <2>2 DEF In
    <3>2. <<"queue", c, n>> \in QueueSpots(i)
      BY <3>1 DEF QueueSpots
    <3> QED
      BY <3>2
  <2> QED
    BY <2>1, <2>2 DEF OnQueue
<1>5. (\A x, y \in RcuSpots(i) : x = y) /\ (RcuSpots(i) # {} <=> Retired(i))
  <2>1. \A r, s \in retired : r.tuple = i /\ s.tuple = i => r = s
    BY DEF Places, Placed
  <2>2. \A x, y \in RcuSpots(i) : x = y
    BY <2>1 DEF RcuSpots
  <2>3. RcuSpots(i) # {} <=> Retired(i)
    BY DEF RcuSpots, Retired
  <2> QED
    BY <2>2, <2>3
<1>6. (\A x, y \in FreeSpots(i) : x = y) /\ (FreeSpots(i) # {} <=> i \in freed)
  BY DEF FreeSpots
<1> QED
  BY <1>3, <1>4, <1>5, <1>6

(* Whichever cores delete, as long as no collector waits for the MCS lock  *)
(* of another, nothing is released twice and nothing is lost: a tuple that *)
(* the tree does not hold is on one queue, once, or with RCU, or free,     *)
(* through every spill, replacement, revival and removal.                  *)
THEOREM OnePlaceEach == UncontendedSpec => []EachVersionInOnePlace
<1>1. PlacedInv => EachVersionInOnePlace
  <2> SUFFICES ASSUME PlacedInv PROVE EachVersionInOnePlace
    OBVIOUS
  <2>1. Types /\ Locks /\ Places
    BY DEF PlacedInv, Locked, Typed
  <2>2. ASSUME NEW i \in DOMAIN heap
        PROVE  LET S == QueueSpots(i) \cup RcuSpots(i) \cup FreeSpots(i)
               IN  Cardinality(S) <= 1 /\ (tree[heap[i].key] # i => Cardinality(S) = 1)
    <3> DEFINE Q == QueueSpots(i)
               R == RcuSpots(i)
               F == FreeSpots(i)
               S == Q \cup R \cup F
    <3>1. /\ \A x, y \in Q : x = y
          /\ \A x, y \in R : x = y
          /\ \A x, y \in F : x = y
          /\ Q # {} <=> OnQueue(i)
          /\ R # {} <=> Retired(i)
          /\ F # {} <=> i \in freed
      BY <2>1, SpotsAre
    <3>2. /\ OnQueue(i) => ~Retired(i) /\ i \notin freed
          /\ Retired(i) => i \notin freed
          /\ heap[i].latest \/ OnQueue(i) \/ Retired(i) \/ i \in freed
      BY <2>1 DEF Places, Placed
    <3>3. tree[heap[i].key] # i => ~heap[i].latest
      BY <2>1 DEF Locks, Rooted
    <3> HIDE DEF Q, R, F
    <3>4. \A x, y \in S : x = y
      BY <3>1, <3>2
    <3>5. tree[heap[i].key] # i => S # {}
      BY <3>1, <3>2, <3>3
    <3>6. Cardinality(S) <= 1 /\ (S # {} => Cardinality(S) = 1)
      <4> HIDE DEF S
      <4> QED
        BY <3>4, AtMostOne
    <3> QED
      BY <3>5, <3>6 DEF Q, R, F
  <2> QED
    BY <2>2, Zenon DEF EachVersionInOnePlace, Addresses, QueueSpots, RcuSpots, FreeSpots
<1> QED
  BY <1>1, PlacedInvariant, PTL
=============================================================================
