----------------------- MODULE VersionsSnapshotProofs -----------------------
(***************************************************************************)
(* What Versions promises to those who still read old versions, for any    *)
(* number of cores and keys, any programs and any bounds, as long as no two*)
(* collectors are at one MCS lock at a time (UncontendedSpec): nothing that*)
(* a transaction has hold of is freed, and what a snapshot reads stays what*)
(* it should have read.  Timed relates a version, and the read-only tick it*)
(* waits for, to the transactions that began before the end of that tick;  *)
(* Stable the versions behind a tuple to the installs of its key.  Both    *)
(* rest on the invariants of VersionsProofs.                               *)
(***************************************************************************)
EXTENDS VersionsProofs

(***************************************************************************)
(* What a transaction has hold of, and in which tick it began.             *)
(***************************************************************************)
Uses(c, i) == (\E k \in DOMAIN txn[c].refs : txn[c].refs[k] = i) \/ txn[c].at = i
Unused(c) == DOMAIN txn[c].refs = {} /\ txn[c].at = Nil
SnapshotTaken(c) == txn[c].prog.snapshot /\ txn[c].pc # "begin"

LEMMA IdleShape ==
    ASSUME NEW x \in TxnStates, Shape(x), x.pc \in Collecting \cup {"idle", "post"}
    PROVE  DOMAIN x.refs = {} /\ x.at = Nil /\ ~x.prog.snapshot
<1>1. x = [Idle EXCEPT !.pc = x.pc] /\ x.pc \in Pcs
  BY DEF Shape, Pcs
<1> QED
  BY <1>1, IdleState

LEMMA IdleUses ==
    ASSUME Types, NEW c \in Cores, txn[c].pc \in Collecting \cup {"idle", "post"}
    PROVE  Unused(c) /\ ~txn[c].prog.snapshot
BY IdleShape DEF Types, TxnTypes, Unused

LEMMA UserRuns ==
    ASSUME Types, NEW c \in Cores, NEW i \in DOMAIN heap, Uses(c, i)
    PROVE  txn[c].pc \in Active /\ region[c] # None /\ over < region[c] /\ region[c] <= now
<1>1. i # Nil
  BY HeapLen DEF Types, HeapTypes
<1>2. ~Unused(c)
  BY <1>1 DEF Uses, Unused
<1>3. txn[c].pc \in Pcs
  BY TxnFields DEF Types, TxnTypes
<1>4. txn[c].pc \in Active
  BY <1>2, <1>3, IdleUses DEF Pcs, Active
<1> QED
  BY <1>4 DEF Types, MiscTypes, Active

(* What a step does to a transaction: what it gets hold of it finds in the *)
(* tree or behind a version that its snapshot is older than; its region    *)
(* stays, and once it has taken its snapshot, that does.                   *)
FoundAt(d) ==
    \/ txn'[d].at = Nil \/ txn'[d].at = txn[d].at
    \/ \E k \in Keys : tree[k] # Nil /\ txn'[d].at = tree[k]
    \/ /\ txn[d].pc = "walk" /\ txn[d].at \in DOMAIN heap /\ heap[txn[d].at].version > txn[d].t
       /\ txn'[d].at = heap[txn[d].at].next /\ heap[txn[d].at].next # Nil
RegionKept(d) == region'[d] = region[d] \/ (Unused(d)' /\ ~SnapshotTaken(d)')
SnapshotKept(d) ==
    SnapshotTaken(d)' => \/ SnapshotTaken(d) /\ txn'[d].t = txn[d].t
                         \/ txn'[d].t = ComputeReadOnlyTid(over + 1)
Moved(d) == FoundAt(d) /\ RegionKept(d) /\ SnapshotKept(d)

LEMMA MovedSame ==
    ASSUME NEW d \in Cores, txn'[d] = txn[d], region'[d] = region[d]
    PROVE  Moved(d)
BY DEF Moved, FoundAt, RegionKept, SnapshotKept, SnapshotTaken

LEMMA MovedOthers ==
    ASSUME NEW c \in Cores, OthersSame(c), \A d \in Cores \ {c} : region'[d] = region[d], Moved(c)
    PROVE  \A d \in Cores : Moved(d)
BY MovedSame DEF OthersSame

LEMMA MovedIdle ==
    ASSUME Types', NEW c \in Cores, txn'[c].pc \in Collecting \cup {"idle", "post"}
    PROVE  Moved(c)
<1>1. Unused(c)' /\ ~txn'[c].prog.snapshot
  BY IdleShape DEF Types, TxnTypes, Unused
<1> QED
  BY <1>1 DEF Moved, FoundAt, RegionKept, SnapshotKept, SnapshotTaken, Unused

(* Another place, in the same region.                                      *)
LEMMA MovedOn ==
    ASSUME NEW d \in Cores, txn'[d].at = txn[d].at, txn'[d].t = txn[d].t, txn'[d].prog = txn[d].prog,
           txn[d].pc # "begin", region'[d] = region[d]
    PROVE  Moved(d)
BY DEF Moved, FoundAt, RegionKept, SnapshotKept, SnapshotTaken

(***************************************************************************)
(* Uses: every step.                                                       *)
(***************************************************************************)
LEMMA MovedGo ==
    ASSUME Types, NEW c \in Cores, NEW p \in Pcs, Go(c, p), UNCHANGED vars, txn[c].pc # "begin"
    PROVE  \A d \in Cores : Moved(d)
<1>1. OthersSame(c) /\ txn'[c].at = txn[c].at /\ txn'[c].t = txn[c].t /\ txn'[c].prog = txn[c].prog
  BY GoMoves DEF MovedTo
<1>2. \A d \in Cores : region'[d] = region[d]
  BY DEF vars
<1> QED
  BY <1>1, <1>2, MovedOn, MovedOthers

LEMMA MovedRest ==
    ASSUME Types, Types', NEW c \in Cores, OthersSame(c), txn'[c].pc \in Collecting \cup {"idle", "post"},
           Start(c) \/ End(c) \/ UNCHANGED vars
    PROVE  \A d \in Cores : Moved(d)
<1>1. Moved(c)
  BY MovedIdle
<1> QED
  BY <1>1, OwnRegion, MovedOthers

LEMMA BeginMoves ==
    ASSUME Types, NEW c \in Cores, Begin(c)
    PROVE  \A d \in Cores : Moved(d)
<1>1. PICK p \in ProgramSet : txn'[c] = BeginState(p) /\ OthersSame(c)
  BY BeginStep
<1>2. LET z == BeginState(p)
      IN  DOMAIN z.refs = {} /\ z.at = Nil /\ z.prog = p /\ (p.snapshot => z.pc = "begin")
  BY DEF BeginState, Idle
<1>3. Moved(c)
  BY <1>1, <1>2 DEF Moved, FoundAt, RegionKept, SnapshotKept, SnapshotTaken, Unused
<1> QED
  BY <1>1, <1>3, OwnRegion, MovedOthers DEF Begin

LEMMA ReadMoves ==
    ASSUME Types, NEW c \in Cores, TakeSnapshot(c) \/ Walk(c) \/ \E k \in Keys : FindHead(c, k)
    PROVE  \A d \in Cores : Moved(d)
<1>1. \A d \in Cores : region'[d] = region[d]
  BY DEF TakeSnapshot, Walk, FindHead, vars
<1>2. ASSUME TakeSnapshot(c) PROVE OthersSame(c) /\ Moved(c)
  <2>1. OthersSame(c) /\ txn'[c].t = ComputeReadOnlyTid(over + 1) /\ txn'[c].at = txn[c].at
    BY <1>2, TakeSnapshotStep, SnapFields
  <2> QED
    BY <1>1, <2>1 DEF Moved, FoundAt, RegionKept, SnapshotKept
<1>3. ASSUME NEW k \in Keys, FindHead(c, k) PROVE OthersSame(c) /\ Moved(c)
  <2>1. /\ OthersSame(c) /\ txn'[c].t = txn[c].t /\ txn'[c].prog = txn[c].prog
        /\ txn'[c].at = Nil \/ (tree[k] # Nil /\ txn'[c].at = tree[k])
    BY <1>3, FindHeadMoves DEF Finds, MovesTo
  <2>2. txn[c].pc # "begin"
    BY <1>3 DEF FindHead
  <2> QED
    BY <1>1, <2>1, <2>2 DEF Moved, FoundAt, RegionKept, SnapshotKept, SnapshotTaken
<1>4. ASSUME Walk(c) PROVE OthersSame(c) /\ Moved(c)
  <2> DEFINE i == txn[c].at
  <2>1. /\ OthersSame(c) /\ i \in DOMAIN heap /\ txn'[c].t = txn[c].t /\ txn'[c].prog = txn[c].prog
        /\ txn'[c].at = Nil \/ (~(heap[i].version <= txn[c].t) /\ heap[i].next # Nil /\ txn'[c].at = heap[i].next)
    BY <1>4, WalkMoves DEF Finds, MovesTo
  <2>2. txn[c].pc = "walk" /\ txn[c].t \in Nat
    BY <1>4, TxnFields DEF Walk, Types, TxnTypes
  <2>3. heap[i].version \in Nat
    BY <2>1, HeapLen, TupleFields DEF Types, HeapTypes
  <2>4. FoundAt(c)
    BY <2>1, <2>2, <2>3 DEF FoundAt
  <2> QED
    BY <1>1, <2>1, <2>2, <2>4 DEF Moved, RegionKept, SnapshotKept, SnapshotTaken
<1> QED
  BY <1>1, <1>2, <1>3, <1>4, MovedOthers

LEMMA WriteMoves ==
    ASSUME Types, NEW c \in Cores,
           \/ gen_commit_tid(c) \/ \E k \in Keys : Access(c, k)
           \/ \E k \in Keys, delete \in Deletes[c] : InstallInPlace(c, k, delete) \/ InstallReplacement(c, k, delete)
    PROVE  \A d \in Cores : Moved(d)
<1>1. \A d \in Cores : region'[d] = region[d]
  <2>1. ASSUME gen_commit_tid(c) PROVE UNCHANGED vars
    BY <2>1 DEF gen_commit_tid
  <2>2. ASSUME NEW k \in Keys, Access(c, k) PROVE UNCHANGED vars
    BY <2>2 DEF Access
  <2>3. ASSUME NEW k \in Keys, NEW delete \in Deletes[c], InstallInPlace(c, k, delete) \/ InstallReplacement(c, k, delete)
        PROVE  UNCHANGED vars
    BY <2>3 DEF InstallInPlace, InstallReplacement, Installed
  <2>4. UNCHANGED vars
    BY <2>1, <2>2, <2>3
  <2> QED
    BY <2>4 DEF vars
<1>2. ~txn[c].prog.snapshot
  BY DEF Types, TxnTypes, Shape, Writing, gen_commit_tid, Access, InstallInPlace, InstallReplacement
<1>3. OthersSame(c) /\ txn'[c].at = txn[c].at /\ txn'[c].prog = txn[c].prog
  <2>1. ASSUME gen_commit_tid(c) PROVE OthersSame(c) /\ txn'[c].at = txn[c].at /\ txn'[c].prog = txn[c].prog
    <3>1. PICK tid \in Nat : txn'[c] = DrawState(c, tid) /\ OthersSame(c)
      BY <2>1, DrawStep
    <3> QED
      BY <3>1, GenFields
  <2>2. ASSUME NEW k \in Keys, Access(c, k)
        PROVE  OthersSame(c) /\ txn'[c].at = txn[c].at /\ txn'[c].prog = txn[c].prog
    BY <2>2, AccessStep, AccessFields
  <2>3. ASSUME NEW k \in Keys, NEW delete \in Deletes[c], InstallInPlace(c, k, delete) \/ InstallReplacement(c, k, delete)
        PROVE  OthersSame(c) /\ txn'[c].at = txn[c].at /\ txn'[c].prog = txn[c].prog
    <3>1. txn'[c] = InstalledState(c, k) /\ OthersSame(c)
      BY <2>3, InstalledStep DEF InstallInPlace, InstallReplacement
    <3> QED
      BY <3>1, InstalledFields
  <2> QED
    BY <2>1, <2>2, <2>3
<1>4. Moved(c)
  BY <1>1, <1>2, <1>3 DEF Moved, FoundAt, RegionKept, SnapshotKept, SnapshotTaken
<1> QED
  BY <1>1, <1>3, <1>4, MovedOthers

LEMMA ReleaseMoves ==
    ASSUME Types, Types', NEW c \in Cores, McsRelease(c)
    PROVE  \A d \in Cores : Moved(d)
<1>1. Passes(c) /\ \A d \in Cores : region'[d] = region[d]
  BY PassesStep DEF McsRelease, vars
<1>2. ASSUME NEW d \in Cores PROVE Moved(d)
  <2>1. CASE txn'[d] = txn[d]
    BY <1>1, <2>1, MovedSame
  <2>2. ASSUME NEW p \in {"collect", "locked"}, txn'[d] = [txn[d] EXCEPT !.pc = p] PROVE Moved(d)
    <3>1. txn[d] \in TxnStates /\ p \in Pcs
      BY PcsIn DEF Types, TxnTypes
    <3>2. txn'[d].pc = p
      BY <2>2, <3>1, NewPc
    <3>3. p \in Collecting
      BY DEF Collecting, Examining
    <3> QED
      BY <3>2, <3>3, MovedIdle
  <2> QED
    BY <1>1, <2>1, <2>2 DEF Passes
<1> QED
  BY <1>2

LEMMA MovedNext ==
    ASSUME Types, Types', [VersionsNext]_vvars
    PROVE  \A d \in Cores : Moved(d)
<1>1. ASSUME NEW c \in Cores, LockWrites(c) \/ Validate(c) \/ Abort(c) \/ EndSnapshot(c)
      PROVE  \A d \in Cores : Moved(d)
  <2>1. UNCHANGED vars /\ txn[c].pc # "begin" /\ \E p \in Pcs : Go(c, p)
    BY <1>1, PcsIn DEF LockWrites, Validate, Abort, EndSnapshot
  <2> QED
    BY <2>1, MovedGo
<1>2. ASSUME NEW c \in Cores, \/ McsAcquire(c) \/ SpinLock(c) \/ Requeue(c) \/ StillTombstone(c)
                              \/ RemoveTombstone(c) \/ Collected(c) \/ on_post_rcu_region_completion(c)
      PROVE  \A d \in Cores : Moved(d)
  <2> DEFINE P == {"spin", "wait", "locked", "release", "remove", "idle", "collect"}
  <2>1. \E p \in P : Go(c, p)
    BY <1>2 DEF McsAcquire, SpinLock, Requeue, StillTombstone, RemoveTombstone, Collected, on_post_rcu_region_completion
  <2>2. Start(c) \/ End(c) \/ UNCHANGED vars
    BY <1>2 DEF McsAcquire, SpinLock, Requeue, StillTombstone, RemoveTombstone, Collected, on_post_rcu_region_completion
  <2>3. P \subseteq Pcs /\ P \subseteq Collecting \cup {"idle", "post"}
    BY DEF Pcs, Collecting, Examining
  <2>4. OthersSame(c) /\ txn'[c].pc \in P
    BY <2>1, <2>3, GoMoves DEF MovedTo
  <2> QED
    BY <2>2, <2>3, <2>4, MovedRest
<1>3. ASSUME NEW c \in Cores, EndTxn(c) PROVE \A d \in Cores : Moved(d)
  <2>1. OthersSame(c) /\ txn'[c].pc = "post"
    BY <1>3, EndTxnStep, EndTxnTypes
  <2> QED
    BY <1>3, <2>1, MovedRest DEF EndTxn
<1>4. ASSUME UNCHANGED <<txn, region>> PROVE \A d \in Cores : Moved(d)
  BY <1>4, MovedSame
<1>5. ASSUME RcuFree \/ Tick \/ UNCHANGED vvars \/ \E c \in Cores : FreeVersion(c)
      PROVE  \A d \in Cores : Moved(d)
  BY <1>4, <1>5 DEF RcuFree, Tick, vvars, vars, FreeVersion, Advance, DeclareOver
<1> QED
  BY <1>1, <1>2, <1>3, <1>5, BeginMoves, ReadMoves, WriteMoves, ReleaseMoves DEF VersionsNext, TxnStep, CollectStep

(***************************************************************************)
(* The first tick after a read-only tick: once it is over, nothing of the  *)
(* read-only tick is needed any more.                                      *)
(***************************************************************************)
Past(tick) == M * tick + M

LEMMA PastIs ==
    ASSUME NEW p \in Nat, NEW q \in Nat
    PROVE  /\ Past(p) \in Nat /\ M <= Past(p)
           /\ p <= q => Past(p) <= Past(q)
           /\ p < q => Past(p) <= M * q
<1>1. M * p \in Nat /\ M * q \in Nat /\ (p <= q => M * p <= M * q) /\ M \in Nat \ {0}
  BY Spans, Product
<1>2. M * (p + 1) = M * p + M
  BY <1>1, SMTT(30)
<1>3. p < q => M * (p + 1) <= M * q
  <2>1. p < q => p + 1 <= q
    OBVIOUS
  <2>2. p + 1 \in Nat
    OBVIOUS
  <2> QED
    BY <1>1, <2>1, <2>2, Product
<1> QED
  BY <1>1, <1>2, <1>3 DEF Past

LEMMA TickPast ==
    ASSUME NEW a \in Nat
    PROVE  to_read_only_tick(a) \in Nat /\ a < Past(to_read_only_tick(a))
BY ReadOnly DEF Past

LEMMA RoTickIs ==
    ASSUME NEW v \in Nat
    PROVE  RoTick(v) \in Nat /\ EpochId(v) \in Nat /\ EpochId(v) < Past(RoTick(v))
BY EpochMono, TickPast DEF RoTick

(* The ids above a snapshot's are of read-only ticks that are not over.    *)
LEMMA LastTid ==
    ASSUME NEW b \in Nat \ {0}
    PROVE  MakeTid(CoreSpan - 1, NumSpan - 1, b - 1) + 1 = Span * b /\ Span * b \in Nat
<1> DEFINE u == NumSpan * (b - 1)
<1>1. NumSpan \in Nat \ {0} /\ CoreSpan \in Nat \ {0} /\ b - 1 \in Nat
  BY Spans
<1>2. u \in Nat /\ NumSpan * b = u + NumSpan
  BY <1>1, SMTT(30)
<1>3. (NumSpan - 1) + u + 1 = NumSpan * b /\ (NumSpan - 1) + u \in Nat /\ NumSpan * b \in Nat
  BY <1>1, <1>2
<1> DEFINE w == (NumSpan - 1) + u
<1>4. CoreSpan * (w + 1) = CoreSpan * w + CoreSpan /\ CoreSpan * w \in Nat
  BY <1>1, <1>3, SMTT(30)
<1>5. MakeTid(CoreSpan - 1, NumSpan - 1, b - 1) = (CoreSpan - 1) + CoreSpan * w
  BY DEF MakeTid
<1>6. w + 1 = NumSpan * b
  BY <1>3
<1>7. CoreSpan * (NumSpan * b) = Span * b
  BY <1>1, Product DEF Span
<1> HIDE DEF w, u
<1>8. (CoreSpan - 1) + CoreSpan * w + 1 = CoreSpan * (w + 1)
  BY <1>1, <1>4
<1>9. Span * b \in Nat
  BY <1>1, <1>4, <1>6, <1>7
<1> QED
  BY <1>5, <1>6, <1>7, <1>8, <1>9

LEMMA SnapshotPast ==
    ASSUME NEW o \in Nat, NEW v \in Nat, v > ComputeReadOnlyTid(o + 1)
    PROVE  o + 2 <= Past(RoTick(v))
<1> DEFINE q == to_read_only_tick(o + 1)
           b == q * M
<1>1. q \in Nat /\ M \in Nat \ {0} /\ M * q \in Nat /\ o + 1 < M * q + M /\ o + 1 \in Nat
  BY ReadOnly, Spans
<1>2. b = M * q
  BY <1>1, SMTT(30)
<1>3. ComputeReadOnlyTid(o + 1) = IF b = 0 THEN MakeTid(0, 0, 0) ELSE MakeTid(CoreSpan - 1, NumSpan - 1, b - 1)
  BY DEF ComputeReadOnlyTid, M
<1>4. RoTick(v) \in Nat /\ EpochId(v) \in Nat
  BY RoTickIs
<1> HIDE DEF q
<1>5. CASE b = 0
  <2>1. o + 2 <= M
    BY <1>1, <1>2, <1>5
  <2>2. M <= Past(RoTick(v)) /\ Past(RoTick(v)) \in Nat
    BY <1>4, PastIs
  <2> QED
    BY <1>1, <2>1, <2>2
<1>6. CASE b # 0
  <2>1. b \in Nat \ {0}
    BY <1>1, <1>2, <1>6
  <2> HIDE DEF b
  <2>2. Span * b <= v /\ Span * b \in Nat
    <3>1. MakeTid(CoreSpan - 1, NumSpan - 1, b - 1) + 1 = Span * b /\ Span * b \in Nat
      BY <2>1, LastTid
    <3>2. v > MakeTid(CoreSpan - 1, NumSpan - 1, b - 1)
      BY <1>3, <1>6
    <3>3. MakeTid(CoreSpan - 1, NumSpan - 1, b - 1) \in Nat
      BY <1>3, <1>6, <1>1, ReadOnlyTid
    <3> QED
      BY <3>1, <3>2, <3>3
  <2>3. b <= EpochId(v)
    <3>1. (Span * b) \div Span = b
      <4>1. Span * b < Span * (b + 1)
        BY <2>1, Spans, SMTT(30)
      <4> QED
        BY <2>1, <2>2, <4>1, Spans, QuotientIs
    <3>2. (Span * b) \div Span <= v \div Span
      BY <2>2, Spans, QuotientMono
    <3> QED
      BY <3>1, <3>2 DEF EpochId, Span
  <2>4. to_read_only_tick(b) = q
    <3>1. M * q < M * (q + 1)
      BY <1>1, SMTT(30)
    <3>2. (M * q) \div M = q
      BY <1>1, <3>1, QuotientIs
    <3> QED
      BY <1>2, <3>2 DEF to_read_only_tick, M
  <2>5. q <= RoTick(v)
    BY <1>4, <2>1, <2>3, <2>4, ReadOnly DEF RoTick
  <2>6. Past(q) <= Past(RoTick(v)) /\ Past(q) \in Nat /\ Past(RoTick(v)) \in Nat
    BY <1>1, <1>4, <2>5, PastIs
  <2>7. o + 2 <= Past(q)
    BY <1>1 DEF Past
  <2> QED
    BY <1>1, <2>6, <2>7
<1> QED
  BY <1>5, <1>6

(***************************************************************************)
(* When a version can still be reached, and when it is freed.              *)
(***************************************************************************)
(* What a core collects is of read-only ticks that are over.               *)
TakenOver == \A c \in Cores : \A e \in Entries : Taken(c, e) => Past(e.tick) <= over
(* Who has hold of a queued version began before its read-only tick ended. *)
QueuedUses ==
    \A c, d \in Cores : \A e \in Entries :
       Listed(c, e) /\ ~e.key /\ Uses(d, e.tuple) => region[d] <= Past(e.tick)
(* Who has hold of a retired tuple is one that RCU waits for.              *)
RetiredUses == \A c \in Cores : \A r \in retired : Uses(c, r.tuple) => c \in r.regions
FreedUses == \A c \in Cores : \A i \in freed : ~Uses(c, i)
(* A version behind one of id v: it waits for the read-only tick of v.     *)
BehindOf(v, j) ==
    /\ j \in DOMAIN heap /\ ~heap[j].latest /\ ~Retired(j)
    /\ \A c \in Cores : \A e \in Entries : Listed(c, e) /\ ~e.key /\ e.tuple = j => RoTick(v) <= e.tick
    /\ j \in freed => Past(RoTick(v)) <= over
Behind == \A i, j \in DOMAIN heap : \A v \in Nat : heap[i].version = v /\ heap[i].next = j => BehindOf(v, j)
(* A snapshot needs no version that one of id v > t replaced once the      *)
(* read-only tick of v is over: its transaction began before that.         *)
SnapshotEnds ==
    \A c \in Cores : SnapshotTaken(c) =>
       \A v \in Nat : v > txn[c].t => region[c] <= Past(RoTick(v))
Positive == \A i \in DOMAIN heap : heap[i].version > 0
Timed == Positive /\ TakenOver /\ QueuedUses /\ RetiredUses /\ FreedUses /\ Behind /\ SnapshotEnds

LEMMA OverNext ==
    ASSUME Types, Types', [VersionsNext]_vvars
    PROVE  over \in Nat /\ over' \in Nat /\ over <= over'
<1>1. over \in Nat /\ over' \in Nat /\ over \in {now - 2, now - 1} /\ now \in Nat
  BY Spans DEF Types, MiscTypes
<1>2. over' = over \/ over' = now - 1
  <2>1. ASSUME Tick PROVE over' = over \/ over' = now - 1
    BY <2>1 DEF Tick, Advance, DeclareOver
  <2>2. ASSUME NEW c \in Cores, Start(c) \/ End(c) \/ UNCHANGED vars PROVE over' = over
    BY <2>2 DEF Start, End, vars
  <2>3. ASSUME NEW c \in Cores, Begin(c) \/ TxnStep(c) \/ CollectStep(c)
        PROVE  Start(c) \/ End(c) \/ UNCHANGED vars
    <3>1. CASE Begin(c)
      BY <3>1 DEF Begin
    <3>2. CASE TxnStep(c)
      <4>1. ASSUME NEW k \in Keys, Access(c, k) \/ FindHead(c, k) PROVE UNCHANGED vars
        BY <4>1 DEF Access, FindHead
      <4>2. ASSUME NEW k \in Keys, NEW delete \in Deletes[c], InstallInPlace(c, k, delete) \/ InstallReplacement(c, k, delete)
            PROVE  UNCHANGED vars
        BY <4>2 DEF InstallInPlace, InstallReplacement, Installed
      <4>3. ASSUME LockWrites(c) \/ Validate(c) \/ Abort(c) \/ gen_commit_tid(c)
            PROVE  End(c) \/ UNCHANGED vars
        BY <4>3 DEF LockWrites, Validate, Abort, gen_commit_tid
      <4>4. ASSUME TakeSnapshot(c) \/ Walk(c) \/ EndSnapshot(c) \/ EndTxn(c)
            PROVE  End(c) \/ UNCHANGED vars
        BY <4>4 DEF TakeSnapshot, Walk, EndSnapshot, EndTxn
      <4> QED
        BY <3>2, <4>1, <4>2, <4>3, <4>4 DEF TxnStep
    <3>3. CASE CollectStep(c)
      BY <3>3 DEF CollectStep, on_post_rcu_region_completion, FreeVersion, McsAcquire, SpinLock, Requeue,
           StillTombstone, RemoveTombstone, McsRelease, Collected
    <3> QED
      BY <2>3, <3>1, <3>2, <3>3
  <2>4. CASE RcuFree \/ UNCHANGED vvars
    BY <2>4 DEF RcuFree, vvars, vars
  <2> QED
    BY <2>1, <2>2, <2>3, <2>4 DEF VersionsNext
<1> QED
  BY <1>1, <1>2

LEMMA FreedNext ==
    ASSUME Types, Types', [VersionsNext]_vvars, NEW i \in freed'
    PROVE  \/ i \in freed
           \/ \E c \in Cores : FreeVersion(c) /\ i = Tombstone(c)
           \/ \E r \in retired : r.regions = {} /\ r.tuple = i
<1>1. ASSUME NEW c \in Cores, NEW k \in Keys, NEW delete \in Deletes[c],
             InstallInPlace(c, k, delete) \/ InstallReplacement(c, k, delete)
      PROVE  freed' = freed
  BY <1>1 DEF InstallInPlace, InstallReplacement, Installed
<1>2. ASSUME NEW c \in Cores, RemoveTombstone(c) \/ Requeue(c) \/ on_post_rcu_region_completion(c) PROVE freed' = freed
  BY <1>2 DEF RemoveTombstone, Requeue, on_post_rcu_region_completion, SameGc, gc
<1>3. ASSUME NEW c \in Cores, FreeVersion(c) PROVE freed' = freed \cup {Tombstone(c)}
  BY <1>3 DEF FreeVersion, Tombstone
<1>4. ASSUME NEW c \in Cores, Quiet(c) PROVE freed' = freed
  BY <1>4, QuietStill DEF Still
<1>5. ASSUME RcuFree PROVE i \in freed \/ \E r \in retired : r.regions = {} /\ r.tuple = i
  BY <1>5 DEF RcuFree
<1>6. ASSUME Tick \/ UNCHANGED vvars PROVE freed' = freed
  BY <1>6, ClockStill DEF Still
<1> QED
  BY <1>1, <1>2, <1>3, <1>4, <1>5, <1>6, Kinds

LEMMA TakenNext ==
    ASSUME Types, Types', [VersionsNext]_vvars, NEW c \in Cores, NEW e \in Entries, Taken(c, e)'
    PROVE  Taken(c, e) \/ Past(e.tick) <= over
<1>1. ASSUME scratch' = scratch PROVE Taken(c, e)
  BY <1>1 DEF Taken
<1>2. ASSUME NEW d \in Cores, NEW k \in Keys, NEW delete \in Deletes[d],
             InstallInPlace(d, k, delete) \/ InstallReplacement(d, k, delete)
      PROVE  scratch' = scratch
  BY <1>2 DEF InstallInPlace, InstallReplacement, Installed
<1>3. ASSUME NEW d \in Cores, RemoveTombstone(d) \/ Requeue(d) PROVE scratch' = scratch
  BY <1>3 DEF RemoveTombstone, Requeue
<1>4. ASSUME NEW d \in Cores, FreeVersion(d) PROVE Taken(c, e)
  <2> DEFINE q == scratch[d]
  <2>1. q \in Seq(Entries) /\ q # <<>> /\ scratch' = [scratch EXCEPT ![d] = Tail(@)]
    BY <1>4 DEF FreeVersion, Types, GcTypes
  <2>2. scratch'[d] = Tail(q) /\ \A x \in Cores \ {d} : scratch'[x] = scratch[x]
    BY <2>1, ScratchTail
  <2> HIDE DEF q
  <2>3. DOMAIN Tail(q) = 1..(Len(q) - 1) /\ \A i \in 1..(Len(q) - 1) : Tail(q)[i] = q[i + 1] /\ i + 1 \in DOMAIN q
    BY <2>1, TailSeq
  <2>4. \A i \in DOMAIN scratch'[d] : i + 1 \in DOMAIN q /\ scratch'[d][i] = q[i + 1]
    BY <2>2, <2>3
  <2> QED
    BY <2>2, <2>4 DEF Taken, q
<1>5. ASSUME NEW d \in Cores, on_post_rcu_region_completion(d) PROVE Taken(c, e) \/ Past(e.tick) <= over
  <2>1. CASE SameGc
    BY <1>1, <2>1 DEF SameGc, gc
  <2>2. ASSUME NEW n \in 0..Len(queue[d]), UpToIs(queue[d], ro_tick_ex - 1, n),
               scratch' = [scratch EXCEPT ![d] = SubSeq(queue[d], 1, n)]
        PROVE  Taken(c, e) \/ Past(e.tick) <= over
    <3> DEFINE q == queue[d]
               a == SubSeq(q, 1, n)
    <3>1. q \in Seq(Entries) /\ n \in 0..Len(q)
      BY <2>2 DEF Types, GcTypes
    <3>2. scratch'[d] = a /\ \A x \in Cores \ {d} : scratch'[x] = scratch[x]
      BY <2>2 DEF Types, GcTypes
    <3>3. \A i \in 1..n : q[i].tick <= ro_tick_ex - 1
      BY <2>2 DEF UpToIs, UpTo
    <3> HIDE DEF q
    <3>4. DOMAIN a = 1..n /\ \A i \in 1..n : a[i] = q[i]
      BY <3>1, SplitSeq
    <3>5. CASE c # d
      BY <3>2, <3>5 DEF Taken
    <3>6. CASE c = d
      <4>1. PICK i \in DOMAIN a : e = a[i]
        BY <3>2, <3>6 DEF Taken
      <4>2. e.tick <= ro_tick_ex - 1
        BY <3>3, <3>4, <4>1
      <4>3. ro_tick_ex = to_read_only_tick(over) /\ over \in Nat
        <5>1. over + 1 - 1 = over /\ over \in Nat
          BY DEF Types, MiscTypes
        <5> QED
          BY <5>1 DEF ro_tick_ex, global_last_tick_exclusive
      <4>4. ro_tick_ex \in Nat /\ M * ro_tick_ex <= over /\ M * ro_tick_ex \in Nat
        BY <4>3, ReadOnly
      <4>5. e.tick \in Nat
        BY DEF Entries
      <4>6. e.tick < ro_tick_ex
        BY <4>2, <4>4, <4>5
      <4>7. Past(e.tick) <= M * ro_tick_ex /\ Past(e.tick) \in Nat
        BY <4>4, <4>5, <4>6, PastIs
      <4> QED
        BY <4>3, <4>4, <4>7
    <3> QED
      BY <3>5, <3>6
  <2> QED
    BY <1>5, <2>1, <2>2, TakeStep
<1>6. ASSUME NEW d \in Cores, Quiet(d) PROVE Taken(c, e)
  BY <1>6, QuietStill DEF Still
<1>7. ASSUME RcuFree PROVE scratch' = scratch
  BY <1>7 DEF RcuFree
<1>8. ASSUME Tick \/ UNCHANGED vvars PROVE Taken(c, e)
  BY <1>8, ClockStill DEF Still
<1> QED
  BY <1>1, <1>2, <1>3, <1>4, <1>5, <1>6, <1>7, <1>8, Kinds

(***************************************************************************)
(* Time: what RCU waits for, what is taken, and what a snapshot still      *)
(* needs.                                                                  *)
(***************************************************************************)
(* What is retired was, by regions that are over or have nothing, or is    *)
(* the tombstone removed.                                                  *)
RegionsLeft(r, s) == s.tuple = r.tuple /\ \A d \in r.regions : d \in s.regions \/ Unused(d)'

LEMMA RegionOverLeft ==
    ASSUME Types, Types', NEW c \in Cores, retired' = RegionOver(c), txn'[c].pc \in {"post", "idle"}, NEW s \in retired'
    PROVE  \E r \in retired : RegionsLeft(r, s)
<1>1. Unused(c)'
  BY IdleShape DEF Types, TxnTypes, Unused
<1>2. PICK r \in retired : s = [r EXCEPT !.regions = @ \ {c}]
  BY DEF RegionOver
<1>3. r \in [tuple : DOMAIN heap, regions : SUBSET Cores]
  BY DEF Types, GcTypes
<1>4. s.tuple = r.tuple /\ s.regions = r.regions \ {c}
  BY <1>2, <1>3
<1> QED
  BY <1>1, <1>4 DEF RegionsLeft

LEMMA RetiredNext ==
    ASSUME Types, Types', [VersionsNext]_vvars, NEW s \in retired'
    PROVE  \/ \E r \in retired : RegionsLeft(r, s)
           \/ \E c \in Cores : /\ RemoveTombstone(c) /\ s.tuple = Tombstone(c)
                               /\ s.regions = {d \in Cores : region[d] # None}
<1>1. ASSUME retired' \subseteq retired PROVE \E r \in retired : RegionsLeft(r, s)
  BY <1>1 DEF RegionsLeft
<1>2. ASSUME NEW c \in Cores, Begin(c) \/ TxnStep(c) \/ CollectStep(c), ~EndTxn(c), ~Collected(c), ~RemoveTombstone(c)
      PROVE  retired' = retired
  <2>1. CASE Begin(c)
    BY <2>1 DEF Begin, SameGc, gc
  <2>2. CASE TxnStep(c)
    <3>1. ASSUME NEW k \in Keys, Access(c, k) \/ FindHead(c, k) PROVE retired' = retired
      BY <3>1 DEF Access, FindHead, SameGc, gc
    <3>2. ASSUME NEW k \in Keys, NEW delete \in Deletes[c], InstallInPlace(c, k, delete) \/ InstallReplacement(c, k, delete)
          PROVE  retired' = retired
      BY <3>2 DEF InstallInPlace, InstallReplacement, Installed
    <3>3. ASSUME LockWrites(c) \/ Validate(c) \/ Abort(c) \/ gen_commit_tid(c)
          PROVE  retired' = retired
      BY <3>3 DEF LockWrites, Validate, Abort, gen_commit_tid, SameGc, gc
    <3>4. ASSUME TakeSnapshot(c) \/ Walk(c) \/ EndSnapshot(c) PROVE retired' = retired
      BY <3>4 DEF TakeSnapshot, Walk, EndSnapshot, SameGc, gc
    <3> QED
      BY <1>2, <2>2, <3>1, <3>2, <3>3, <3>4 DEF TxnStep
  <2>3. CASE CollectStep(c)
    BY <1>2, <2>3 DEF CollectStep, on_post_rcu_region_completion, FreeVersion, McsAcquire, SpinLock, Requeue,
         StillTombstone, McsRelease, SameGc, gc
  <2> QED
    BY <1>2, <2>1, <2>2, <2>3
<1>3. ASSUME NEW c \in Cores, EndTxn(c) PROVE \E r \in retired : RegionsLeft(r, s)
  <2>1. retired' = RegionOver(c) /\ txn'[c].pc = "post"
    BY <1>3, EndTxnTypes DEF EndTxn
  <2> QED
    BY <2>1, RegionOverLeft
<1>4. ASSUME NEW c \in Cores, Collected(c) PROVE \E r \in retired : RegionsLeft(r, s)
  <2>1. "idle" \in Pcs /\ Go(c, "idle") /\ (retired' = retired \/ retired' = RegionOver(c))
    BY <1>4, PcsIn DEF Collected
  <2>2. txn'[c].pc = "idle"
    BY <2>1, GoMoves DEF MovedTo
  <2> QED
    BY <1>1, <2>1, <2>2, RegionOverLeft
<1>5. ASSUME NEW c \in Cores, RemoveTombstone(c)
      PROVE  \/ \E r \in retired : RegionsLeft(r, s)
             \/ s.tuple = Tombstone(c) /\ s.regions = {d \in Cores : region[d] # None}
  <2>1. s \in retired \/ s = [tuple |-> Tombstone(c), regions |-> {d \in Cores : region[d] # None}]
    BY <1>5 DEF RemoveTombstone
  <2> QED
    BY <2>1 DEF RegionsLeft
<1>6. ASSUME RcuFree \/ Tick \/ UNCHANGED vvars PROVE retired' \subseteq retired
  BY <1>6 DEF RcuFree, Tick, vvars, SameGc, gc
<1> QED
  BY <1>1, <1>2, <1>3, <1>4, <1>5, <1>6 DEF VersionsNext

(* What a transaction has hold of after a step.                            *)
WalksTo(d, i) ==
    /\ txn[d].pc = "walk" /\ txn[d].at \in DOMAIN heap /\ heap[txn[d].at].version > txn[d].t
    /\ heap[txn[d].at].next = i

LEMMA UsesNext ==
    ASSUME Types, Types', [VersionsNext]_vvars, NEW d \in Cores, NEW i \in Nat \ {Nil}, Uses(d, i)'
    PROVE  /\ region'[d] = region[d] /\ region[d] \in Nat /\ region[d] <= now /\ now \in Nat
           /\ region[d] # None /\ over < region[d] /\ over \in Nat
           /\ Uses(d, i) \/ WalksTo(d, i) \/ \E k \in Keys : tree[k] = i
<1>1. Moved(d) /\ FoundIn(d)
  BY MovedNext, FoundNext
<1>2. ~Unused(d)'
  BY DEF Unused, Uses
<1>3. region'[d] = region[d]
  BY <1>1, <1>2 DEF Moved, RegionKept
<1>4. region[d] \in Nat /\ region[d] <= now /\ now \in Nat
  BY Spans DEF Types, MiscTypes, None
<1>7. region[d] # None /\ over < region[d] /\ over \in Nat
  <2>1. txn'[d].pc \in Pcs /\ txn'[d].pc \notin Collecting \cup {"idle", "post"}
    BY <1>2, IdleShape, TxnFields DEF Types, TxnTypes, Unused
  <2>2. txn'[d].pc \in Active
    BY <2>1 DEF Pcs, Active
  <2>3. region'[d] # None
    BY <2>2 DEF Types, MiscTypes, Active
  <2> QED
    BY <1>3, <2>3 DEF Types, MiscTypes
<1>5. ASSUME txn'[d].at = i PROVE Uses(d, i) \/ WalksTo(d, i) \/ \E k \in Keys : tree[k] = i
  <2>1. FoundAt(d) /\ txn'[d].at # Nil
    BY <1>1, <1>5 DEF Moved
  <2>2. CASE txn'[d].at = txn[d].at
    BY <1>5, <2>2 DEF Uses
  <2>3. CASE txn'[d].at # txn[d].at
    BY <1>5, <2>1, <2>3 DEF FoundAt, WalksTo
  <2> QED
    BY <2>2, <2>3
<1>6. ASSUME NEW k \in DOMAIN txn'[d].refs, txn'[d].refs[k] = i PROVE Uses(d, i) \/ \E j \in Keys : tree[j] = i
  BY <1>1, <1>6 DEF FoundIn, Uses
<1> QED
  BY <1>3, <1>4, <1>5, <1>6, <1>7 DEF Uses

LEMMA SnapshotEndsNext ==
    ASSUME Types, Types', SnapshotEnds, [VersionsNext]_vvars
    PROVE  SnapshotEnds'
<1> SUFFICES ASSUME NEW d \in Cores, SnapshotTaken(d)', NEW v \in Nat, v > txn'[d].t
             PROVE  region'[d] <= Past(RoTick(v))
  <2>1. (\A d \in Cores : SnapshotTaken(d)' => \A v \in Nat : v > txn'[d].t => region'[d] <= Past(RoTick(v)))
          => SnapshotEnds'
    BY DEF SnapshotEnds, Past, RoTick, to_read_only_tick, EpochId, M
  <2> QED
    BY <2>1
<1>1. Moved(d)
  BY MovedNext
<1>2. region'[d] = region[d]
  BY <1>1 DEF Moved, RegionKept
<1>3. CASE SnapshotTaken(d) /\ txn'[d].t = txn[d].t
  BY <1>2, <1>3 DEF SnapshotEnds
<1>4. CASE txn'[d].t = ComputeReadOnlyTid(over + 1)
  <2>1. /\ over \in Nat /\ now \in Nat /\ region[d] \in Nat /\ now <= over + 2 /\ region[d] <= now
    BY Spans DEF Types, MiscTypes, None
  <2>2. over + 2 <= Past(RoTick(v))
    BY <1>4, <2>1, SnapshotPast
  <2>3. Past(RoTick(v)) \in Nat
    BY RoTickIs, PastIs
  <2> QED
    BY <1>2, <2>1, <2>2, <2>3
<1> QED
  BY <1>1, <1>3, <1>4 DEF Moved, SnapshotKept

LEMMA TakenOverNext ==
    ASSUME Types, Types', TakenOver, [VersionsNext]_vvars
    PROVE  TakenOver'
<1>1. ASSUME NEW c \in Cores, NEW e \in Entries, Taken(c, e)' PROVE Past(e.tick) <= over'
  <2>1. Past(e.tick) <= over
    BY <1>1, TakenNext DEF TakenOver
  <2>2. e.tick \in Nat
    BY DEF Entries
  <2>3. Past(e.tick) \in Nat
    BY <2>2, PastIs
  <2> QED
    BY <2>1, <2>3, OverNext
<1> QED
  BY <1>1 DEF TakenOver, Past, M

(* An id of a transaction that installs.                                   *)
LEMMA InstallTid ==
    ASSUME Types, Stamps, NEW c \in Cores, txn[c].pc = "install"
    PROVE  /\ txn[c].t \in Nat /\ txn[c].t > 0
           /\ EpochId(txn[c].t) \in Nat /\ EpochId(txn[c].t) <= now /\ now <= EpochId(txn[c].t) + 1
<1> DEFINE t == txn[c].t
<1>1. t \in Nat /\ t = last_commit_tid[c] /\ region[c] <= EpochId(t)
  BY TxnFields DEF Types, TxnTypes, Stamps
<1>2. EpochId(t) \in Nat /\ EpochId(t) <= now
  BY <1>1, EpochMono DEF Stamps, Numbered
<1>3. region[c] # None
  BY DEF Types, MiscTypes, Writing
<1>4. over \in Nat /\ over < region[c] /\ region[c] \in Nat /\ now \in Nat /\ now <= over + 2
  BY <1>3, Spans DEF Types, MiscTypes
<1>5. EpochId(0) = 0
  <2>1. 0 = MakeTid(0, 0, 0)
    BY Spans, Product DEF MakeTid
  <2>2. 0 \in 0..(CoreSpan - 1) /\ 0 \in 0..(NumSpan - 1)
    BY Spans
  <2> QED
    BY <2>1, <2>2, TidFields
<1> HIDE DEF t
<1>6. t # 0
  BY <1>1, <1>2, <1>4, <1>5
<1> QED
  BY <1>1, <1>2, <1>4, <1>6 DEF t

(***************************************************************************)
(* Time: nothing freed or retired is in use.                               *)
(***************************************************************************)
LEMMA OldDue ==
    ASSUME Types, NEW c \in Cores, NEW e, Listed(c, e), ~e.key
    PROVE  Due(c, e)
<1>1. CASE \E n \in DOMAIN queue[c] : e = queue[c][n]
  BY <1>1 DEF Due
<1>2. ASSUME NEW n \in DOMAIN scratch[c], e = scratch[c][n] PROVE \E m \in DOMAIN Pending(c) : e = Pending(c)[m]
  <2> DEFINE q == scratch[c]
  <2>1. CASE txn[c].pc # "release"
    BY <1>2, <2>1 DEF Pending
  <2>2. CASE txn[c].pc = "release"
    <3>1. q \in Seq(Entries) /\ q # <<>> /\ Head(q).key /\ n \in DOMAIN q /\ e = q[n]
      BY <1>2, <2>2 DEF Types, GcTypes, Examining
    <3> HIDE DEF q
    <3>2. /\ DOMAIN Tail(q) = 1..(Len(q) - 1) /\ DOMAIN q = 1..Len(q) /\ Head(q) = q[1] /\ Len(q) \in Nat
          /\ \A i \in 1..(Len(q) - 1) : Tail(q)[i] = q[i + 1]
      BY <3>1, TailSeq
    <3>3. n # 1
      BY <3>1, <3>2
    <3>4. n - 1 \in DOMAIN Tail(q) /\ Tail(q)[n - 1] = q[n]
      <4>1. n \in 1..Len(q) /\ n - 1 \in 1..(Len(q) - 1) /\ (n - 1) + 1 = n
        BY <3>1, <3>2, <3>3
      <4> QED
        BY <3>2, <4>1
    <3>5. Pending(c) = Tail(q)
      BY <2>2 DEF Pending, q
    <3> QED
      BY <3>1, <3>4, <3>5
  <2> QED
    BY <2>1, <2>2
<1> QED
  BY <1>1, <1>2 DEF Listed, Due

LEMMA TreeLatest ==
    ASSUME Types, Locks, Places, NEW k \in Keys, NEW i, tree[k] = i, i # Nil
    PROVE  /\ i \in DOMAIN heap /\ heap[i].latest /\ ~Retired(i) /\ i \notin freed
           /\ \A c \in Cores : \A e \in Entries : Listed(c, e) /\ ~e.key => e.tuple # i
<1>1. i \in DOMAIN heap /\ heap[i].latest
  BY DEF Types, HeapTypes, Locks, Rooted
<1>2. ~Retired(i) /\ i \notin freed
  BY <1>1 DEF Places, Placed
<1>3. ASSUME NEW c \in Cores, NEW e \in Entries, Listed(c, e), ~e.key PROVE e.tuple # i
  <2>1. ~heap[e.tuple].latest
    BY <1>3, OldDue DEF Places, Placed
  <2> QED
    BY <1>1, <2>1
<1> QED
  BY <1>1, <1>2, <1>3

(* A version a snapshot moves on to is still needed.                       *)
LEMMA WalkBehind ==
    ASSUME Types, Behind, SnapshotEnds, NEW d \in Cores, NEW i \in Nat \ {Nil}, WalksTo(d, i)
    PROVE  \E v \in Nat : BehindOf(v, i) /\ region[d] <= Past(RoTick(v))
<1> DEFINE p == txn[d].at
           v == heap[p].version
<1>1. p \in DOMAIN heap /\ v > txn[d].t /\ heap[p].next = i /\ txn[d].pc = "walk"
  BY DEF WalksTo
<1>2. v \in Nat
  BY <1>1, HeapLen, TupleFields DEF Types, HeapTypes
<1>3. BehindOf(v, i)
  <2>1. i \in DOMAIN heap
    BY <1>1 DEF Types, HeapTypes
  <2> QED
    BY <1>1, <1>2, <2>1 DEF Behind
<1>4. SnapshotTaken(d)
  BY <1>1 DEF SnapshotTaken, Types, TxnTypes, Shape, Reading
<1> HIDE DEF v
<1>5. region[d] <= Past(RoTick(v))
  BY <1>1, <1>2, <1>4 DEF SnapshotEnds
<1> QED
  BY <1>2, <1>3, <1>5

LEMMA FreedHead ==
    ASSUME Types, TakenOver, NEW c \in Cores, FreeVersion(c)
    PROVE  \E e \in Entries : /\ e.tuple = Tombstone(c) /\ ~e.key /\ Listed(c, e) /\ e.tick \in Nat
                              /\ Past(e.tick) \in Nat /\ Past(e.tick) <= over /\ Tombstone(c) \in DOMAIN heap
<1>1. scratch[c] # <<>> /\ ~Head(scratch[c]).key
  BY DEF FreeVersion
<1>2. /\ Head(scratch[c]) \in Entries /\ Head(scratch[c]) = scratch[c][1] /\ 1 \in DOMAIN scratch[c]
      /\ Tombstone(c) \in DOMAIN heap
  BY <1>1, TombstoneTypes
<1> DEFINE e == Head(scratch[c])
<1>3. Listed(c, e) /\ Taken(c, e) /\ e.tuple = Tombstone(c)
  BY <1>2 DEF Listed, Taken, Tombstone
<1>4. e \in Entries /\ ~e.key
  BY <1>1, <1>2
<1> HIDE DEF e
<1>5. e.tick \in Nat
  BY <1>4 DEF Entries
<1>6. Past(e.tick) \in Nat /\ Past(e.tick) <= over
  BY <1>3, <1>4, <1>5, PastIs DEF TakenOver
<1> QED
  BY <1>2, <1>3, <1>4, <1>5, <1>6

LEMMA FreedUsesNext ==
    ASSUME Types, Types', Locks, Places, Timed, [VersionsNext]_vvars
    PROVE  FreedUses'
<1> SUFFICES ASSUME NEW d \in Cores, NEW i \in freed', Uses(d, i)' PROVE FALSE
  BY DEF FreedUses
<1>0. /\ TakenOver /\ QueuedUses /\ RetiredUses /\ FreedUses /\ Behind /\ SnapshotEnds
  BY DEF Timed
<1>1. i \in Nat \ {Nil}
  BY HeapLen DEF Types, HeapTypes, GcTypes
<1>2. /\ region[d] \in Nat /\ over < region[d] /\ over \in Nat
      /\ Uses(d, i) \/ WalksTo(d, i) \/ \E k \in Keys : tree[k] = i
  BY <1>1, UsesNext
<1>3. \/ i \in freed \/ Retired(i)
      \/ \E c \in Cores : FreeVersion(c) /\ i = Tombstone(c)
  BY FreedNext DEF Retired
<1>4. ASSUME NEW c \in Cores, FreeVersion(c), i = Tombstone(c)
      PROVE  \E e \in Entries : /\ e.tuple = i /\ ~e.key /\ Listed(c, e) /\ e.tick \in Nat
                                /\ Past(e.tick) \in Nat /\ Past(e.tick) <= over /\ i \in DOMAIN heap
  BY <1>0, <1>4, FreedHead
<1>5. CASE Uses(d, i)
  <2>1. i \notin freed
    BY <1>0, <1>5 DEF FreedUses
  <2>2. ASSUME NEW c \in Cores, FreeVersion(c), i = Tombstone(c) PROVE FALSE
    <3>1. PICK e \in Entries : /\ e.tuple = i /\ ~e.key /\ Listed(c, e)
                               /\ Past(e.tick) \in Nat /\ Past(e.tick) <= over
      BY <1>4, <2>2
    <3>2. region[d] <= Past(e.tick)
      BY <1>0, <1>5, <3>1 DEF QueuedUses
    <3> QED
      BY <1>2, <3>1, <3>2
  <2>3. ASSUME NEW r \in retired, r.regions = {}, r.tuple = i PROVE FALSE
    BY <1>0, <1>5, <2>3 DEF RetiredUses
  <2> QED
    BY <2>1, <2>2, <2>3, FreedNext
<1>6. CASE \E k \in Keys : tree[k] = i
  <2>1. i \notin freed /\ ~Retired(i)
        /\ \A c \in Cores : \A e \in Entries : Listed(c, e) /\ ~e.key => e.tuple # i
    BY <1>1, <1>6, TreeLatest
  <2> QED
    BY <1>3, <1>4, <2>1
<1>7. CASE WalksTo(d, i)
  <2>1. PICK v \in Nat : BehindOf(v, i) /\ region[d] <= Past(RoTick(v))
    BY <1>0, <1>1, <1>7, WalkBehind
  <2>2. RoTick(v) \in Nat /\ Past(RoTick(v)) \in Nat
    BY RoTickIs, PastIs
  <2>3. i \notin freed /\ ~Retired(i)
    BY <1>2, <2>1, <2>2 DEF BehindOf
  <2>4. PICK c \in Cores : FreeVersion(c) /\ i = Tombstone(c)
    BY <1>3, <2>3
  <2>5. PICK e \in Entries : /\ e.tuple = i /\ ~e.key /\ Listed(c, e) /\ e.tick \in Nat
                             /\ Past(e.tick) \in Nat /\ Past(e.tick) <= over
    BY <1>4, <2>4
  <2>6. RoTick(v) <= e.tick
    BY <2>1, <2>5 DEF BehindOf
  <2>7. Past(RoTick(v)) <= Past(e.tick)
    BY <2>2, <2>5, <2>6, PastIs
  <2> QED
    BY <1>2, <2>1, <2>2, <2>5, <2>7
<1> QED
  BY <1>2, <1>5, <1>6, <1>7

LEMMA RetiredUsesNext ==
    ASSUME Types, Types', Locks, Places, Timed, [VersionsNext]_vvars
    PROVE  RetiredUses'
<1> SUFFICES ASSUME NEW d \in Cores, NEW s \in retired', Uses(d, s.tuple)' PROVE d \in s.regions
  BY DEF RetiredUses
<1>0. RetiredUses /\ Behind /\ SnapshotEnds
  BY DEF Timed
<1> DEFINE i == s.tuple
<1>1. i \in Nat \ {Nil}
  BY HeapLen DEF Types, HeapTypes, GcTypes
<1>2. region[d] # None /\ (Uses(d, i) \/ WalksTo(d, i) \/ \E k \in Keys : tree[k] = i)
  BY <1>1, UsesNext
<1>3. ASSUME NEW r \in retired, RegionsLeft(r, s) PROVE d \in s.regions
  <2>1. r.tuple = i /\ Retired(i)
    BY <1>3 DEF RegionsLeft, Retired
  <2>2. Uses(d, i)
    <3>1. ~\E k \in Keys : tree[k] = i
      BY <1>1, <2>1, TreeLatest
    <3>2. ~WalksTo(d, i)
      BY <1>0, <1>1, <2>1, WalkBehind DEF BehindOf
    <3> QED
      BY <1>2, <3>1, <3>2
  <2>3. d \in r.regions
    BY <1>0, <2>1, <2>2 DEF RetiredUses
  <2>4. ~Unused(d)'
    BY <1>1 DEF Unused, Uses
  <2> QED
    BY <1>3, <2>3, <2>4 DEF RegionsLeft
<1> QED
  BY <1>2, <1>3, RetiredNext

(***************************************************************************)
(* Time: what is queued while somebody has hold of it.                     *)
(***************************************************************************)
(* Where an entry without a key comes from.                                *)
SpillEntry(c, e) ==
    /\ txn[c].pc = "install" /\ e.tick = CommitTick(c)
    /\ \E k \in Keys : \E delete \in Deletes[c] :
          \/ InstallInPlace(c, k, delete) /\ InPlaceNew(c, k, delete, e)
          \/ InstallReplacement(c, k, delete) /\ ReplacedNew(c, k, delete, e)
RequeueEntry(e) == e.tick = to_read_only_tick(now) /\ \E c \in Cores : Requeue(c)

LEMMA NewListed ==
    ASSUME Types, Types', [VersionsNext]_vvars, NEW d \in Cores, NEW e \in Entries, Listed(d, e)', ~e.key
    PROVE  Listed(d, e) \/ SpillEntry(d, e) \/ RequeueEntry(e)
<1>1. ASSUME NEW c \in Cores, NEW k \in Keys, NEW delete \in Deletes[c],
             InstallInPlace(c, k, delete) \/ InstallReplacement(c, k, delete)
      PROVE  Listed(d, e) \/ SpillEntry(d, e)
  <2>1. delete \in BOOLEAN
    BY DeleteBoolean
  <2>2. txn[c].pc = "install"
    BY <1>1 DEF InstallInPlace, InstallReplacement
  <2>3. CASE InstallInPlace(c, k, delete)
    <3>1. Listed(d, e) \/ (d = c /\ InPlaceNew(c, k, delete, e))
      BY <2>1, <2>3, InPlaceListed
    <3>2. InPlaceNew(c, k, delete, e) => e.tick = CommitTick(c)
      BY DEF InPlaceNew
    <3> QED
      BY <2>2, <2>3, <3>1, <3>2 DEF SpillEntry
  <2>4. CASE InstallReplacement(c, k, delete)
    <3>1. Listed(d, e) \/ (d = c /\ ReplacedNew(c, k, delete, e))
      BY <2>1, <2>4, ReplacedListed
    <3>2. ReplacedNew(c, k, delete, e) => e.tick = CommitTick(c)
      BY DEF ReplacedNew
    <3> QED
      BY <2>2, <2>4, <3>1, <3>2 DEF SpillEntry
  <2> QED
    BY <1>1, <2>3, <2>4
<1>2. ASSUME NEW c \in Cores, RemoveTombstone(c) PROVE Listed(d, e)
  BY <1>2, ListedSame DEF RemoveTombstone
<1>3. ASSUME NEW c \in Cores, Requeue(c) PROVE Listed(d, e) \/ RequeueEntry(e)
  <2>1. Listed(d, e) \/ e = RequeuedEntry(c)
    BY <1>3, RequeueListed
  <2>2. RequeuedEntry(c).tick = to_read_only_tick(now)
    BY DEF RequeuedEntry, Entry
  <2> QED
    BY <1>3, <2>1, <2>2 DEF RequeueEntry
<1>4. ASSUME NEW c \in Cores, FreeVersion(c) PROVE Listed(d, e)
  BY <1>4, DropListed DEF FreeVersion
<1>5. ASSUME NEW c \in Cores, on_post_rcu_region_completion(c) PROVE Listed(d, e)
  BY <1>5, TakeListed
<1>6. ASSUME NEW c \in Cores, Quiet(c) PROVE Listed(d, e)
  BY <1>6, QuietStill, StillListed
<1>7. ASSUME RcuFree PROVE Listed(d, e)
  BY <1>7, ListedSame DEF RcuFree
<1>8. ASSUME Tick \/ UNCHANGED vvars PROVE Listed(d, e)
  BY <1>8, ClockStill, StillListed
<1> QED
  BY <1>1, <1>2, <1>3, <1>4, <1>5, <1>6, <1>7, <1>8, Kinds

LEMMA CommitPast ==
    ASSUME Types, Stamps, NEW c \in Cores, txn[c].pc = "install"
    PROVE  CommitTick(c) = RoTick(txn[c].t) /\ CommitTick(c) \in Nat /\ now <= Past(CommitTick(c))
<1>1. /\ txn[c].t \in Nat /\ EpochId(txn[c].t) \in Nat /\ now <= EpochId(txn[c].t) + 1 /\ now \in Nat
  BY InstallTid, Spans DEF Types, MiscTypes
<1>2. RoTick(txn[c].t) \in Nat /\ EpochId(txn[c].t) < Past(RoTick(txn[c].t))
  BY <1>1, RoTickIs
<1>3. Past(RoTick(txn[c].t)) \in Nat
  BY <1>2, PastIs
<1>4. CommitTick(c) = RoTick(txn[c].t)
  BY DEF CommitTick, RoTick
<1> QED
  BY <1>1, <1>2, <1>3, <1>4

LEMMA QueuedUsesNext ==
    ASSUME Types, Types', Stamps, Locks, Places, Timed, [VersionsNext]_vvars
    PROVE  QueuedUses'
<1> SUFFICES ASSUME NEW c \in Cores, NEW d \in Cores, NEW e \in Entries, Listed(c, e)', ~e.key, Uses(d, e.tuple)'
             PROVE  region'[d] <= Past(e.tick)
  <2>1. (\A c, d \in Cores : \A e \in Entries : Listed(c, e)' /\ ~e.key /\ Uses(d, e.tuple)' => region'[d] <= Past(e.tick))
          => QueuedUses'
    BY DEF QueuedUses, Past, M
  <2> QED
    BY <2>1
<1>0. QueuedUses /\ Behind /\ SnapshotEnds
  BY DEF Timed
<1> DEFINE i == e.tuple
<1>1. i \in Nat \ {Nil}
  BY HeapLen DEF Types, HeapTypes, GcTypes, Listed
<1>2. /\ region'[d] = region[d] /\ region[d] \in Nat /\ region[d] <= now /\ now \in Nat
      /\ Uses(d, i) \/ WalksTo(d, i) \/ \E k \in Keys : tree[k] = i
  BY <1>1, UsesNext
<1>3. e.tick \in Nat
  BY DEF Entries
<1>4. Past(e.tick) \in Nat
  BY <1>3, PastIs
<1>5. CASE Listed(c, e)
  <2>1. CASE Uses(d, i)
    BY <1>0, <1>2, <1>5, <2>1 DEF QueuedUses
  <2>2. ~\E k \in Keys : tree[k] = i
    BY <1>1, <1>5, TreeLatest
  <2>3. CASE WalksTo(d, i)
    <3>1. PICK v \in Nat : BehindOf(v, i) /\ region[d] <= Past(RoTick(v))
      BY <1>0, <1>1, <2>3, WalkBehind
    <3>2. RoTick(v) <= e.tick
      BY <1>5, <3>1 DEF BehindOf
    <3>3. Past(RoTick(v)) <= Past(e.tick) /\ Past(RoTick(v)) \in Nat
      BY <1>3, <3>2, RoTickIs, PastIs
    <3> QED
      BY <1>2, <1>4, <3>1, <3>3
  <2> QED
    BY <1>2, <2>1, <2>2, <2>3
<1>6. CASE SpillEntry(c, e)
  <2>1. e.tick = CommitTick(c) /\ now <= Past(CommitTick(c))
    BY <1>6, CommitPast DEF SpillEntry
  <2> QED
    BY <1>2, <1>4, <2>1
<1>7. CASE RequeueEntry(e)
  <2>1. e.tick = to_read_only_tick(now) /\ now < Past(to_read_only_tick(now))
    BY <1>2, <1>7, TickPast DEF RequeueEntry
  <2> QED
    BY <1>2, <1>4, <2>1
<1> QED
  BY <1>5, <1>6, <1>7, NewListed

(* What is behind a version stays so.                                      *)
LEMMA BehindOfKept ==
    ASSUME Types, Types', Locks, TakenOver, [VersionsNext]_vvars,
           NEW v \in Nat, EpochId(v) <= now, NEW j, BehindOf(v, j), heap'[j].latest => heap[j].latest, j \in DOMAIN heap',
           \A c \in Cores : \A e \in Entries : SpillEntry(c, e) /\ ~e.key => e.tuple # j
    PROVE  BehindOf(v, j)'
<1>1. j \in DOMAIN heap /\ ~heap[j].latest /\ ~Retired(j)
  BY DEF BehindOf
<1>2. RoTick(v) \in Nat /\ Past(RoTick(v)) \in Nat /\ EpochId(v) \in Nat
  BY RoTickIs, PastIs
<1>3. ~Retired(j)'
  <2> SUFFICES ASSUME NEW s \in retired', s.tuple = j PROVE FALSE
    BY DEF Retired
  <2>1. ASSUME NEW r \in retired, RegionsLeft(r, s) PROVE FALSE
    BY <1>1, <2>1 DEF RegionsLeft, Retired
  <2>2. ASSUME NEW c \in Cores, RemoveTombstone(c), s.tuple = Tombstone(c) PROVE FALSE
    BY <1>1, <2>2, RemovesLatest
  <2> QED
    BY <2>1, <2>2, RetiredNext
<1>4. ASSUME NEW c \in Cores, NEW e \in Entries, Listed(c, e)', ~e.key, e.tuple = j PROVE RoTick(v) <= e.tick
  <2>1. CASE Listed(c, e)
    BY <1>4, <2>1 DEF BehindOf
  <2>2. CASE RequeueEntry(e)
    <3>1. now \in Nat /\ e.tick = to_read_only_tick(now)
      BY <2>2, Spans DEF RequeueEntry, Types, MiscTypes
    <3>2. to_read_only_tick(EpochId(v)) <= to_read_only_tick(now)
      BY <1>2, <3>1, ReadOnly
    <3> QED
      BY <3>1, <3>2 DEF RoTick
  <2> QED
    BY <1>4, <2>1, <2>2, NewListed
<1>5. ASSUME j \in freed' PROVE Past(RoTick(v)) <= over'
  <2>1. over \in Nat /\ over' \in Nat /\ over <= over'
    BY OverNext
  <2>2. Past(RoTick(v)) <= over
    <3>1. CASE j \in freed
      BY <3>1 DEF BehindOf
    <3>2. ASSUME NEW c \in Cores, FreeVersion(c), j = Tombstone(c) PROVE Past(RoTick(v)) <= over
      <4>1. PICK e \in Entries : /\ e.tuple = j /\ ~e.key /\ Listed(c, e) /\ e.tick \in Nat
                                 /\ Past(e.tick) \in Nat /\ Past(e.tick) <= over
        BY <3>2, FreedHead
      <4>2. RoTick(v) <= e.tick
        BY <4>1 DEF BehindOf
      <4>3. Past(RoTick(v)) <= Past(e.tick)
        BY <1>2, <4>1, <4>2, PastIs
      <4> QED
        BY <1>2, <2>1, <4>1, <4>3
    <3>3. ~\E r \in retired : r.regions = {} /\ r.tuple = j
      BY <1>1 DEF Retired
    <3> QED
      BY <1>5, <3>1, <3>2, <3>3, FreedNext
  <2> QED
    BY <1>2, <2>1, <2>2
<1>6. (/\ j \in DOMAIN heap' /\ ~heap'[j].latest /\ ~Retired(j)'
       /\ \A c \in Cores : \A e \in Entries : Listed(c, e)' /\ ~e.key /\ e.tuple = j => RoTick(v) <= e.tick
       /\ j \in freed' => Past(RoTick(v)) <= over') => BehindOf(v, j)'
  BY DEF BehindOf, Past, RoTick, M, to_read_only_tick, EpochId
<1> QED
  BY <1>1, <1>3, <1>4, <1>5, <1>6

(***************************************************************************)
(* Time: the versions behind a version, under an install.                  *)
(***************************************************************************)
(* What an install queues to be freed is new, or was latest.               *)
LEMMA SpillPlace ==
    ASSUME Types, Locks, NEW c \in Cores, NEW e \in Entries, SpillEntry(c, e), ~e.key
    PROVE  e.tuple \in DOMAIN heap => heap[e.tuple].latest
<1>1. PICK k \in Keys, delete \in Deletes[c] :
          \/ InstallInPlace(c, k, delete) /\ InPlaceNew(c, k, delete, e)
          \/ InstallReplacement(c, k, delete) /\ ReplacedNew(c, k, delete, e)
  BY DEF SpillEntry
<1>2. delete \in BOOLEAN
  BY DeleteBoolean
<1>3. CASE InstallInPlace(c, k, delete) /\ InPlaceNew(c, k, delete, e)
  <2>1. e.tuple = Len(heap) + 1
    BY <1>3 DEF InPlaceNew
  <2>2. Len(heap) + 1 \notin DOMAIN heap
    BY <1>2, <1>3, InPlaceWrote DEF WroteInPlace
  <2> QED
    BY <2>1, <2>2
<1>4. CASE InstallReplacement(c, k, delete) /\ ReplacedNew(c, k, delete, e)
  <2>1. e.tuple = txn[c].refs[k]
    BY <1>4 DEF ReplacedNew
  <2>2. heap[txn[c].refs[k]].latest
    BY <1>2, <1>4, InstallsLatest
  <2> QED
    BY <2>1, <2>2
<1> QED
  BY <1>1, <1>3, <1>4

LastingLinks == \A j \in DOMAIN heap : j \in DOMAIN heap' /\ (heap'[j].latest => heap[j].latest)

LEMMA LinkKept ==
    ASSUME Types, Types', Stamps, Locks, TakenOver, Behind, [VersionsNext]_vvars, LastingLinks,
           NEW i \in DOMAIN heap, NEW j \in DOMAIN heap, NEW v \in Nat, heap[i].version = v, heap[i].next = j
    PROVE  BehindOf(v, j)'
<1>1. BehindOf(v, j) /\ EpochId(v) <= now
  BY DEF Behind, Stamps, Numbered
<1>2. ASSUME NEW c \in Cores, NEW e \in Entries, SpillEntry(c, e), ~e.key PROVE e.tuple # j
  <2>1. ~heap[j].latest
    BY <1>1 DEF BehindOf
  <2> QED
    BY <1>2, <2>1, SpillPlace
<1>3. j \in DOMAIN heap' /\ (heap'[j].latest => heap[j].latest)
  BY DEF LastingLinks
<1> QED
  BY <1>1, <1>2, <1>3, BehindOfKept

(* The version an install puts before the one it found.                    *)
LEMMA NewLink ==
    ASSUME NEW v, NEW j, j \in DOMAIN heap', ~heap'[j].latest, ~Retired(j)', j \notin freed',
           \A d \in Cores : \A e \in Entries : Listed(d, e)' /\ ~e.key /\ e.tuple = j => RoTick(v) <= e.tick
    PROVE  BehindOf(v, j)'
BY DEF BehindOf, RoTick, to_read_only_tick, EpochId

LEMMA BehindInPlace ==
    ASSUME Types, Types', Stamps, Locks, Places, Timed, [VersionsNext]_vvars,
           NEW c \in Cores, NEW k \in Keys, NEW delete \in BOOLEAN, InstallInPlace(c, k, delete),
           NEW f, f = txn[c].refs[k], NEW l, l = Len(heap) + 1, NEW t, t = txn[c].t
    PROVE  Behind' /\ Positive'
<1>0. TakenOver /\ Behind /\ Positive
  BY DEF Timed
<1>1. WroteInPlace(c, f, l, Keep(c, k), delete)
  BY InPlaceWrote
<1>2. txn[c].pc = "install" /\ t \in Nat /\ t > 0
  BY InstallTid DEF InstallInPlace
<1>3. heap[f].version \in Nat /\ heap[f].version > 0
  BY <1>0, <1>1, HeapLen, TupleFields DEF WroteInPlace, Positive, Types, HeapTypes
<1>4. ~Keep(c, k) => RoTick(heap[f].version) = RoTick(t)
  BY <1>3 DEF Keep, can_overwrite_record_tid, RoTick, MIN_TID
<1>5. UNCHANGED <<retired, freed>>
  BY DEF InstallInPlace, Installed
<1>6. CommitTick(c) = RoTick(t) /\ CommitTick(c) \in Nat
  BY <1>2, CommitPast
<1>7. ASSUME NEW d \in Cores, NEW e \in Entries, Listed(d, e)', ~e.key, e.tuple = l PROVE e.tick = RoTick(t)
  <2>1. ~Listed(d, e)
    BY <1>1, <1>7, ListedTypes DEF WroteInPlace
  <2>2. InPlaceNew(c, k, delete, e)
    BY <1>7, <2>1, InPlaceListed
  <2> QED
    BY <1>6, <1>7, <2>2 DEF InPlaceNew
<1>8. ~Retired(l)' /\ l \notin freed'
  BY <1>1, <1>5 DEF WroteInPlace, Retired, Types, GcTypes
<1>9. LastingLinks
  BY <1>1 DEF WroteInPlace, LastingLinks
<1>10. ASSUME NEW i \in DOMAIN heap', NEW j \in DOMAIN heap', NEW v \in Nat, heap'[i].version = v, heap'[i].next = j
       PROVE  BehindOf(v, j)'
  <2>1. j # Nil
    BY HeapLen DEF Types, HeapTypes
  <2>2. CASE i \in DOMAIN heap \ {f}
    <3>1. heap[i].version = v /\ heap[i].next = j /\ j \in DOMAIN heap
      BY <1>1, <1>10, <2>1, <2>2 DEF WroteInPlace, Types, HeapTypes
    <3> QED
      BY <1>0, <1>9, <2>2, <3>1, LinkKept
  <2>3. CASE i = l /\ Keep(c, k)
    <3>1. f \in DOMAIN heap /\ heap[f].version = v /\ heap[f].next = j /\ j \in DOMAIN heap
      BY <1>1, <1>10, <2>1, <2>3 DEF WroteInPlace, Types, HeapTypes
    <3> QED
      BY <1>0, <1>9, <3>1, LinkKept
  <2>4. CASE i = f /\ Keep(c, k)
    <3>1. v = t /\ j = l /\ ~heap'[l].latest
      BY <1>1, <1>10, <2>4 DEF WroteInPlace
    <3>2. \A d \in Cores : \A e \in Entries : Listed(d, e)' /\ ~e.key /\ e.tuple = j => RoTick(v) <= e.tick
      BY <1>6, <1>7, <3>1
    <3> QED
      BY <1>8, <1>10, <3>1, <3>2, NewLink
  <2>5. CASE i = f /\ ~Keep(c, k)
    <3>1. f \in DOMAIN heap /\ v = t /\ heap[f].next = j /\ j \in DOMAIN heap
      BY <1>1, <1>10, <2>1, <2>5 DEF WroteInPlace, Types, HeapTypes
    <3>2. PICK u \in Nat : u = heap[f].version
      BY <1>3
    <3>3. BehindOf(u, j)'
      BY <1>0, <1>9, <3>1, <3>2, LinkKept
    <3>4. RoTick(u) = RoTick(v)
      BY <1>4, <2>5, <3>1, <3>2
    <3> QED
      BY <3>3, <3>4 DEF BehindOf, RoTick, to_read_only_tick, EpochId, Past, M
  <2> QED
    BY <1>1, <2>2, <2>3, <2>4, <2>5 DEF WroteInPlace
<1>11. ASSUME NEW i \in DOMAIN heap' PROVE heap'[i].version > 0
  BY <1>0, <1>1, <1>2, <1>3 DEF WroteInPlace, Positive
<1> QED
  BY <1>10, <1>11 DEF Behind, Positive

LEMMA BehindReplaced ==
    ASSUME Types, Types', Stamps, Locks, Places, Timed, [VersionsNext]_vvars,
           NEW c \in Cores, NEW k \in Keys, NEW delete \in BOOLEAN, InstallReplacement(c, k, delete),
           NEW f, f = txn[c].refs[k], NEW l, l = Len(heap) + 1, NEW t, t = txn[c].t
    PROVE  Behind' /\ Positive'
<1>0. TakenOver /\ Behind /\ Positive
  BY DEF Timed
<1>1. WroteReplacement(c, f, l, delete)
  BY ReplacedWrote
<1>2. txn[c].pc = "install" /\ t \in Nat /\ t > 0
  BY InstallTid DEF InstallReplacement
<1>3. heap[f].latest
  BY InstallsLatest
<1>4. f \in DOMAIN heap /\ ~Retired(f) /\ f \notin freed
  BY <1>1, <1>3 DEF WroteReplacement, Places, Placed
<1>5. ~Retired(f)' /\ f \notin freed'
  BY <1>4 DEF InstallReplacement, Installed, Retired
<1>6. CommitTick(c) = RoTick(t) /\ CommitTick(c) \in Nat
  BY <1>2, CommitPast
<1>7. ASSUME NEW d \in Cores, NEW e \in Entries, Listed(d, e)', ~e.key, e.tuple = f PROVE e.tick = RoTick(t)
  <2>1. ~Listed(d, e)
    <3> SUFFICES ASSUME Listed(d, e) PROVE FALSE
      OBVIOUS
    <3>1. ~heap[e.tuple].latest
      BY <1>7, OldDue DEF Places, Placed
    <3> QED
      BY <1>3, <1>7, <3>1
  <2>2. ReplacedNew(c, k, delete, e)
    BY <1>7, <2>1, ReplacedListed
  <2> QED
    BY <1>6, <1>7, <2>2 DEF ReplacedNew
<1>8. LastingLinks
  BY <1>1 DEF WroteReplacement, LastingLinks
<1>9. ASSUME NEW i \in DOMAIN heap', NEW j \in DOMAIN heap', NEW v \in Nat, heap'[i].version = v, heap'[i].next = j
      PROVE  BehindOf(v, j)'
  <2>1. j # Nil
    BY HeapLen DEF Types, HeapTypes
  <2>2. CASE i \in DOMAIN heap
    <3>1. heap[i].version = v /\ heap[i].next = j /\ j \in DOMAIN heap
      BY <1>1, <1>9, <2>1, <2>2 DEF WroteReplacement, Types, HeapTypes
    <3> QED
      BY <1>0, <1>8, <2>2, <3>1, LinkKept
  <2>3. CASE i = l
    <3>1. v = t /\ j = f /\ ~heap'[f].latest
      BY <1>1, <1>9, <2>3 DEF WroteReplacement
    <3>2. \A d \in Cores : \A e \in Entries : Listed(d, e)' /\ ~e.key /\ e.tuple = j => RoTick(v) <= e.tick
      BY <1>6, <1>7, <3>1
    <3> QED
      BY <1>5, <1>9, <3>1, <3>2, NewLink
  <2> QED
    BY <1>1, <2>2, <2>3 DEF WroteReplacement
<1>10. ASSUME NEW i \in DOMAIN heap' PROVE heap'[i].version > 0
  BY <1>0, <1>1, <1>2 DEF WroteReplacement, Positive
<1> QED
  BY <1>9, <1>10 DEF Behind, Positive

(***************************************************************************)
(* Time: every step, and the theorem.                                      *)
(***************************************************************************)
(* A step that installs no version.                                        *)
HeapLasts ==
    /\ DOMAIN heap' = DOMAIN heap /\ UNCHANGED installs
    /\ UNCHANGED tree \/ \E c \in Cores : RemoveTombstone(c)
    /\ \A i \in DOMAIN heap :
          /\ heap'[i].key = heap[i].key /\ heap'[i].version = heap[i].version /\ heap'[i].next = heap[i].next
          /\ heap'[i].deleting = heap[i].deleting /\ (heap'[i].latest => heap[i].latest)

LEMMA StillLasts ==
    ASSUME Still
    PROVE  HeapLasts
BY DEF Still, SameHeap, SameTuple, HeapLasts

LEMMA StoreLasts ==
    ASSUME SameStore
    PROVE  HeapLasts
BY DEF HeapLasts, SameStore

LEMMA Links ==
    ASSUME Types, Types', [VersionsNext]_vvars
    PROVE  \/ \E c \in Cores : \E k \in Keys : \E delete \in BOOLEAN : InstallInPlace(c, k, delete)
           \/ \E c \in Cores : \E k \in Keys : \E delete \in BOOLEAN : InstallReplacement(c, k, delete)
           \/ HeapLasts
<1>1. CASE \E c \in Cores : \E k \in Keys : \E delete \in Deletes[c] : InstallInPlace(c, k, delete)
  BY <1>1, DeleteBoolean
<1>2. CASE \E c \in Cores : \E k \in Keys : \E delete \in Deletes[c] : InstallReplacement(c, k, delete)
  BY <1>2, DeleteBoolean
<1>3. ASSUME NEW c \in Cores, RemoveTombstone(c) PROVE HeapLasts
  <2>1. Untied(Tombstone(c))
    BY <1>3, RemovedUntied
  <2>2. UNCHANGED installs
    BY <1>3 DEF RemoveTombstone
  <2> QED
    BY <1>3, <2>1, <2>2 DEF Untied, HeapLasts
<1>4. ASSUME NEW c \in Cores, Requeue(c) PROVE HeapLasts
  <2>1. SameStore
    BY <1>4 DEF Requeue
  <2> QED
    BY <2>1, StoreLasts
<1>5. ASSUME NEW c \in Cores, FreeVersion(c) PROVE HeapLasts
  <2>1. SameStore
    BY <1>5 DEF FreeVersion
  <2> QED
    BY <2>1, StoreLasts
<1>6. ASSUME NEW c \in Cores, on_post_rcu_region_completion(c) PROVE HeapLasts
  <2>1. SameStore
    BY <1>6 DEF on_post_rcu_region_completion
  <2> QED
    BY <2>1, StoreLasts
<1>7. ASSUME NEW c \in Cores, Quiet(c) PROVE HeapLasts
  BY <1>7, QuietStill, StillLasts
<1>8. ASSUME RcuFree PROVE HeapLasts
  <2>1. SameStore
    BY <1>8 DEF RcuFree
  <2> QED
    BY <2>1, StoreLasts
<1>9. ASSUME Tick \/ UNCHANGED vvars PROVE HeapLasts
  BY <1>9, ClockStill, StillLasts
<1> QED
  BY <1>1, <1>2, <1>3, <1>4, <1>5, <1>6, <1>7, <1>8, <1>9, Kinds

LEMMA BehindLasts ==
    ASSUME Types, Types', Stamps, Locks, Timed, [VersionsNext]_vvars, HeapLasts
    PROVE  Behind' /\ Positive'
<1>0. TakenOver /\ Behind /\ Positive
  BY DEF Timed
<1>1. LastingLinks
  BY DEF HeapLasts, LastingLinks
<1>2. ASSUME NEW i \in DOMAIN heap', NEW j \in DOMAIN heap', NEW v \in Nat, heap'[i].version = v, heap'[i].next = j
      PROVE  BehindOf(v, j)'
  <2>1. i \in DOMAIN heap /\ j \in DOMAIN heap /\ heap[i].version = v /\ heap[i].next = j
    BY <1>2 DEF HeapLasts
  <2> QED
    BY <1>0, <1>1, <2>1, LinkKept
<1>3. \A i \in DOMAIN heap' : heap'[i].version > 0
  BY <1>0 DEF HeapLasts, Positive
<1> QED
  BY <1>2, <1>3 DEF Behind, Positive

LEMMA BehindNext ==
    ASSUME Types, Types', Stamps, Locks, Places, Timed, [VersionsNext]_vvars
    PROVE  Behind' /\ Positive'
<1>1. ASSUME NEW c \in Cores, NEW k \in Keys, NEW delete \in BOOLEAN, InstallInPlace(c, k, delete)
      PROVE  Behind' /\ Positive'
  BY <1>1, BehindInPlace
<1>2. ASSUME NEW c \in Cores, NEW k \in Keys, NEW delete \in BOOLEAN, InstallReplacement(c, k, delete)
      PROVE  Behind' /\ Positive'
  BY <1>2, BehindReplaced
<1> QED
  BY <1>1, <1>2, Links, BehindLasts

LEMMA TimedNext ==
    ASSUME Types, Types', Stamps, Locks, Places, Timed, [VersionsNext]_vvars
    PROVE  Timed'
<1>1. Behind' /\ Positive'
  BY BehindNext
<1>2. QueuedUses' /\ RetiredUses' /\ FreedUses'
  BY QueuedUsesNext, RetiredUsesNext, FreedUsesNext
<1>3. TakenOver' /\ SnapshotEnds'
  BY TakenOverNext, SnapshotEndsNext DEF Timed
<1> QED
  BY <1>1, <1>2, <1>3 DEF Timed

LEMMA InitTimed ==
    ASSUME VersionsInit
    PROVE  Timed
<1>1. /\ queue = [c \in Cores |-> <<>>] /\ scratch = [c \in Cores |-> <<>>] /\ txn = [c \in Cores |-> Idle]
      /\ retired = {} /\ freed = {} /\ DOMAIN heap = Keys
      /\ \A k \in Keys : heap[k].version = LoadTid /\ heap[k].next = Nil /\ k # Nil
  BY InitHeap DEF VersionsInit
<1>2. LoadTid > 0
  <2>1. LoadTid = 0 + CoreSpan * (1 + NumSpan * 0)
    BY DEF LoadTid, MakeTid
  <2>2. CoreSpan \in Nat \ {0} /\ NumSpan \in Nat
    BY VersionsAssumption
  <2> QED
    BY <2>1, <2>2
<1>3. \A c \in Cores : txn[c] = Idle /\ queue[c] = <<>> /\ scratch[c] = <<>>
  BY <1>1
<1>4. DOMAIN <<>> = {}
  OBVIOUS
<1>5. \A c \in Cores : \A e \in Entries : ~Taken(c, e) /\ ~Listed(c, e)
  BY <1>3, <1>4 DEF Taken, Listed
<1>6. \A c \in Cores : ~SnapshotTaken(c)
  <2>1. Types
    BY InitTypes
  <2>2. ASSUME NEW c \in Cores PROVE txn[c].pc = "idle"
    BY <1>3 DEF Idle
  <2> QED
    BY <2>1, <2>2, IdleUses DEF SnapshotTaken
<1>7. Positive
  BY <1>1, <1>2 DEF Positive
<1>8. TakenOver /\ QueuedUses
  BY <1>5 DEF TakenOver, QueuedUses
<1>9. RetiredUses /\ FreedUses
  BY <1>1 DEF RetiredUses, FreedUses
<1>10. Behind
  BY <1>1 DEF Behind
<1>11. SnapshotEnds
  BY <1>6 DEF SnapshotEnds
<1> QED
  BY <1>7, <1>8, <1>9, <1>10, <1>11 DEF Timed

TimedInv == PlacedInv /\ Timed

LEMMA TimedInvariant == UncontendedSpec => []TimedInv
<1>1. VersionsInit => Timed
  BY InitTimed
<1>2. PlacedInv /\ PlacedInv' /\ Timed /\ [VersionsNext /\ Uncontended']_vvars => Timed'
  BY TimedNext, UncontendedNext DEF PlacedInv, Locked, Typed
<1> QED
  BY <1>1, <1>2, PlacedInvariant, PTL DEF UncontendedSpec, TimedInv

(* Whichever cores delete, as long as no collector waits for the MCS lock  *)
(* of another, no transaction gets hold of memory that was released:       *)
(* neither a tuple it has found in the tree nor a version that its snapshot*)
(* walks to, although old versions are freed with no region waited for, by *)
(* the ticks alone, and are not unlinked before.                           *)
THEOREM NothingUsedIsFree == UncontendedSpec => []NoUseAfterFree
<1>1. TimedInv => NoUseAfterFree
  BY DEF TimedInv, Timed, FreedUses, Uses, NoUseAfterFree
<1> QED
  BY <1>1, TimedInvariant, PTL

(***************************************************************************)
(* Snapshots: what a step does to a transaction.                           *)
(***************************************************************************)
(* What a step does to a transaction: it leaves it between transactions,   *)
(* or where it was but for the place, or is one of the others.             *)
Kept(d) ==
    /\ txn'[d].refs = txn[d].refs /\ txn'[d].got = txn[d].got /\ txn'[d].t = txn[d].t
    /\ txn'[d].todo = txn[d].todo /\ txn'[d].key = txn[d].key /\ txn'[d].at = txn[d].at
    /\ txn'[d].prog = txn[d].prog
Turn(d) ==
    \/ txn'[d].pc \in Collecting \cup {"idle", "post"}
    \/ Kept(d) /\ txn'[d].pc = txn[d].pc
    \/ Kept(d) /\ txn[d].pc # "begin" /\ txn'[d].pc \in {"validate", "gen_tid", "end", "committed"}
    \/ Begin(d) \/ gen_commit_tid(d) \/ TakeSnapshot(d) \/ Walk(d)
    \/ \E k \in Keys : Access(d, k) \/ FindHead(d, k)
    \/ \E k \in Keys : \E delete \in BOOLEAN : InstallInPlace(d, k, delete) \/ InstallReplacement(d, k, delete)

LEMMA TurnOthers ==
    ASSUME NEW c \in Cores, OthersSame(c), Turn(c)
    PROVE  \A d \in Cores : Turn(d)
<1>1. ASSUME NEW d \in Cores \ {c} PROVE Turn(d)
  <2>1. txn'[d] = txn[d]
    BY DEF OthersSame
  <2> QED
    BY <2>1 DEF Turn, Kept
<1> QED
  BY <1>1

LEMMA OwnTurn ==
    ASSUME Types, NEW c \in Cores,
           \/ Begin(c) \/ gen_commit_tid(c) \/ TakeSnapshot(c) \/ Walk(c)
           \/ \E k \in Keys : Access(c, k) \/ FindHead(c, k)
           \/ \E k \in Keys : \E delete \in BOOLEAN : InstallInPlace(c, k, delete) \/ InstallReplacement(c, k, delete)
    PROVE  \A d \in Cores : Turn(d)
<1>1. Turn(c)
  BY DEF Turn
<1>2. OthersSame(c)
  <2>1. CASE Begin(c)
    BY <2>1, BeginStep
  <2>2. CASE gen_commit_tid(c)
    BY <2>2, DrawStep
  <2>3. CASE TakeSnapshot(c)
    BY <2>3, TakeSnapshotStep
  <2>4. CASE Walk(c)
    BY <2>4, WalkStep
  <2>5. CASE \E k \in Keys : Access(c, k) \/ FindHead(c, k)
    BY <2>5, AccessStep, FindHeadStep
  <2>6. CASE \E k \in Keys : \E delete \in BOOLEAN : InstallInPlace(c, k, delete) \/ InstallReplacement(c, k, delete)
    BY <2>6, InstallPlace
  <2> QED
    BY <2>1, <2>2, <2>3, <2>4, <2>5, <2>6
<1> QED
  BY <1>1, <1>2, TurnOthers

LEMMA ReleaseTurn ==
    ASSUME Types, NEW c \in Cores, McsRelease(c), NEW d \in Cores
    PROVE  Turn(d)
<1>1. /\ txn'[c] = [txn[c] EXCEPT !.pc = "collect"]
      /\ d # c => txn'[d] = txn[d] \/ txn'[d] = [txn[d] EXCEPT !.pc = "locked"]
  <2> DEFINE waiting == Tail(mcs[heap[Tombstone(c)].m_lock])
             w == Head(waiting)
  <2>1. /\ txn'[c] = [txn[c] EXCEPT !.pc = "collect"]
        /\ waiting = <<>> => \A x \in Cores \ {c} : txn'[x] = txn[x]
        /\ waiting # <<>> => /\ txn'[w] = [txn[w] EXCEPT !.pc = "locked"]
                             /\ \A x \in Cores \ {c, w} : txn'[x] = txn[x]
    BY PassesStep DEF Passes
  <2> HIDE DEF waiting, w
  <2> QED
    BY <2>1
<1>2. CASE txn'[d] = txn[d]
  BY <1>2 DEF Turn, Kept
<1>3. ASSUME NEW p \in {"collect", "locked"}, txn'[d] = [txn[d] EXCEPT !.pc = p] PROVE Turn(d)
  <2>1. txn[d] \in TxnStates /\ p \in Pcs
    BY PcsIn DEF Types, TxnTypes
  <2>2. txn'[d].pc = p
    BY <1>3, <2>1, NewPc
  <2>3. p \in Collecting
    BY DEF Collecting, Examining
  <2> QED
    BY <2>2, <2>3 DEF Turn
<1> QED
  BY <1>1, <1>2, <1>3

LEMMA TurnNext ==
    ASSUME Types, Types', [VersionsNext]_vvars
    PROVE  \A d \in Cores : Turn(d)
<1>1. ASSUME NEW c \in Cores, LockWrites(c) \/ Validate(c) \/ Abort(c) \/ EndSnapshot(c)
      PROVE  \A d \in Cores : Turn(d)
  <2>1. txn[c].pc # "begin" /\ \E p \in {"validate", "gen_tid", "end", "committed"} : Go(c, p)
    BY <1>1 DEF LockWrites, Validate, Abort, EndSnapshot
  <2>2. \E p \in {"validate", "gen_tid", "end", "committed"} : MovedTo(c, p)
    BY <2>1, PcsIn, GoMoves
  <2>3. Turn(c) /\ OthersSame(c)
    BY <2>1, <2>2 DEF MovedTo, Turn, Kept
  <2> QED
    BY <2>3, TurnOthers
<1>2. ASSUME NEW c \in Cores, \/ McsAcquire(c) \/ SpinLock(c) \/ Requeue(c) \/ StillTombstone(c)
                              \/ RemoveTombstone(c) \/ Collected(c) \/ on_post_rcu_region_completion(c)
      PROVE  \A d \in Cores : Turn(d)
  <2> DEFINE P == {"spin", "wait", "locked", "release", "remove", "idle", "collect"}
  <2>1. \E p \in P : Go(c, p)
    BY <1>2 DEF McsAcquire, SpinLock, Requeue, StillTombstone, RemoveTombstone, Collected, on_post_rcu_region_completion
  <2>2. P \subseteq Pcs /\ P \subseteq Collecting \cup {"idle", "post"}
    BY DEF Pcs, Collecting, Examining
  <2>3. OthersSame(c) /\ txn'[c].pc \in P
    BY <2>1, <2>2, GoMoves DEF MovedTo
  <2>4. Turn(c)
    BY <2>2, <2>3 DEF Turn
  <2> QED
    BY <2>3, <2>4, TurnOthers
<1>3. ASSUME NEW c \in Cores, EndTxn(c) PROVE \A d \in Cores : Turn(d)
  <2>1. OthersSame(c) /\ txn'[c].pc = "post"
    BY <1>3, EndTxnStep, EndTxnTypes
  <2>2. Turn(c)
    BY <2>1 DEF Turn
  <2> QED
    BY <2>1, <2>2, TurnOthers
<1>4. ASSUME UNCHANGED txn PROVE \A d \in Cores : Turn(d)
  BY <1>4 DEF Turn, Kept
<1>5. ASSUME RcuFree \/ Tick \/ UNCHANGED vvars \/ \E c \in Cores : FreeVersion(c)
      PROVE  \A d \in Cores : Turn(d)
  BY <1>4, <1>5 DEF RcuFree, Tick, vvars, FreeVersion
<1>6. ASSUME NEW c \in Cores, NEW k \in Keys, NEW delete \in Deletes[c],
             InstallInPlace(c, k, delete) \/ InstallReplacement(c, k, delete)
      PROVE  \A d \in Cores : Turn(d)
  <2>1. delete \in BOOLEAN
    BY DeleteBoolean
  <2> QED
    BY <1>6, <2>1, OwnTurn
<1> QED
  BY <1>1, <1>2, <1>3, <1>5, <1>6, OwnTurn, ReleaseTurn DEF VersionsNext, TxnStep, CollectStep

(***************************************************************************)
(* The versions of a key, in the order of their installs.                  *)
(***************************************************************************)
Ids(s) == {LoadTid} \cup {s[n].tid : n \in DOMAIN s}
Gone(s) == {s[n].tid : n \in {m \in DOMAIN s : s[m].deleted}}
Rising(s) ==
    /\ \A n \in DOMAIN s : LoadTid < s[n].tid
    /\ \A n, m \in DOMAIN s : n < m => s[n].tid < s[m].tid
NewestOf(s, t) ==
    LET upTo == {n \in DOMAIN s : s[n].tid <= t}
        v == s[Max(upTo)]
    IN  IF upTo = {} THEN (IF LoadTid <= t THEN LoadTid ELSE MIN_TID)
        ELSE IF v.deleted THEN MIN_TID ELSE v.tid

LEMMA Loaded == LoadTid \in Nat /\ LoadTid > 0
<1>1. LoadTid = 0 + CoreSpan * (1 + NumSpan * 0)
  BY DEF LoadTid, MakeTid
<1>2. CoreSpan \in Nat \ {0} /\ NumSpan \in Nat
  BY VersionsAssumption
<1> QED
  BY <1>1, <1>2

LEMMA HistoryTypes ==
    ASSUME NEW s \in Seq(Installs)
    PROVE  /\ DOMAIN s = 1..Len(s) /\ Len(s) \in Nat
           /\ \A n \in DOMAIN s : s[n] \in Installs /\ s[n].tid \in Nat /\ s[n].deleted \in BOOLEAN
           /\ Ids(s) \subseteq Nat /\ Gone(s) \subseteq Ids(s)
<1>1. DOMAIN s = 1..Len(s) /\ Len(s) \in Nat /\ \A n \in DOMAIN s : s[n] \in Installs
  OBVIOUS
<1>2. \A n \in DOMAIN s : s[n].tid \in Nat /\ s[n].deleted \in BOOLEAN
  BY <1>1 DEF Installs
<1> QED
  BY <1>1, <1>2, Loaded DEF Ids, Gone

LEMMA MaxIs ==
    ASSUME NEW T, T \subseteq Nat, NEW n \in T, \A m \in T : m <= n
    PROVE  Max(T) = n
<1>1. \A m \in T : n >= m
  OBVIOUS
<1>2. ASSUME NEW x \in T, \A m \in T : x >= m PROVE x = n
  <2>1. x >= n /\ n >= x /\ x \in Nat /\ n \in Nat
    BY <1>2
  <2> QED
    BY <2>1
<1>3. Max(T) = CHOOSE x \in T : \A m \in T : x >= m
  BY Zenon DEF Max
<1> QED
  BY <1>1, <1>2, <1>3

(* The newest version up to an id.                                         *)
LEMMA NewestAt ==
    ASSUME NEW s \in Seq(Installs), Rising(s), NEW t \in Nat, NEW v \in Ids(s), v <= t,
           \A w \in Ids(s) : w > v => w > t
    PROVE  NewestOf(s, t) = IF v \in Gone(s) THEN MIN_TID ELSE v
<1> DEFINE upTo == {n \in DOMAIN s : s[n].tid <= t}
<1>1. /\ DOMAIN s = 1..Len(s) /\ Len(s) \in Nat
      /\ \A n \in DOMAIN s : s[n].tid \in Nat /\ s[n].tid \in Ids(s)
      /\ LoadTid \in Nat /\ v \in Nat
  BY HistoryTypes, Loaded DEF Ids
<1>2. CASE v = LoadTid
  <2>1. upTo = {}
    BY <1>1, <1>2 DEF Rising
  <2>2. v \notin Gone(s)
    BY <1>1, <1>2 DEF Rising, Gone
  <2> QED
    BY <1>2, <2>1, <2>2 DEF NewestOf
<1>3. ASSUME NEW n \in DOMAIN s, v = s[n].tid PROVE NewestOf(s, t) = IF v \in Gone(s) THEN MIN_TID ELSE v
  <2>1. n \in upTo /\ upTo \subseteq Nat
    BY <1>1, <1>3
  <2>2. ASSUME NEW m \in upTo, m > n PROVE FALSE
    <3>1. s[n].tid < s[m].tid /\ s[m].tid <= t
      BY <1>1, <2>2 DEF Rising
    <3> QED
      BY <1>1, <1>3, <3>1
  <2>3. \A m \in upTo : m <= n
    BY <1>1, <2>2
  <2>4. Max(upTo) = n
    <3> HIDE DEF upTo
    <3> QED
      BY <2>1, <2>3, MaxIs
  <2>5. v \in Gone(s) <=> s[n].deleted
    <3>1. ASSUME NEW m \in DOMAIN s, s[m].tid = v PROVE m = n
      BY <1>1, <1>3, <3>1 DEF Rising
    <3> QED
      BY <1>3, <3>1 DEF Gone
  <2>6. NewestOf(s, t) = IF s[n].deleted THEN MIN_TID ELSE s[n].tid
    BY <2>1, <2>4 DEF NewestOf
  <2> QED
    BY <1>3, <2>5, <2>6
<1> QED
  BY <1>2, <1>3 DEF Ids

LEMMA NewestNone ==
    ASSUME NEW s \in Seq(Installs), NEW t \in Nat, \A w \in Ids(s) : w > t
    PROVE  NewestOf(s, t) = MIN_TID
<1> DEFINE upTo == {n \in DOMAIN s : s[n].tid <= t}
<1>1. \A n \in DOMAIN s : s[n].tid \in Nat /\ s[n].tid \in Ids(s)
  BY HistoryTypes DEF Ids
<1>2. LoadTid \in Nat /\ LoadTid \in Ids(s)
  BY Loaded DEF Ids
<1>3. upTo = {}
  BY <1>1
<1> QED
  BY <1>2, <1>3 DEF NewestOf

(* One more install.                                                       *)
LEMMA Grown ==
    ASSUME NEW s \in Seq(Installs), NEW e \in Installs, NEW r, r = Append(s, e)
    PROVE  /\ r \in Seq(Installs)
           /\ Ids(r) = Ids(s) \cup {e.tid}
           /\ Gone(r) = IF e.deleted THEN Gone(s) \cup {e.tid} ELSE Gone(s)
           /\ Rising(s) /\ (\A w \in Ids(s) : w < e.tid) => Rising(r)
           /\ \A t \in Nat : e.tid > t => NewestOf(r, t) = NewestOf(s, t)
<1> DEFINE l == Len(s) + 1
<1>1. /\ r \in Seq(Installs) /\ DOMAIN r = 1..l /\ DOMAIN s = 1..Len(s) /\ Len(s) \in Nat
      /\ r[l] = e /\ \A n \in 1..Len(s) : r[n] = s[n]
  BY AppendSeq DEF Installs
<1>2. DOMAIN r = DOMAIN s \cup {l} /\ l \notin DOMAIN s /\ r[l] = e /\ \A n \in DOMAIN s : r[n] = s[n] /\ n < l
  BY <1>1
<1>3. l \in Nat /\ e.tid \in Nat /\ e.deleted \in BOOLEAN /\ \A n \in DOMAIN s : s[n].tid \in Nat
  BY <1>1, HistoryTypes DEF Installs
<1> HIDE DEF l
<1>4. Ids(r) = Ids(s) \cup {e.tid}
  BY <1>2 DEF Ids
<1>5. Gone(r) = IF e.deleted THEN Gone(s) \cup {e.tid} ELSE Gone(s)
  BY <1>2 DEF Gone
<1>6. Rising(s) /\ (\A w \in Ids(s) : w < e.tid) => Rising(r)
  <2> SUFFICES ASSUME Rising(s), \A w \in Ids(s) : w < e.tid PROVE Rising(r)
    OBVIOUS
  <2>1. LoadTid < e.tid /\ \A n \in DOMAIN s : s[n].tid < e.tid
    BY DEF Ids
  <2>2. \A n \in DOMAIN r : LoadTid < r[n].tid
    BY <1>2, <2>1 DEF Rising
  <2>3. ASSUME NEW n \in DOMAIN r, NEW m \in DOMAIN r, n < m PROVE r[n].tid < r[m].tid
    <3>1. n \in DOMAIN s
      BY <1>1, <1>2, <2>3 DEF l
    <3>2. CASE m \in DOMAIN s
      BY <1>2, <2>3, <3>1, <3>2 DEF Rising
    <3>3. CASE m = l
      BY <1>2, <2>1, <3>1, <3>3
    <3> QED
      BY <1>2, <3>2, <3>3
  <2> QED
    BY <2>2, <2>3 DEF Rising
<1>7. ASSUME NEW t \in Nat, e.tid > t PROVE NewestOf(r, t) = NewestOf(s, t)
  <2> DEFINE upTo == {n \in DOMAIN s : s[n].tid <= t}
  <2>1. {n \in DOMAIN r : r[n].tid <= t} = upTo
    BY <1>2, <1>3, <1>7
  <2>2. upTo # {} => Max(upTo) \in DOMAIN s
    <3>1. upTo \subseteq 0..Len(s) /\ upTo \subseteq DOMAIN s
      BY <1>1
    <3> HIDE DEF upTo
    <3>2. ASSUME upTo # {} PROVE \E n \in upTo : \A m \in upTo : m <= n
      BY <1>1, <3>1, <3>2, Largest
    <3>3. upTo \subseteq Nat
      BY <3>1
    <3> QED
      BY <3>1, <3>2, <3>3, MaxIs
  <2>3. upTo # {} => r[Max(upTo)] = s[Max(upTo)]
    BY <1>2, <2>2
  <2> HIDE DEF upTo
  <2>4. NewestOf(r, t) = IF upTo = {} THEN (IF LoadTid <= t THEN LoadTid ELSE MIN_TID)
                         ELSE IF r[Max(upTo)].deleted THEN MIN_TID ELSE r[Max(upTo)].tid
    BY <2>1 DEF NewestOf
  <2>5. NewestOf(s, t) = IF upTo = {} THEN (IF LoadTid <= t THEN LoadTid ELSE MIN_TID)
                         ELSE IF s[Max(upTo)].deleted THEN MIN_TID ELSE s[Max(upTo)].tid
    BY DEF NewestOf, upTo
  <2> QED
    BY <2>3, <2>4, <2>5
<1> QED
  BY <1>1, <1>4, <1>5, <1>6, <1>7

LEMMA NewestIs ==
    ASSUME NEW k \in Keys, NEW t
    PROVE  Newest(k, t) = NewestOf(installs[k], t)
BY DEF Newest, NewestOf

(***************************************************************************)
(* Snapshots: the versions behind a tuple, and the installs of its key.    *)
(***************************************************************************)
(* The chain of a key's versions: n is a tuple, b the one behind it, s the *)
(* installs of its key.  What lies between them is of n's read-only tick.  *)
Chain(n, b, s) ==
    /\ n.version \in Ids(s) /\ (n.deleting <=> n.version \in Gone(s))
    /\ n.latest => \A w \in Ids(s) : w <= n.version
    /\ n.next # Nil => b.key = n.key /\ b.version < n.version
    /\ \A w \in Ids(s) : w < n.version /\ (n.next # Nil => b.version < w) => RoTick(w) = RoTick(n.version)
Chained == \A i \in DOMAIN heap : Chain(heap[i], heap[heap[i].next], installs[heap[i].key])
Ordered == \A k \in Keys : Rising(installs[k])
(* A key the tree does not have was deleted last, and that is long past.   *)
GoneFor(s, o) == \E w \in Gone(s) : (\A v \in Ids(s) : v <= w) /\ Past(RoTick(w)) <= o
Absent == \A k \in Keys : tree[k] = Nil => GoneFor(installs[k], over)
(* What is about to be installed is newer than what it replaces.           *)
Newer == \A c \in Cores : txn[c].pc = "install" => \A k \in txn[c].todo : heap[txn[c].refs[k]].version < txn[c].t

LEMMA ChainSame ==
    ASSUME NEW n, NEW b, NEW s, NEW n2, NEW b2, Chain(n, b, s),
           n2.key = n.key, n2.version = n.version, n2.next = n.next, n2.deleting = n.deleting,
           n2.latest => n.latest, n.next # Nil => b2.key = b.key /\ b2.version = b.version
    PROVE  Chain(n2, b2, s)
BY DEF Chain

LEMMA ChainGrown ==
    ASSUME NEW s \in Seq(Installs), NEW e \in Installs, NEW r, r = Append(s, e), \A w \in Ids(s) : w < e.tid,
           NEW n, NEW b, Chain(n, b, s), n.next # Nil => b.version \in Nat,
           NEW n2, NEW b2, n2.key = n.key, n2.version = n.version, n2.next = n.next, n2.deleting = n.deleting,
           ~n2.latest, n.next # Nil => b2.key = b.key /\ b2.version = b.version
    PROVE  Chain(n2, b2, r)
<1>1. Ids(r) = Ids(s) \cup {e.tid} /\ Gone(r) = IF e.deleted THEN Gone(s) \cup {e.tid} ELSE Gone(s)
  BY Grown
<1>2. Ids(s) \subseteq Nat /\ e.tid \in Nat /\ n.version \in Ids(s)
  BY HistoryTypes DEF Chain, Installs
<1>3. n.version < e.tid /\ n.version \in Nat
  BY <1>2
<1>4. n2.deleting <=> n2.version \in Gone(r)
  BY <1>1, <1>3 DEF Chain
<1>5. \A w \in Ids(r) : w < n2.version => w \in Ids(s)
  BY <1>1, <1>2, <1>3
<1>6. \A w \in Ids(r) : w < n2.version /\ (n2.next # Nil => b2.version < w) => RoTick(w) = RoTick(n2.version)
  BY <1>5 DEF Chain
<1> QED
  BY <1>1, <1>2, <1>4, <1>6 DEF Chain

(* A new version whose predecessor is kept behind it.                      *)
LEMMA ChainPut ==
    ASSUME NEW s \in Seq(Installs), NEW e \in Installs, NEW r, r = Append(s, e), \A w \in Ids(s) : w < e.tid,
           NEW n2, NEW b2, n2.version = e.tid, n2.deleting = e.deleted, n2.next # Nil, b2.key = n2.key,
           b2.version \in Ids(s), \A w \in Ids(s) : w <= b2.version
    PROVE  Chain(n2, b2, r)
<1>1. Ids(r) = Ids(s) \cup {e.tid} /\ Gone(r) = IF e.deleted THEN Gone(s) \cup {e.tid} ELSE Gone(s)
  BY Grown
<1>2. Ids(s) \subseteq Nat /\ e.tid \in Nat /\ Gone(s) \subseteq Ids(s)
  BY HistoryTypes DEF Installs
<1>3. e.tid \notin Gone(s)
  BY <1>2
<1>4. n2.deleting <=> n2.version \in Gone(r)
  BY <1>1, <1>3
<1>5. \A w \in Ids(r) : w <= e.tid
  BY <1>1, <1>2
<1>6. \A w \in Ids(r) : ~(w < e.tid /\ b2.version < w)
  BY <1>1, <1>2
<1> QED
  BY <1>1, <1>2, <1>4, <1>5, <1>6 DEF Chain

(* A new version that overwrites one of the same read-only tick.           *)
LEMMA ChainOver ==
    ASSUME NEW s \in Seq(Installs), NEW e \in Installs, NEW r, r = Append(s, e), \A w \in Ids(s) : w < e.tid,
           NEW n, NEW b, Chain(n, b, s), n.next # Nil => b.version \in Nat, \A w \in Ids(s) : w <= n.version,
           RoTick(n.version) = RoTick(e.tid),
           NEW n2, NEW b2, n2.key = n.key, n2.version = e.tid, n2.deleting = e.deleted, n2.next = n.next,
           n.next # Nil => b2.key = b.key /\ b2.version = b.version
    PROVE  Chain(n2, b2, r)
<1>1. Ids(r) = Ids(s) \cup {e.tid} /\ Gone(r) = IF e.deleted THEN Gone(s) \cup {e.tid} ELSE Gone(s)
  BY Grown
<1>2. Ids(s) \subseteq Nat /\ e.tid \in Nat /\ Gone(s) \subseteq Ids(s) /\ n.version \in Ids(s)
  BY HistoryTypes DEF Installs, Chain
<1>3. e.tid \notin Gone(s)
  BY <1>2
<1>4. n2.deleting <=> n2.version \in Gone(r)
  BY <1>1, <1>3
<1>5. \A w \in Ids(r) : w <= e.tid
  BY <1>1, <1>2
<1>6. n2.next # Nil => b2.key = n2.key /\ b2.version < n2.version
  BY <1>2 DEF Chain
<1>7. ASSUME NEW w \in Ids(r), w < n2.version, n2.next # Nil => b2.version < w PROVE RoTick(w) = RoTick(n2.version)
  <2>1. w \in Ids(s) /\ w <= n.version /\ w \in Nat /\ n.version \in Nat
    BY <1>1, <1>2, <1>7
  <2>2. CASE w = n.version
    BY <2>2
  <2>3. CASE w < n.version
    BY <1>7, <2>1, <2>3 DEF Chain
  <2> QED
    BY <2>1, <2>2, <2>3
<1> QED
  BY <1>1, <1>2, <1>4, <1>5, <1>6, <1>7 DEF Chain

(* An install is the last of its key.                                      *)
LEMMA InstallLast ==
    ASSUME Types, Stamps, Locks, Chained, Newer, NEW c \in Cores, NEW k \in Keys, NEW delete \in BOOLEAN,
           InstallInPlace(c, k, delete) \/ InstallReplacement(c, k, delete),
           NEW f, f = txn[c].refs[k], NEW e, e = [tid |-> txn[c].t, deleted |-> delete]
    PROVE  /\ installs[k] \in Seq(Installs) /\ e \in Installs /\ installs'[k] = Append(installs[k], e)
           /\ \A j \in Keys \ {k} : installs'[j] = installs[j]
           /\ f \in DOMAIN heap /\ heap[f].key = k /\ heap[f].latest /\ heap[f].version \in Ids(installs[k])
           /\ \A w \in Ids(installs[k]) : w <= heap[f].version /\ w < e.tid
<1>1. /\ txn[c].pc = "install" /\ k \in txn[c].todo
      /\ installs' = [installs EXCEPT ![k] = Append(installs[k], [tid |-> txn[c].t, deleted |-> delete])]
  BY DEF InstallInPlace, InstallReplacement, Installed
<1>2. installs \in [Keys -> Seq(Installs)] /\ txn[c].t \in Nat
  BY <1>1, InstallTid DEF Types, MiscTypes
<1>3. e \in Installs /\ e.tid = txn[c].t
  BY <1>2 DEF Installs
<1>4. installs[k] \in Seq(Installs) /\ installs'[k] = Append(installs[k], e) /\ \A j \in Keys \ {k} : installs'[j] = installs[j]
  BY <1>1, <1>2
<1>5. f \in DOMAIN heap /\ heap[f].key = k /\ heap[f].latest
  BY <1>1, RefTypes, InstallsLatest
<1>6. heap[f].version < txn[c].t
  BY <1>1 DEF Newer
<1>7. heap[f].version \in Ids(installs[k]) /\ \A w \in Ids(installs[k]) : w <= heap[f].version
  BY <1>5 DEF Chained, Chain
<1>8. Ids(installs[k]) \subseteq Nat
  BY <1>4, HistoryTypes
<1> QED
  BY <1>2, <1>3, <1>4, <1>5, <1>6, <1>7, <1>8

(***************************************************************************)
(* Snapshots: those versions under an install.                             *)
(***************************************************************************)
LEMMA NextIs ==
    ASSUME Types, NEW i \in DOMAIN heap
    PROVE  /\ heap[i] \in Tuples /\ heap[i].key \in Keys /\ heap[i].version \in Nat /\ installs[heap[i].key] \in Seq(Installs)
           /\ heap[i].next # Nil => /\ heap[i].next \in DOMAIN heap /\ heap[heap[i].next].version \in Nat
                                    /\ heap[heap[i].next].key \in Keys
<1>1. \A j \in DOMAIN heap : heap[j] \in Tuples /\ heap[j].key \in Keys /\ heap[j].version \in Nat
  BY HeapLen, TupleFields DEF Types, HeapTypes
<1>2. heap[i].next \in DOMAIN heap \cup {Nil}
  BY DEF Types, HeapTypes
<1>3. \A k \in Keys : installs[k] \in Seq(Installs)
  BY DEF Types, MiscTypes
<1> QED
  BY <1>1, <1>2, <1>3

(* An old version's chain under an install: nothing behind it is replaced. *)
LEMMA ChainElsewhere ==
    ASSUME Types, Locks, Chained, Timed, NEW i \in DOMAIN heap, ~heap[i].latest,
           NEW k \in Keys, NEW f \in DOMAIN heap, heap[f].key = k, heap[f].latest,
           NEW e \in Installs, installs'[k] = Append(installs[k], e), \A j \in Keys \ {k} : installs'[j] = installs[j],
           \A w \in Ids(installs[k]) : w < e.tid,
           \A j \in DOMAIN heap \ {f} : heap'[j] = heap[j],
           NEW n2, n2.key = heap[i].key, n2.version = heap[i].version, n2.next = heap[i].next,
           n2.deleting = heap[i].deleting, ~n2.latest
    PROVE  Chain(n2, heap'[n2.next], installs'[heap[i].key])
<1> DEFINE n == heap[i]
           b == heap[n.next]
<1>1. Chain(n, b, installs[n.key]) /\ n.key \in Keys /\ installs[k] \in Seq(Installs)
  BY NextIs DEF Chained, Types, MiscTypes
<1>2. n.next # Nil => n.next \in DOMAIN heap /\ b.version \in Nat /\ ~b.latest
  <2>1. n.next # Nil => n.next \in DOMAIN heap /\ b.version \in Nat /\ n.version \in Nat
    BY NextIs
  <2>2. n.next # Nil => BehindOf(n.version, n.next)
    BY <2>1 DEF Timed, Behind
  <2> QED
    BY <2>1, <2>2 DEF BehindOf
<1>3. n.next # Nil => heap'[n.next] = b
  BY <1>2
<1> HIDE DEF n, b
<1>4. CASE n.key = k
  <2>1. ASSUME NEW s, s = installs[k], NEW r, r = installs'[k], NEW b2, b2 = heap'[n2.next] PROVE Chain(n2, b2, r)
    <3>1. s \in Seq(Installs) /\ r = Append(s, e) /\ (\A w \in Ids(s) : w < e.tid) /\ Chain(n, b, s)
      BY <1>1, <1>4, <2>1
    <3>2. /\ n2.key = n.key /\ n2.version = n.version /\ n2.next = n.next /\ n2.deleting = n.deleting
          /\ n.next # Nil => b.version \in Nat
      BY <1>2 DEF n
    <3>3. n.next # Nil => b2.key = b.key /\ b2.version = b.version
      BY <1>3, <2>1, <3>2
    <3> QED
      BY <3>1, <3>2, <3>3, ChainGrown
  <2> QED
    BY <1>4, <2>1 DEF n
<1>5. CASE n.key # k
  <2>1. installs'[n.key] = installs[n.key]
    BY <1>1, <1>5
  <2>2. Chain(n2, heap'[n2.next], installs[n.key])
    BY <1>1, <1>3, ChainSame DEF n
  <2> QED
    BY <2>1, <2>2 DEF n
<1> QED
  BY <1>4, <1>5

(* A latest version of another key is not concerned either.                *)
LEMMA ChainOfOther ==
    ASSUME Types, Chained, Timed, NEW i \in DOMAIN heap,
           NEW k \in Keys, NEW f \in DOMAIN heap, heap[f].latest, heap[i].key # k,
           \A j \in Keys \ {k} : installs'[j] = installs[j],
           \A j \in DOMAIN heap \ {f} : heap'[j] = heap[j], i # f
    PROVE  Chain(heap'[i], heap'[heap'[i].next], installs'[heap'[i].key])
<1>1. Chain(heap[i], heap[heap[i].next], installs[heap[i].key]) /\ heap[i].key \in Keys /\ heap'[i] = heap[i]
  BY NextIs DEF Chained
<1>2. heap[i].next # Nil => heap'[heap[i].next] = heap[heap[i].next]
  <2>1. heap[i].next # Nil => heap[i].next \in DOMAIN heap /\ heap[i].version \in Nat
    BY NextIs
  <2>2. heap[i].next # Nil => BehindOf(heap[i].version, heap[i].next)
    BY <2>1 DEF Timed, Behind
  <2> QED
    BY <2>1, <2>2 DEF BehindOf
<1>3. installs'[heap[i].key] = installs[heap[i].key]
  BY <1>1
<1>4. Chain(heap[i], heap'[heap[i].next], installs[heap[i].key])
  BY <1>1, <1>2, ChainSame
<1> QED
  BY <1>1, <1>3, <1>4

LEMMA ChainInPlace ==
    ASSUME Types, Types', Stamps, Locks, Timed, Chained, Newer, NEW c \in Cores, NEW k \in Keys, NEW delete \in BOOLEAN,
           InstallInPlace(c, k, delete)
    PROVE  Chained'
<1> DEFINE f == txn[c].refs[k]
           l == Len(heap) + 1
           t == txn[c].t
           e == [tid |-> t, deleted |-> delete]
           s == installs[k]
           keep == Keep(c, k)
<1>0. f = txn[c].refs[k] /\ e = [tid |-> txn[c].t, deleted |-> delete] /\ e.tid = t /\ e.deleted = delete
  OBVIOUS
<1> HIDE DEF f, e
<1>1. WroteInPlace(c, f, l, keep, delete)
  BY <1>0, InPlaceWrote
<1>2. /\ s \in Seq(Installs) /\ e \in Installs /\ installs'[k] = Append(s, e)
      /\ \A j \in Keys \ {k} : installs'[j] = installs[j]
      /\ f \in DOMAIN heap /\ heap[f].key = k /\ heap[f].latest /\ heap[f].version \in Ids(s)
      /\ \A w \in Ids(s) : w <= heap[f].version /\ w < e.tid
  <2>1. InstallInPlace(c, k, delete) \/ InstallReplacement(c, k, delete)
    OBVIOUS
  <2> HIDE DEF l, t, keep
  <2> QED
    BY <1>0, <2>1, InstallLast
<1>3. e.tid = t /\ e.deleted = delete /\ t = txn[c].t
  BY <1>0
<1>4. ~keep => RoTick(heap[f].version) = RoTick(t)
  <2>1. heap[f].version > 0 /\ heap[f].version \in Nat
    BY <1>2, NextIs DEF Timed, Positive
  <2> QED
    BY <1>0, <2>1 DEF Keep, can_overwrite_record_tid, RoTick, MIN_TID
<1>5. Chain(heap[f], heap[heap[f].next], s)
  BY <1>2 DEF Chained
<1>6. heap[f].next # Nil => /\ heap[f].next \in DOMAIN heap /\ heap[heap[f].next].version \in Nat
                            /\ heap[f].next # f
  <2>1. heap[f].next # Nil => heap[f].next \in DOMAIN heap /\ heap[heap[f].next].version \in Nat /\ heap[f].version \in Nat
    BY <1>2, NextIs
  <2>2. heap[f].next # Nil => heap[heap[f].next].version < heap[f].version
    BY <1>5 DEF Chain
  <2> QED
    BY <2>1, <2>2
<1>7. ASSUME NEW i \in DOMAIN heap' PROVE Chain(heap'[i], heap'[heap'[i].next], installs'[heap'[i].key])
  <2> HIDE DEF l, t, s, keep
  <2>1. CASE i \in DOMAIN heap \ {f} /\ heap[i].key = k
    <3>1. ~heap[i].latest /\ heap'[i] = heap[i]
      BY <1>1, <1>2, <2>1 DEF Locks, Rooted, WroteInPlace
    <3>2. Chain(heap'[i], heap'[heap'[i].next], installs'[heap[i].key])
      BY <1>1, <1>2, <2>1, <3>1, ChainElsewhere DEF WroteInPlace, s
    <3> QED
      BY <3>1, <3>2
  <2>2. CASE i \in DOMAIN heap \ {f} /\ heap[i].key # k
    BY <1>1, <1>2, <2>2, ChainOfOther DEF WroteInPlace
  <2>3. CASE i = f /\ keep
    <3>1. /\ heap'[f].version = e.tid /\ heap'[f].deleting = e.deleted /\ heap'[f].next = l /\ heap'[f].key = k
          /\ heap'[l].key = k /\ heap'[l].version = heap[f].version
      BY <1>1, <1>2, <1>3, <2>3 DEF WroteInPlace
    <3>2. l # Nil
      BY <1>1, HeapLen DEF WroteInPlace, Types, HeapTypes, l, Nil
    <3>3. Chain(heap'[f], heap'[l], installs'[k])
      BY <1>2, <3>1, <3>2, ChainPut
    <3> QED
      BY <2>3, <3>1, <3>3
  <2>4. CASE i = f /\ ~keep
    <3>1. /\ heap'[f].version = e.tid /\ heap'[f].deleting = e.deleted /\ heap'[f].next = heap[f].next
          /\ heap'[f].key = heap[f].key
      BY <1>1, <1>3, <2>4 DEF WroteInPlace
    <3>2. heap[f].next # Nil => heap'[heap[f].next] = heap[heap[f].next]
      BY <1>1, <1>6 DEF WroteInPlace
    <3>3. RoTick(heap[f].version) = RoTick(e.tid)
      BY <1>3, <1>4, <2>4
    <3>4. ASSUME NEW n, n = heap[f], NEW b, b = heap[heap[f].next], NEW n2, n2 = heap'[f], NEW b2, b2 = heap'[heap[f].next],
                 NEW r, r = installs'[k]
          PROVE  Chain(n2, b2, r)
      <4>1. /\ s \in Seq(Installs) /\ r = Append(s, e) /\ (\A w \in Ids(s) : w < e.tid) /\ Chain(n, b, s)
            /\ n.next # Nil => b.version \in Nat
        BY <1>2, <1>5, <1>6, <3>4
      <4>2. n2.key = n.key /\ n2.next = n.next /\ (n.next # Nil => b2.key = b.key /\ b2.version = b.version)
        BY <3>1, <3>2, <3>4
      <4>3. n2.version = e.tid /\ n2.deleting = e.deleted /\ (\A w \in Ids(s) : w <= n.version) /\ RoTick(n.version) = RoTick(e.tid)
        BY <1>2, <3>1, <3>3, <3>4
      <4> QED
        BY <1>2, <4>1, <4>2, <4>3, ChainOver
    <3> QED
      BY <1>2, <2>4, <3>1, <3>4
  <2>5. CASE i = l /\ keep
    <3>1. /\ heap'[l].version = heap[f].version /\ heap'[l].deleting = heap[f].deleting
          /\ heap'[l].next = heap[f].next /\ heap'[l].key = heap[f].key /\ ~heap'[l].latest
      BY <1>1, <2>5 DEF WroteInPlace
    <3>2. heap[f].next # Nil => heap'[heap[f].next] = heap[heap[f].next]
      BY <1>1, <1>6 DEF WroteInPlace
    <3>3. \A w \in Ids(s) : w < e.tid
      BY <1>2
    <3>4. ASSUME NEW n, n = heap[f], NEW b, b = heap[heap[f].next], NEW n2, n2 = heap'[l], NEW b2, b2 = heap'[heap[f].next],
                 NEW r, r = installs'[k]
          PROVE  Chain(n2, b2, r)
      <4>1. /\ s \in Seq(Installs) /\ r = Append(s, e) /\ (\A w \in Ids(s) : w < e.tid) /\ Chain(n, b, s)
            /\ n.next # Nil => b.version \in Nat
        BY <1>2, <1>5, <1>6, <3>4
      <4>2. n2.key = n.key /\ n2.next = n.next /\ (n.next # Nil => b2.key = b.key /\ b2.version = b.version)
        BY <3>1, <3>2, <3>4
      <4>3. n2.version = n.version /\ n2.deleting = n.deleting /\ ~n2.latest
        BY <3>1, <3>3, <3>4
      <4> QED
        BY <1>2, <4>1, <4>2, <4>3, ChainGrown
    <3> QED
      BY <1>2, <2>5, <3>1, <3>4
  <2> QED
    BY <1>1, <2>1, <2>2, <2>3, <2>4, <2>5 DEF WroteInPlace
<1> QED
  BY <1>7 DEF Chained

LEMMA ChainReplaced ==
    ASSUME Types, Types', Stamps, Locks, Timed, Chained, Newer, NEW c \in Cores, NEW k \in Keys, NEW delete \in BOOLEAN,
           InstallReplacement(c, k, delete)
    PROVE  Chained'
<1> DEFINE f == txn[c].refs[k]
           l == Len(heap) + 1
           t == txn[c].t
           e == [tid |-> t, deleted |-> delete]
           s == installs[k]
<1>0. f = txn[c].refs[k] /\ e = [tid |-> txn[c].t, deleted |-> delete] /\ e.tid = t /\ e.deleted = delete
  OBVIOUS
<1> HIDE DEF f, e
<1>1. WroteReplacement(c, f, l, delete)
  BY <1>0, ReplacedWrote
<1>2. /\ s \in Seq(Installs) /\ e \in Installs /\ installs'[k] = Append(s, e)
      /\ \A j \in Keys \ {k} : installs'[j] = installs[j]
      /\ f \in DOMAIN heap /\ heap[f].key = k /\ heap[f].latest /\ heap[f].version \in Ids(s)
      /\ \A w \in Ids(s) : w <= heap[f].version /\ w < e.tid
  <2>1. InstallInPlace(c, k, delete) \/ InstallReplacement(c, k, delete)
    OBVIOUS
  <2> HIDE DEF l, t
  <2> QED
    BY <1>0, <2>1, InstallLast
<1>3. e.tid = t /\ e.deleted = delete /\ t = txn[c].t
  BY <1>0
<1>5. Chain(heap[f], heap[heap[f].next], s)
  BY <1>2 DEF Chained
<1>6. heap[f].next # Nil => /\ heap[f].next \in DOMAIN heap /\ heap[heap[f].next].version \in Nat
                            /\ heap[f].next # f
  <2>1. heap[f].next # Nil => heap[f].next \in DOMAIN heap /\ heap[heap[f].next].version \in Nat /\ heap[f].version \in Nat
    BY <1>2, NextIs
  <2>2. heap[f].next # Nil => heap[heap[f].next].version < heap[f].version
    BY <1>5 DEF Chain
  <2> QED
    BY <2>1, <2>2
<1>7. ASSUME NEW i \in DOMAIN heap' PROVE Chain(heap'[i], heap'[heap'[i].next], installs'[heap'[i].key])
  <2> HIDE DEF l, t, s
  <2>1. CASE i \in DOMAIN heap \ {f} /\ heap[i].key = k
    <3>1. ~heap[i].latest /\ heap'[i] = heap[i]
      BY <1>1, <1>2, <2>1 DEF Locks, Rooted, WroteReplacement
    <3>2. Chain(heap'[i], heap'[heap'[i].next], installs'[heap[i].key])
      BY <1>1, <1>2, <2>1, <3>1, ChainElsewhere DEF WroteReplacement, s
    <3> QED
      BY <3>1, <3>2
  <2>2. CASE i \in DOMAIN heap \ {f} /\ heap[i].key # k
    BY <1>1, <1>2, <2>2, ChainOfOther DEF WroteReplacement
  <2>3. CASE i = l
    <3>1. /\ heap'[l].version = e.tid /\ heap'[l].deleting = e.deleted /\ heap'[l].next = f /\ heap'[l].key = k
          /\ heap'[f].key = k /\ heap'[f].version = heap[f].version
      BY <1>1, <1>2, <1>3 DEF WroteReplacement
    <3>2. f # Nil
      BY <1>2, HeapLen DEF Types, HeapTypes
    <3>3. Chain(heap'[l], heap'[f], installs'[k])
      BY <1>2, <3>1, <3>2, ChainPut
    <3> QED
      BY <2>3, <3>1, <3>3
  <2>4. CASE i = f
    <3>1. /\ heap'[f].version = heap[f].version /\ heap'[f].deleting = heap[f].deleting
          /\ heap'[f].next = heap[f].next /\ heap'[f].key = heap[f].key /\ ~heap'[f].latest
      BY <1>1 DEF WroteReplacement
    <3>2. heap[f].next # Nil => heap'[heap[f].next] = heap[heap[f].next]
      BY <1>1, <1>6 DEF WroteReplacement
    <3>3. \A w \in Ids(s) : w < e.tid
      BY <1>2
    <3>4. ASSUME NEW n, n = heap[f], NEW b, b = heap[heap[f].next], NEW n2, n2 = heap'[f], NEW b2, b2 = heap'[heap[f].next],
                 NEW r, r = installs'[k]
          PROVE  Chain(n2, b2, r)
      <4>1. /\ s \in Seq(Installs) /\ r = Append(s, e) /\ (\A w \in Ids(s) : w < e.tid) /\ Chain(n, b, s)
            /\ n.next # Nil => b.version \in Nat
        BY <1>2, <1>5, <1>6, <3>4
      <4>2. n2.key = n.key /\ n2.next = n.next /\ (n.next # Nil => b2.key = b.key /\ b2.version = b.version)
        BY <3>1, <3>2, <3>4
      <4>3. n2.version = n.version /\ n2.deleting = n.deleting /\ ~n2.latest
        BY <3>1, <3>3, <3>4
      <4> QED
        BY <1>2, <4>1, <4>2, <4>3, ChainGrown
    <3> QED
      BY <1>2, <2>4, <3>1, <3>4
  <2> QED
    BY <1>1, <2>1, <2>2, <2>3, <2>4 DEF WroteReplacement
<1> QED
  BY <1>7 DEF Chained

(***************************************************************************)
(* Snapshots: those versions under every step, and the order of the        *)
(* installs.                                                               *)
(***************************************************************************)
LEMMA ChainLasts ==
    ASSUME Types, Chained, HeapLasts
    PROVE  Chained'
<1>1. ASSUME NEW i \in DOMAIN heap' PROVE Chain(heap'[i], heap'[heap'[i].next], installs'[heap'[i].key])
  <2>1. /\ i \in DOMAIN heap /\ heap'[i].key = heap[i].key /\ heap'[i].next = heap[i].next
        /\ heap'[i].version = heap[i].version /\ heap'[i].deleting = heap[i].deleting
        /\ heap'[i].latest => heap[i].latest
        /\ installs' = installs
    BY <1>1 DEF HeapLasts
  <2>2. heap[i].next # Nil => /\ heap'[heap[i].next].key = heap[heap[i].next].key
                              /\ heap'[heap[i].next].version = heap[heap[i].next].version
    BY <2>1, NextIs DEF HeapLasts
  <2>3. Chain(heap[i], heap[heap[i].next], installs[heap[i].key])
    BY <2>1 DEF Chained
  <2>4. ASSUME NEW n, n = heap[i], NEW b, b = heap[heap[i].next], NEW s, s = installs[heap[i].key],
               NEW n2, n2 = heap'[i], NEW b2, b2 = heap'[heap[i].next]
        PROVE  Chain(n2, b2, s)
    <3>1. /\ Chain(n, b, s) /\ n2.key = n.key /\ n2.version = n.version /\ n2.next = n.next /\ n2.deleting = n.deleting
          /\ n2.latest => n.latest
          /\ n.next # Nil => b2.key = b.key /\ b2.version = b.version
      BY <2>1, <2>2, <2>3, <2>4
    <3> QED
      BY <3>1, ChainSame
  <2> QED
    BY <2>1, <2>4
<1> QED
  BY <1>1 DEF Chained

LEMMA ChainedNext ==
    ASSUME Types, Types', Stamps, Locks, Timed, Chained, Newer, [VersionsNext]_vvars
    PROVE  Chained'
<1>1. ASSUME NEW c \in Cores, NEW k \in Keys, NEW delete \in BOOLEAN, InstallInPlace(c, k, delete)
      PROVE  Chained'
  BY <1>1, ChainInPlace
<1>2. ASSUME NEW c \in Cores, NEW k \in Keys, NEW delete \in BOOLEAN, InstallReplacement(c, k, delete)
      PROVE  Chained'
  BY <1>2, ChainReplaced
<1> QED
  BY <1>1, <1>2, Links, ChainLasts

(* The installs: one more, or none.                                        *)
Grew(c, k, delete, e) ==
    /\ InstallInPlace(c, k, delete) \/ InstallReplacement(c, k, delete)
    /\ e.tid = txn[c].t /\ e.deleted = delete /\ txn[c].pc = "install"
    /\ installs[k] \in Seq(Installs) /\ installs'[k] = Append(installs[k], e)
    /\ \A j \in Keys \ {k} : installs'[j] = installs[j]
    /\ \A w \in Ids(installs[k]) : w < e.tid

LEMMA GrowsBy ==
    ASSUME Types, Types', Stamps, Locks, Chained, Newer, [VersionsNext]_vvars
    PROVE  \/ UNCHANGED installs
           \/ \E c \in Cores : \E k \in Keys : \E delete \in BOOLEAN : \E e \in Installs : Grew(c, k, delete, e)
<1>1. ASSUME NEW c \in Cores, NEW k \in Keys, NEW delete \in BOOLEAN,
             InstallInPlace(c, k, delete) \/ InstallReplacement(c, k, delete)
      PROVE  \E e \in Installs : Grew(c, k, delete, e)
  <2> DEFINE f == txn[c].refs[k]
             e == [tid |-> txn[c].t, deleted |-> delete]
  <2>1. f = txn[c].refs[k] /\ e = [tid |-> txn[c].t, deleted |-> delete] /\ e.tid = txn[c].t /\ e.deleted = delete
    OBVIOUS
  <2> HIDE DEF f, e
  <2>2. txn[c].pc = "install"
    BY <1>1, InstallPlace
  <2>3. /\ installs[k] \in Seq(Installs) /\ e \in Installs /\ installs'[k] = Append(installs[k], e)
        /\ \A j \in Keys \ {k} : installs'[j] = installs[j]
        /\ \A w \in Ids(installs[k]) : w < e.tid
    BY <1>1, <2>1, InstallLast
  <2>4. Grew(c, k, delete, e)
    BY <1>1, <2>1, <2>2, <2>3 DEF Grew
  <2> QED
    BY <2>3, <2>4
<1>2. CASE HeapLasts
  BY <1>2 DEF HeapLasts
<1> QED
  BY <1>1, <1>2, Links

LEMMA OrderedNext ==
    ASSUME Types, Types', Stamps, Locks, Chained, Ordered, Newer, [VersionsNext]_vvars
    PROVE  Ordered'
<1>1. CASE UNCHANGED installs
  BY <1>1 DEF Ordered
<1>2. ASSUME NEW c \in Cores, NEW k \in Keys, NEW delete \in BOOLEAN, NEW e \in Installs, Grew(c, k, delete, e)
      PROVE  Ordered'
  <2>1. Rising(installs'[k])
    <3>1. ASSUME NEW s, s = installs[k], NEW r, r = installs'[k] PROVE Rising(r)
      <4>1. s \in Seq(Installs) /\ r = Append(s, e) /\ Rising(s) /\ \A w \in Ids(s) : w < e.tid
        BY <1>2, <3>1 DEF Ordered, Grew
      <4> QED
        BY <4>1, Grown
    <3> QED
      BY <3>1
  <2>2. \A j \in Keys \ {k} : Rising(installs'[j])
    BY <1>2 DEF Ordered, Grew
  <2> QED
    BY <2>1, <2>2 DEF Ordered
<1> QED
  BY <1>1, <1>2, GrowsBy

(***************************************************************************)
(* Snapshots: what is to be installed, and what has left the tree.         *)
(***************************************************************************)
(* How a transaction comes to install, or to go on doing so.               *)
LEMMA Installing ==
    ASSUME Types, Types', [VersionsNext]_vvars, NEW c \in Cores, txn'[c].pc = "install"
    PROVE  \/ gen_commit_tid(c)
           \/ Kept(c) /\ txn[c].pc = "install"
           \/ \E j \in Keys : \E delete \in BOOLEAN : InstallInPlace(c, j, delete) \/ InstallReplacement(c, j, delete)
<1>1. Turn(c)
  BY TurnNext
<1>2. "install" \notin Collecting \cup {"idle", "post"}
  BY DEF Collecting, Examining
<1>3. CASE Begin(c)
  <2>1. PICK p \in ProgramSet : txn'[c] = BeginState(p)
    BY <1>3, BeginStep
  <2>2. BeginState(p).pc \in {"begin", "run"}
    BY DEF BeginState, Idle
  <2> QED
    BY <2>1, <2>2
<1>4. CASE TakeSnapshot(c)
  BY <1>4, TakeSnapshotStep, SnapFields
<1>5. CASE Walk(c)
  BY <1>5, WalkMoves DEF Finds, MovesTo
<1>6. ASSUME NEW k \in Keys, Access(c, k) PROVE FALSE
  BY <1>6, AccessStep, AccessFields
<1>7. ASSUME NEW k \in Keys, FindHead(c, k) PROVE FALSE
  BY <1>7, FindHeadMoves DEF Finds, MovesTo
<1> QED
  BY <1>1, <1>2, <1>3, <1>4, <1>5, <1>6, <1>7 DEF Turn

(* The tuples it has yet to write keep their versions.                     *)
LEMMA HeldLasts ==
    ASSUME Types, Types', Locks, [VersionsNext]_vvars, NEW c \in Cores, NEW k \in Keys,
           txn[c].pc = "install", txn'[c].pc = "install", txn'[c].refs = txn[c].refs,
           k \in txn[c].todo, k \in txn'[c].todo
    PROVE  heap'[txn[c].refs[k]].version = heap[txn[c].refs[k]].version
<1>1. txn[c].refs[k] \in Held(c) /\ txn[c].refs[k] \in Held(c)'
  BY DEF Held
<1>2. txn[c].refs[k] \in DOMAIN heap
  BY <1>1, HeldIn
<1>3. CASE HeapLasts
  BY <1>2, <1>3 DEF HeapLasts
<1>4. ASSUME NEW d \in Cores, NEW j \in Keys, NEW delete \in BOOLEAN,
             InstallInPlace(d, j, delete) \/ InstallReplacement(d, j, delete)
      PROVE  heap'[txn[c].refs[k]] = heap[txn[c].refs[k]]
  <2>1. /\ txn[d].pc = "install" /\ j \in txn[d].todo /\ txn'[d] = InstalledState(d, j) /\ OthersSame(d)
        /\ \A i \in DOMAIN heap \ {txn[d].refs[j]} : heap'[i] = heap[i]
    BY <1>4, InstallPlace
  <2>2. /\ txn[d].refs[j] \notin Held(d)'
        /\ \A x \in Cores \ {d} : txn[d].refs[j] \notin Held(x)
    BY <2>1, InstallHeld DEF Locks
  <2>3. txn[d].refs[j] # txn[c].refs[k]
    BY <1>1, <2>2
  <2> QED
    BY <1>2, <2>1, <2>3
<1> QED
  BY <1>3, <1>4, Links

LEMMA NewerNext ==
    ASSUME Types, Types', Stamps, Locks, Newer, [VersionsNext]_vvars
    PROVE  Newer'
<1>1. ASSUME NEW c \in Cores, NEW k \in Keys, txn[c].pc = "install", txn'[c].pc = "install", txn'[c].refs = txn[c].refs,
             txn'[c].t = txn[c].t, k \in txn[c].todo, k \in txn'[c].todo
      PROVE  heap'[txn'[c].refs[k]].version < txn'[c].t
  <2>1. heap'[txn[c].refs[k]].version = heap[txn[c].refs[k]].version
    BY <1>1, HeldLasts
  <2> QED
    BY <1>1, <2>1 DEF Newer
<1>2. ASSUME NEW c \in Cores, txn'[c].pc = "install", NEW k \in txn'[c].todo
      PROVE  heap'[txn'[c].refs[k]].version < txn'[c].t
  <2>0. k \in Keys
    BY <1>2, TxnFields DEF Types, TxnTypes
  <2>1. CASE gen_commit_tid(c)
    <3>1. PICK tid \in Nat : txn'[c] = DrawState(c, tid)
      BY <2>1, DrawStep
    <3>2. txn'[c].t = tid /\ txn'[c].todo = txn[c].prog.writes /\ txn'[c].refs = txn[c].refs
      BY <3>1, GenFields
    <3>3. heap[txn[c].refs[k]].version \in Met(c)
      BY <1>2, <3>2 DEF Met, Writes
    <3>4. UNCHANGED heap
      BY <2>1 DEF gen_commit_tid
    <3> QED
      BY <2>1, <3>2, <3>3, <3>4, GenNumber
  <2>2. CASE Kept(c) /\ txn[c].pc = "install"
    BY <1>1, <1>2, <2>0, <2>2 DEF Kept
  <2>3. ASSUME NEW j \in Keys, NEW delete \in BOOLEAN, InstallInPlace(c, j, delete) \/ InstallReplacement(c, j, delete)
        PROVE  heap'[txn'[c].refs[k]].version < txn'[c].t
    <3>1. txn[c].pc = "install" /\ txn'[c] = InstalledState(c, j)
      BY <2>3, InstallPlace
    <3>2. txn'[c].todo = txn[c].todo \ {j} /\ txn'[c].t = txn[c].t /\ txn'[c].refs = txn[c].refs
      BY <3>1, InstalledFields
    <3> QED
      BY <1>1, <1>2, <2>0, <3>1, <3>2
  <2> QED
    BY <1>2, <2>1, <2>2, <2>3, Installing
<1> QED
  BY <1>2 DEF Newer

LEMMA GoneForKept ==
    ASSUME NEW s \in Seq(Installs), NEW o, NEW p, o \in Nat, p \in Nat, o <= p, GoneFor(s, o)
    PROVE  GoneFor(s, p)
<1>1. PICK w \in Gone(s) : (\A v \in Ids(s) : v <= w) /\ Past(RoTick(w)) <= o
  BY DEF GoneFor
<1>2. w \in Nat
  BY HistoryTypes
<1>3. Past(RoTick(w)) \in Nat
  BY <1>2, RoTickIs, PastIs
<1>4. Past(RoTick(w)) <= p
  BY <1>1, <1>3
<1> QED
  BY <1>1, <1>4 DEF GoneFor

(* A tombstone leaves the tree when its read-only tick is over.            *)
LEMMA RemovedGone ==
    ASSUME Types, Tombs, Locks, Chained, TakenOver, NEW c \in Cores, RemoveTombstone(c)
    PROVE  GoneFor(installs[heap[Tombstone(c)].key], over)
<1> DEFINE i == Tombstone(c)
           e == Head(scratch[c])
<1>1. txn[c].pc \in Waiting
  BY DEF RemoveTombstone, Waiting, Examining
<1>2. /\ scratch[c] # <<>> /\ i \in DOMAIN heap /\ heap[i].deleting /\ Listed(c, e) /\ e.key
  BY <1>1, Examiner
<1>3. heap[i].latest
  BY RemovesLatest
<1>4. e \in Entries /\ e = scratch[c][1] /\ 1 \in DOMAIN scratch[c] /\ e.tuple = i
  BY <1>2, TombstoneTypes DEF Tombstone
<1>5. RoTick(heap[i].version) = e.tick
  BY <1>2, <1>4 DEF Tombs, IsTomb
<1>6. Past(e.tick) <= over
  BY <1>4 DEF TakenOver, Taken
<1>7. Chain(heap[i], heap[heap[i].next], installs[heap[i].key])
  BY <1>2 DEF Chained
<1>8. heap[i].version \in Gone(installs[heap[i].key]) /\ \A w \in Ids(installs[heap[i].key]) : w <= heap[i].version
  BY <1>2, <1>3, <1>7 DEF Chain
<1> QED
  BY <1>5, <1>6, <1>8 DEF GoneFor

LEMMA AbsentNext ==
    ASSUME Types, Types', Stamps, Tombs, Locks, Timed, Chained, Newer, Absent, [VersionsNext]_vvars
    PROVE  Absent'
<1>0. over \in Nat /\ over' \in Nat /\ over <= over' /\ \A k \in Keys : installs[k] \in Seq(Installs)
  BY OverNext DEF Types, MiscTypes
<1>1. ASSUME NEW k \in Keys, tree[k] = Nil, installs'[k] = installs[k] PROVE GoneFor(installs'[k], over')
  BY <1>0, <1>1, GoneForKept DEF Absent
<1>2. ASSUME NEW k \in Keys, tree'[k] = Nil, HeapLasts PROVE GoneFor(installs'[k], over')
  <2>1. installs' = installs
    BY <1>2 DEF HeapLasts
  <2>2. CASE tree[k] = Nil
    BY <1>1, <2>1, <2>2
  <2>3. CASE tree[k] # Nil
    <3>1. PICK c \in Cores : RemoveTombstone(c)
      BY <1>2, <2>3 DEF HeapLasts
    <3>2. heap[Tombstone(c)].key = k
      BY <1>2, <2>3, <3>1, RemovedHeap
    <3>3. GoneFor(installs[k], over)
      BY <3>1, <3>2, RemovedGone DEF Timed
    <3> QED
      BY <1>0, <2>1, <3>3, GoneForKept
  <2> QED
    BY <2>2, <2>3
<1>3. ASSUME NEW c \in Cores, NEW j \in Keys, NEW delete \in BOOLEAN,
             InstallInPlace(c, j, delete) \/ InstallReplacement(c, j, delete), NEW k \in Keys, tree'[k] = Nil
      PROVE  GoneFor(installs'[k], over')
  <2>1. tree[j] = txn[c].refs[j] /\ txn[c].refs[j] # Nil
    <3>1. txn[c].pc = "install" /\ j \in txn[c].todo
      BY <1>3, InstallPlace
    <3> QED
      BY <1>3, <3>1, InstallsLatest, RefTypes
  <2>2. k # j /\ tree[k] = Nil
    <3>1. CASE InstallInPlace(c, j, delete)
      BY <1>3, <2>1, <3>1 DEF InstallInPlace
    <3>2. CASE InstallReplacement(c, j, delete)
      <4>1. tree'[j] = Len(heap) + 1 /\ \A x \in Keys \ {j} : tree'[x] = tree[x]
        BY <3>2, ReplacedHeap
      <4>2. Len(heap) + 1 # Nil
        BY HeapLen DEF Types, HeapTypes, Nil
      <4> QED
        BY <1>3, <4>1, <4>2
    <3> QED
      BY <1>3, <3>1, <3>2
  <2>3. installs'[k] = installs[k]
    <3>1. installs' = [installs EXCEPT ![j] = Append(installs[j], [tid |-> txn[c].t, deleted |-> delete])]
      BY <1>3 DEF InstallInPlace, InstallReplacement, Installed
    <3>2. installs \in [Keys -> Seq(Installs)]
      BY DEF Types, MiscTypes
    <3> QED
      BY <2>2, <3>1, <3>2
  <2> QED
    BY <1>1, <2>2, <2>3
<1>4. ASSUME NEW k \in Keys, tree'[k] = Nil PROVE GoneFor(installs'[k], over')
  BY <1>2, <1>3, <1>4, Links
<1> QED
  BY <1>4 DEF Absent

(***************************************************************************)
(* What a snapshot id cuts off: whole read-only ticks, that are over.      *)
(***************************************************************************)
LEMMA QuotientGe ==
    ASSUME NEW a \in Nat, NEW b \in Nat \ {0}, NEW q \in Nat
    PROVE  b * q <= a <=> q <= a \div b
<1>1. a \div b \in Nat /\ b * (a \div b) <= a /\ a < b * ((a \div b) + 1)
  BY Quotient
<1>2. b * q \in Nat /\ b * (a \div b) \in Nat /\ b * ((a \div b) + 1) \in Nat
  BY <1>1, Product
<1>3. q <= a \div b => b * q <= b * (a \div b)
  BY <1>1, Product
<1>4. (a \div b) + 1 <= q => b * ((a \div b) + 1) <= b * q
  BY <1>1, Product
<1>5. q <= a \div b \/ (a \div b) + 1 <= q
  BY <1>1
<1>6. CASE q <= a \div b
  <2>1. b * q <= a
    BY <1>1, <1>2, <1>3, <1>6
  <2> QED
    BY <1>6, <2>1
<1>7. CASE (a \div b) + 1 <= q
  <2>1. a < b * q
    BY <1>1, <1>2, <1>4, <1>7
  <2>2. ~(b * q <= a)
    BY <1>2, <2>1
  <2>3. ~(q <= a \div b)
    BY <1>1, <1>7
  <2> QED
    BY <2>2, <2>3
<1> QED
  BY <1>5, <1>6, <1>7

LEMMA SnapshotCut ==
    ASSUME NEW o \in Nat, NEW v \in Nat, v > 0
    PROVE  v > ComputeReadOnlyTid(o + 1) <=> to_read_only_tick(o + 1) <= RoTick(v)
<1> DEFINE q == to_read_only_tick(o + 1)
           b == q * M
<1>1. q \in Nat /\ M \in Nat \ {0} /\ M * q \in Nat /\ o + 1 \in Nat
  BY ReadOnly, Spans
<1>2. b = M * q
  BY <1>1, SMTT(30)
<1>3. ComputeReadOnlyTid(o + 1) = IF b = 0 THEN MakeTid(0, 0, 0) ELSE MakeTid(CoreSpan - 1, NumSpan - 1, b - 1)
  BY DEF ComputeReadOnlyTid, M
<1>4. RoTick(v) \in Nat /\ EpochId(v) \in Nat
  BY RoTickIs
<1>5. M * q <= EpochId(v) <=> q <= RoTick(v)
  <2>1. M * q <= EpochId(v) <=> q <= EpochId(v) \div M
    BY <1>1, <1>4, QuotientGe
  <2>2. RoTick(v) = EpochId(v) \div M
    BY DEF RoTick, to_read_only_tick, M
  <2> QED
    BY <2>1, <2>2
<1> HIDE DEF q
<1>6. CASE b = 0
  <2>1. MakeTid(0, 0, 0) = 0
    <3>1. MakeTid(0, 0, 0) = 0 + CoreSpan * (0 + NumSpan * 0)
      BY DEF MakeTid
    <3>2. CoreSpan \in Nat /\ NumSpan \in Nat
      BY Spans
    <3> QED
      BY <3>1, <3>2
  <2>2. M * q <= EpochId(v)
    BY <1>2, <1>4, <1>6
  <2> QED
    BY <1>3, <1>5, <1>6, <2>1, <2>2 DEF q
<1>7. CASE b # 0
  <2>1. b \in Nat \ {0}
    BY <1>1, <1>2, <1>7
  <2> HIDE DEF b
  <2>2. MakeTid(CoreSpan - 1, NumSpan - 1, b - 1) + 1 = Span * b /\ Span * b \in Nat
    BY <2>1, LastTid
  <2>3. MakeTid(CoreSpan - 1, NumSpan - 1, b - 1) \in Nat
    BY <1>1, <1>3, <1>7, ReadOnlyTid
  <2>4. v > MakeTid(CoreSpan - 1, NumSpan - 1, b - 1) <=> Span * b <= v
    BY <2>2, <2>3
  <2>5. Span * b <= v <=> b <= EpochId(v)
    BY <2>1, Spans, QuotientGe DEF EpochId, Span
  <2> QED
    BY <1>2, <1>3, <1>5, <1>7, <2>4, <2>5 DEF q
<1> QED
  BY <1>6, <1>7

(* Of a read-only tick, all ids are up to t or none; none of a tick that is*)
(* not over is.                                                            *)
Fits(t, o) ==
    /\ \A u, v \in Nat : v > 0 /\ RoTick(u) = RoTick(v) /\ u > t => v > t
    /\ \A v \in Nat : EpochId(v) > o => v > t
Aligned == \A c \in Cores : SnapshotTaken(c) => Fits(txn[c].t, over)

LEMMA SnapshotFits ==
    ASSUME NEW o \in Nat
    PROVE  Fits(ComputeReadOnlyTid(o + 1), o)
<1> DEFINE t == ComputeReadOnlyTid(o + 1)
<1>1. t \in Nat
  BY ReadOnlyTid
<1>2. ASSUME NEW u \in Nat, NEW v \in Nat, v > 0, RoTick(u) = RoTick(v), u > t PROVE v > t
  <2>1. u > 0
    BY <1>1, <1>2
  <2> HIDE DEF t
  <2> QED
    BY <1>2, <2>1, SnapshotCut DEF t
<1>3. ASSUME NEW v \in Nat, EpochId(v) > o PROVE v > t
  <2>1. v > 0
    <3>1. CASE v = 0
      <4>1. EpochId(v) = 0
        BY <3>1, Spans, QuotientIs DEF EpochId, Span
      <4> QED
        BY <1>3, <4>1
    <3> QED
      BY <3>1
  <2>2. EpochId(v) \in Nat /\ o + 1 <= EpochId(v)
    BY <1>3, RoTickIs
  <2>3. to_read_only_tick(o + 1) <= to_read_only_tick(EpochId(v))
    BY <2>2, ReadOnly
  <2> QED
    BY <2>1, <2>3, SnapshotCut DEF RoTick
<1> QED
  BY <1>2, <1>3 DEF Fits

LEMMA FitsKept ==
    ASSUME NEW t, NEW o \in Nat, NEW p \in Nat, o <= p, Fits(t, o)
    PROVE  Fits(t, p)
<1>1. ASSUME NEW v \in Nat, EpochId(v) > p PROVE v > t
  <2>1. EpochId(v) \in Nat
    BY RoTickIs
  <2>2. EpochId(v) > o
    BY <1>1, <2>1
  <2> QED
    BY <2>2 DEF Fits
<1> QED
  BY <1>1 DEF Fits

LEMMA AlignedNext ==
    ASSUME Types, Types', Aligned, [VersionsNext]_vvars
    PROVE  Aligned'
<1>0. over \in Nat /\ over' \in Nat /\ over <= over'
  BY OverNext
<1>1. ASSUME NEW d \in Cores, SnapshotTaken(d)' PROVE Fits(txn'[d].t, over')
  <2>1. SnapshotKept(d)
    BY MovedNext DEF Moved
  <2>2. CASE SnapshotTaken(d) /\ txn'[d].t = txn[d].t
    <3>1. Fits(txn[d].t, over)
      BY <2>2 DEF Aligned
    <3> QED
      BY <1>0, <2>2, <3>1, FitsKept
  <2>3. CASE txn'[d].t = ComputeReadOnlyTid(over + 1)
    BY <1>0, <2>3, SnapshotFits, FitsKept
  <2> QED
    BY <1>1, <2>1, <2>2, <2>3 DEF SnapshotKept
<1> QED
  BY <1>1 DEF Aligned

(* An id that is yet to be installed is above those of the snapshots.      *)
LEMMA InstallsLater ==
    ASSUME Types, Stamps, Aligned, NEW c \in Cores, SnapshotTaken(c), NEW d \in Cores, txn[d].pc = "install"
    PROVE  txn[d].t > txn[c].t
<1>1. region[d] # None /\ over < region[d] /\ over \in Nat /\ region[d] \in Nat
  BY DEF Types, MiscTypes, Writing
<1>2. region[d] <= EpochId(txn[d].t) /\ txn[d].t \in Nat /\ EpochId(txn[d].t) \in Nat
  BY InstallTid DEF Stamps
<1>3. EpochId(txn[d].t) > over
  BY <1>1, <1>2
<1> QED
  BY <1>2, <1>3 DEF Aligned, Fits

(***************************************************************************)
(* The walk of a snapshot: it has passed no version it could have seen.    *)
(***************************************************************************)
Beyond(s, v, t) == \A w \in Ids(s) : w > v => w > t
Walking ==
    \A c \in Cores : txn[c].pc = "walk" =>
       /\ heap[txn[c].at].key = txn[c].key
       /\ Beyond(installs[txn[c].key], heap[txn[c].at].version, txn[c].t)

(* A version above the snapshot, and the one behind it.                    *)
LEMMA WalkOn ==
    ASSUME NEW s \in Seq(Installs), Rising(s), NEW n, NEW b, Chain(n, b, s), NEW t \in Nat, NEW o, Fits(t, o),
           Beyond(s, n.version, t), n.version > t
    PROVE  /\ n.next = Nil => \A w \in Ids(s) : w > t
           /\ n.next # Nil => Beyond(s, b.version, t)
<1>1. Ids(s) \subseteq Nat /\ n.version \in Ids(s)
  BY HistoryTypes DEF Chain
<1>2. \A w \in Ids(s) : w > 0
  <2>1. \A m \in DOMAIN s : LoadTid < s[m].tid /\ s[m].tid \in Nat
    BY HistoryTypes DEF Rising
  <2> QED
    BY <2>1, Loaded DEF Ids
<1>3. ASSUME NEW w \in Ids(s), n.next # Nil => w > b.version PROVE w > t
  <2>1. w \in Nat /\ n.version \in Nat
    BY <1>1
  <2>2. CASE w > n.version
    BY <2>2 DEF Beyond
  <2>3. CASE w = n.version
    BY <2>3
  <2>4. CASE w < n.version
    <3>1. RoTick(w) = RoTick(n.version)
      BY <1>3, <2>4 DEF Chain
    <3> QED
      BY <1>2, <2>1, <3>1 DEF Fits
  <2> QED
    BY <2>1, <2>2, <2>3, <2>4
<1> QED
  BY <1>3 DEF Beyond

(* A version in the tree is the newest of its key.                         *)
LEMMA TreeNewest ==
    ASSUME Types, Locks, Chained, NEW k \in Keys, tree[k] # Nil
    PROVE  /\ tree[k] \in DOMAIN heap /\ heap[tree[k]].key = k
           /\ \A t : Beyond(installs[k], heap[tree[k]].version, t)
<1>1. tree[k] \in DOMAIN heap
  BY DEF Types, HeapTypes
<1>2. heap[tree[k]].key = k
  BY DEF Locks, Rooted
<1>3. heap[tree[k]].latest
  BY <1>1, <1>2 DEF Locks, Rooted
<1>4. Chain(heap[tree[k]], heap[heap[tree[k]].next], installs[k])
  BY <1>1, <1>2 DEF Chained
<1>5. Ids(installs[k]) \subseteq Nat
  <2>1. installs[k] \in Seq(Installs)
    BY DEF Types, MiscTypes
  <2> QED
    BY <2>1, HistoryTypes
<1>6. \A w \in Ids(installs[k]) : ~(w > heap[tree[k]].version)
  BY <1>3, <1>4, <1>5 DEF Chain
<1> QED
  BY <1>1, <1>2, <1>6 DEF Beyond

(* No tuple's version goes back.                                           *)
LEMMA VersionsRise ==
    ASSUME Types, Types', Newer, [VersionsNext]_vvars, NEW i \in DOMAIN heap
    PROVE  heap'[i].key = heap[i].key /\ heap'[i].version \in Nat /\ heap[i].version <= heap'[i].version
<1>0. heap[i].version \in Nat
  BY NextIs
<1>1. heap'[i].key = heap[i].key /\ i \in DOMAIN heap'
  BY TypesNext DEF Keeps, HeapStays, Grows
<1>2. heap'[i].version \in Nat
  BY <1>1, HeapLen, TupleFields DEF Types, HeapTypes
<1>3. ASSUME NEW c \in Cores, NEW k \in Keys, NEW delete \in BOOLEAN, InstallInPlace(c, k, delete)
      PROVE  heap[i].version <= heap'[i].version
  <2>1. \E l : WroteInPlace(c, txn[c].refs[k], l, Keep(c, k), delete)
    BY <1>3, InPlaceWrote
  <2>2. txn[c].pc = "install" /\ k \in txn[c].todo
    BY <1>3, InstallPlace
  <2>3. heap[txn[c].refs[k]].version < txn[c].t
    BY <2>2 DEF Newer
  <2> QED
    BY <1>0, <1>2, <2>1, <2>3 DEF WroteInPlace
<1>4. ASSUME NEW c \in Cores, NEW k \in Keys, NEW delete \in BOOLEAN, InstallReplacement(c, k, delete)
      PROVE  heap[i].version <= heap'[i].version
  <2>1. \E l : WroteReplacement(c, txn[c].refs[k], l, delete)
    BY <1>4, ReplacedWrote
  <2> QED
    BY <1>0, <1>2, <2>1 DEF WroteReplacement
<1>5. CASE HeapLasts
  BY <1>0, <1>5 DEF HeapLasts
<1>6. heap[i].version <= heap'[i].version
  BY <1>3, <1>4, <1>5, Links
<1> QED
  BY <1>1, <1>2, <1>6

(* What is installed later is above a snapshot.                            *)
LEMMA InstallsAbove ==
    ASSUME Types, Types', Stamps, Locks, Chained, Newer, Aligned, [VersionsNext]_vvars,
           NEW c \in Cores, SnapshotTaken(c), NEW k \in Keys
    PROVE  /\ installs[k] \in Seq(Installs)
           /\ \A w \in Ids(installs'[k]) : w \in Ids(installs[k]) \/ w > txn[c].t
           /\ NewestOf(installs'[k], txn[c].t) = NewestOf(installs[k], txn[c].t)
<1>0. installs[k] \in Seq(Installs) /\ txn[c].t \in Nat
  BY TxnFields DEF Types, MiscTypes, TxnTypes
<1>1. CASE installs'[k] = installs[k]
  BY <1>0, <1>1
<1>2. ASSUME NEW d \in Cores, NEW j \in Keys, NEW delete \in BOOLEAN, NEW e \in Installs, Grew(d, j, delete, e)
      PROVE  \/ installs'[k] = installs[k]
             \/ installs'[k] = Append(installs[k], e) /\ e.tid > txn[c].t
  BY <1>2, InstallsLater DEF Grew
<1>3. ASSUME NEW e \in Installs, installs'[k] = Append(installs[k], e), e.tid > txn[c].t
      PROVE  /\ \A w \in Ids(installs'[k]) : w \in Ids(installs[k]) \/ w > txn[c].t
             /\ NewestOf(installs'[k], txn[c].t) = NewestOf(installs[k], txn[c].t)
  <2>1. ASSUME NEW r, r = installs'[k]
        PROVE  /\ \A w \in Ids(r) : w \in Ids(installs[k]) \/ w > txn[c].t
               /\ NewestOf(r, txn[c].t) = NewestOf(installs[k], txn[c].t)
    <3>1. r = Append(installs[k], e)
      BY <1>3, <2>1
    <3>2. Ids(r) = Ids(installs[k]) \cup {e.tid} /\ NewestOf(r, txn[c].t) = NewestOf(installs[k], txn[c].t)
      BY <1>0, <1>3, <3>1, Grown
    <3> QED
      BY <1>3, <3>2
  <2> QED
    BY <2>1
<1> QED
  BY <1>0, <1>1, <1>2, <1>3, GrowsBy

(***************************************************************************)
(* Snapshots: the steps of a walk.                                         *)
(***************************************************************************)
(* How a snapshot transaction comes to a version.                          *)
LEMMA Walks ==
    ASSUME Types, Types', [VersionsNext]_vvars, NEW c \in Cores, txn'[c].pc = "walk"
    PROVE  (Kept(c) /\ txn[c].pc = "walk") \/ Walk(c) \/ \E k \in Keys : FindHead(c, k)
<1>1. Turn(c)
  BY TurnNext
<1>2. "walk" \notin Collecting \cup {"idle", "post"}
  BY DEF Collecting, Examining
<1>3. CASE Begin(c)
  <2>1. PICK p \in ProgramSet : txn'[c] = BeginState(p)
    BY <1>3, BeginStep
  <2>2. BeginState(p).pc \in {"begin", "run"}
    BY DEF BeginState, Idle
  <2> QED
    BY <2>1, <2>2
<1>4. CASE TakeSnapshot(c)
  BY <1>4, TakeSnapshotStep, SnapFields
<1>5. CASE gen_commit_tid(c)
  BY <1>5, DrawStep, GenFields
<1>6. ASSUME NEW k \in Keys, Access(c, k) PROVE FALSE
  BY <1>6, AccessStep, AccessFields
<1>7. ASSUME NEW k \in Keys, NEW delete \in BOOLEAN, InstallInPlace(c, k, delete) \/ InstallReplacement(c, k, delete)
      PROVE  FALSE
  <2>1. txn[c].pc = "install" /\ txn'[c] = InstalledState(c, k)
    BY <1>7, InstallPlace
  <2> QED
    BY <2>1, InstalledFields
<1> QED
  BY <1>1, <1>2, <1>3, <1>4, <1>5, <1>6, <1>7 DEF Turn

LEMMA SnapshotOf ==
    ASSUME Types, NEW c \in Cores
    PROVE  /\ txn[c].t \in Nat /\ txn[c].at \in DOMAIN heap \cup {Nil}
           /\ txn[c].pc = "walk" => /\ txn[c].at \in DOMAIN heap /\ txn[c].key \in Keys
                                    /\ heap[txn[c].at].version \in Nat
           /\ txn[c].pc \in {"snapshot", "walk"} =>
                 SnapshotTaken(c) /\ over < region[c] /\ over \in Nat /\ region[c] \in Nat
<1>1. txn[c] \in TxnStates /\ Shape(txn[c]) /\ txn[c].at \in DOMAIN heap \cup {Nil}
  BY DEF Types, TxnTypes
<1>2. txn[c].t \in Nat /\ txn[c].key \in Keys \cup {Nil} /\ DOMAIN txn[c].got \subseteq Keys /\ txn[c].prog.reads \subseteq Keys
  BY <1>1, TxnFields
<1>3. txn[c].pc = "walk" => txn[c].at \in DOMAIN heap /\ txn[c].key \in Keys
  BY <1>1, <1>2 DEF Shape
<1>4. txn[c].pc \in {"snapshot", "walk"} => SnapshotTaken(c)
  BY <1>1 DEF Shape, Reading, SnapshotTaken
<1>5. txn[c].pc \in {"snapshot", "walk"} => over < region[c] /\ over \in Nat /\ region[c] \in Nat
  BY DEF Types, MiscTypes, Reading
<1> QED
  BY <1>1, <1>2, <1>3, <1>4, <1>5, NextIs

LEMMA WalkingNext ==
    ASSUME Types, Types', Stamps, Locks, Chained, Ordered, Newer, Aligned, Walking, [VersionsNext]_vvars
    PROVE  Walking'
<1>1. ASSUME NEW c \in Cores, txn'[c].pc = "walk"
      PROVE  /\ heap'[txn'[c].at].key = txn'[c].key
             /\ Beyond(installs'[txn'[c].key], heap'[txn'[c].at].version, txn'[c].t)
  <2>1. CASE Kept(c) /\ txn[c].pc = "walk"
    <3>1. txn'[c].at = txn[c].at /\ txn'[c].key = txn[c].key /\ txn'[c].t = txn[c].t
      BY <2>1 DEF Kept
    <3>2. /\ txn[c].at \in DOMAIN heap /\ txn[c].key \in Keys /\ txn[c].t \in Nat /\ SnapshotTaken(c)
          /\ heap[txn[c].at].version \in Nat
      BY <2>1, SnapshotOf
    <3>3. /\ heap'[txn[c].at].key = heap[txn[c].at].key /\ heap'[txn[c].at].version \in Nat
          /\ heap[txn[c].at].version <= heap'[txn[c].at].version
      BY <3>2, VersionsRise
    <3>4. /\ heap[txn[c].at].key = txn[c].key
          /\ Beyond(installs[txn[c].key], heap[txn[c].at].version, txn[c].t)
      BY <2>1 DEF Walking
    <3>5. \A w \in Ids(installs'[txn[c].key]) : w \in Ids(installs[txn[c].key]) \/ w > txn[c].t
      BY <3>2, InstallsAbove
    <3>6. Ids(installs[txn[c].key]) \subseteq Nat
      BY <3>2, InstallsAbove, HistoryTypes
    <3>7. Beyond(installs'[txn[c].key], heap'[txn[c].at].version, txn[c].t)
      BY <3>2, <3>3, <3>4, <3>5, <3>6 DEF Beyond
    <3> QED
      BY <3>1, <3>3, <3>4, <3>7
  <2>2. CASE Walk(c)
    <3> DEFINE n == heap[txn[c].at]
    <3>1. txn[c].pc = "walk" /\ UNCHANGED <<heap, installs>>
      BY <2>2 DEF Walk, SameStore
    <3>2. txn[c].at \in DOMAIN heap /\ txn[c].key \in Keys /\ txn[c].t \in Nat /\ SnapshotTaken(c) /\ n.version \in Nat
      BY <3>1, SnapshotOf
    <3>3. /\ ~(n.version <= txn[c].t) /\ n.next # Nil
          /\ txn'[c].at = n.next /\ txn'[c].key = txn[c].key /\ txn'[c].t = txn[c].t
      BY <1>1, <2>2, WalkMoves DEF Finds, MovesTo
    <3>4. n.key = txn[c].key /\ Beyond(installs[txn[c].key], n.version, txn[c].t)
      BY <3>1 DEF Walking
    <3>5. Chain(n, heap[n.next], installs[txn[c].key])
      BY <3>2, <3>4 DEF Chained
    <3>6. installs[txn[c].key] \in Seq(Installs) /\ Rising(installs[txn[c].key]) /\ Fits(txn[c].t, over)
      BY <3>2 DEF Types, MiscTypes, Ordered, Aligned
    <3>7. n.version > txn[c].t
      BY <3>2, <3>3
    <3>8. Beyond(installs[txn[c].key], heap[n.next].version, txn[c].t)
      <4> HIDE DEF n
      <4> QED
        BY <3>2, <3>3, <3>4, <3>5, <3>6, <3>7, WalkOn
    <3>9. heap[n.next].key = txn[c].key
      BY <3>3, <3>4, <3>5 DEF Chain
    <3> QED
      BY <3>1, <3>3, <3>8, <3>9
  <2>3. ASSUME NEW k \in Keys, FindHead(c, k)
        PROVE  /\ heap'[txn'[c].at].key = txn'[c].key
               /\ Beyond(installs'[txn'[c].key], heap'[txn'[c].at].version, txn'[c].t)
    <3>1. UNCHANGED <<heap, installs>>
      BY <2>3 DEF FindHead, SameStore
    <3>2. tree[k] # Nil /\ txn'[c].at = tree[k] /\ txn'[c].key = k
      BY <1>1, <2>3, FindHeadMoves DEF Finds, MovesTo
    <3> QED
      BY <3>1, <3>2, TreeNewest
  <2> QED
    BY <1>1, <2>1, <2>2, <2>3, Walks
<1> QED
  BY <1>1 DEF Walking

(***************************************************************************)
(* What a snapshot has read stays the newest version up to its id.         *)
(***************************************************************************)
Seen == \A c \in Cores : txn[c].prog.snapshot =>
           \A k \in DOMAIN txn[c].got : txn[c].got[k] = NewestOf(installs[k], txn[c].t)

(* A key that is not in the tree is gone for every snapshot there is.      *)
LEMMA SeesAbsent ==
    ASSUME Types, SnapshotEnds, Ordered, Absent, NEW c \in Cores, txn[c].pc = "snapshot", NEW k \in Keys, tree[k] = Nil
    PROVE  NewestOf(installs[k], txn[c].t) = MIN_TID
<1>1. installs[k] \in Seq(Installs) /\ Rising(installs[k]) /\ txn[c].t \in Nat
  BY SnapshotOf DEF Types, MiscTypes, Ordered
<1>2. PICK w \in Gone(installs[k]) : (\A v \in Ids(installs[k]) : v <= w) /\ Past(RoTick(w)) <= over
  BY DEF Absent, GoneFor
<1>3. w \in Ids(installs[k]) /\ Ids(installs[k]) \subseteq Nat
  BY <1>1, HistoryTypes
<1>4. Past(RoTick(w)) \in Nat
  BY <1>3, RoTickIs, PastIs
<1>5. SnapshotTaken(c) /\ over < region[c] /\ over \in Nat /\ region[c] \in Nat
  BY SnapshotOf
<1>6. ~(w > txn[c].t)
  <2>1. w > txn[c].t => region[c] <= Past(RoTick(w))
    BY <1>3, <1>5 DEF SnapshotEnds
  <2> QED
    BY <1>2, <1>4, <1>5, <2>1
<1>7. w <= txn[c].t
  BY <1>1, <1>3, <1>6
<1>8. \A v \in Ids(installs[k]) : v > w => v > txn[c].t
  BY <1>2, <1>3
<1> QED
  BY <1>1, <1>2, <1>3, <1>7, <1>8, NewestAt

(* What a walk finds is the newest up to the snapshot.                     *)
LEMMA SeesVersion ==
    ASSUME Types, Chained, Ordered, Aligned, Walking, NEW c \in Cores, txn[c].pc = "walk",
           NEW n, n = heap[txn[c].at]
    PROVE  /\ txn[c].key \in Keys
           /\ n.version <= txn[c].t =>
                 NewestOf(installs[txn[c].key], txn[c].t) = IF n.deleting THEN MIN_TID ELSE n.version
           /\ ~(n.version <= txn[c].t) /\ n.next = Nil => NewestOf(installs[txn[c].key], txn[c].t) = MIN_TID
<1> DEFINE s == installs[txn[c].key]
           t == txn[c].t
<1>1. txn[c].at \in DOMAIN heap /\ txn[c].key \in Keys /\ t \in Nat /\ SnapshotTaken(c) /\ n.version \in Nat
  BY SnapshotOf
<1>2. n.key = txn[c].key /\ Beyond(s, n.version, t)
  BY DEF Walking
<1>3. Chain(n, heap[n.next], s)
  BY <1>1, <1>2 DEF Chained
<1>4. s \in Seq(Installs) /\ Rising(s) /\ Fits(t, over)
  BY <1>1 DEF Types, MiscTypes, Ordered, Aligned
<1> HIDE DEF s, t
<1>5. CASE n.version <= t
  <2>1. n.version \in Ids(s) /\ (n.deleting <=> n.version \in Gone(s))
    BY <1>3 DEF Chain
  <2>2. \A w \in Ids(s) : w > n.version => w > t
    BY <1>2 DEF Beyond
  <2>3. NewestOf(s, t) = IF n.version \in Gone(s) THEN MIN_TID ELSE n.version
    BY <1>1, <1>4, <1>5, <2>1, <2>2, NewestAt
  <2> QED
    BY <1>1, <1>5, <2>1, <2>3 DEF s, t
<1>6. CASE ~(n.version <= t)
  <2>1. n.version > t
    BY <1>1, <1>6
  <2>2. n.next = Nil => \A w \in Ids(s) : w > t
    BY <1>1, <1>2, <1>3, <1>4, <2>1, WalkOn
  <2>3. n.next = Nil => NewestOf(s, t) = MIN_TID
    BY <1>1, <1>4, <2>2, NewestNone
  <2> QED
    BY <1>1, <1>6, <2>3 DEF s, t
<1> QED
  BY <1>5, <1>6

LEMMA SeenNext ==
    ASSUME Types, Types', Stamps, Locks, Timed, Chained, Ordered, Absent, Newer, Aligned, Walking, Seen,
           [VersionsNext]_vvars
    PROVE  Seen'
<1>1. ASSUME NEW c \in Cores, txn'[c].prog.snapshot, NEW k \in DOMAIN txn'[c].got
      PROVE  txn'[c].got[k] = NewestOf(installs'[k], txn'[c].t)
  <2>1. Turn(c)
    BY TurnNext
  <2>2. /\ txn[c] \in TxnStates /\ Shape(txn[c]) /\ txn'[c] \in TxnStates /\ Shape(txn'[c])
    BY DEF Types, TxnTypes
  <2>3. txn'[c].pc \notin Collecting \cup {"idle", "post"} \cup Writing
    BY <1>1, <2>2, IdleShape DEF Shape
  <2>4. k \in Keys
    BY <2>2, TxnFields
  <2>5. ASSUME txn'[c].got = txn[c].got, txn'[c].t = txn[c].t, txn'[c].prog = txn[c].prog
        PROVE  txn'[c].got[k] = NewestOf(installs'[k], txn'[c].t)
    <3>1. SnapshotTaken(c)
      BY <1>1, <2>2, <2>5 DEF Shape, SnapshotTaken
    <3>2. NewestOf(installs'[k], txn[c].t) = NewestOf(installs[k], txn[c].t)
      BY <2>4, <3>1, InstallsAbove
    <3>3. txn[c].got[k] = NewestOf(installs[k], txn[c].t)
      BY <1>1, <2>5 DEF Seen
    <3> QED
      BY <2>5, <3>2, <3>3
  <2>6. CASE Kept(c)
    BY <2>5, <2>6 DEF Kept
  <2>7. CASE Begin(c)
    <3>1. PICK p \in ProgramSet : txn'[c] = BeginState(p)
      BY <2>7, BeginStep
    <3>2. txn'[c].pc = "begin" \/ txn'[c].pc = "run"
      BY <3>1 DEF BeginState, Idle
    <3> QED
      BY <1>1, <2>2, <2>3, <3>2 DEF Shape, Writing
  <2>8. CASE TakeSnapshot(c)
    <3>1. txn[c].pc = "begin" /\ txn'[c].got = txn[c].got
      BY <2>8, TakeSnapshotStep, SnapFields DEF TakeSnapshot
    <3> QED
      BY <1>1, <2>2, <3>1 DEF Shape
  <2>9. CASE gen_commit_tid(c)
    BY <2>3, <2>9, DrawStep, GenFields DEF Writing
  <2>10. ASSUME NEW j \in Keys, Access(c, j) PROVE FALSE
    BY <2>3, <2>10, AccessStep, AccessFields DEF Writing
  <2>11. ASSUME NEW j \in Keys, NEW delete \in BOOLEAN, InstallInPlace(c, j, delete) \/ InstallReplacement(c, j, delete)
         PROVE  FALSE
    <3>1. txn[c].pc = "install" /\ txn'[c] = InstalledState(c, j)
      BY <2>11, InstallPlace
    <3>2. txn'[c].prog = txn[c].prog
      BY <3>1, InstalledFields
    <3> QED
      BY <1>1, <2>2, <3>1, <3>2 DEF Shape, Writing
  <2>12. ASSUME NEW j \in Keys, FindHead(c, j)
         PROVE  txn'[c].got[k] = NewestOf(installs'[k], txn'[c].t)
    <3>1. txn[c].pc = "snapshot" /\ UNCHANGED installs
      BY <2>12 DEF FindHead, SameStore
    <3>2. CASE tree[j] # Nil
      BY <2>5, <2>12, <3>2, FindHeadMoves DEF MovesTo
    <3>3. CASE tree[j] = Nil
      <4>1. Finds(txn[c], txn'[c], j, MIN_TID)
        BY <2>12, <3>3, FindHeadMoves
      <4>2. CASE k = j
        BY <3>1, <3>3, <4>1, <4>2, SeesAbsent DEF Finds, Timed
      <4>3. CASE k # j
        <5>1. k \in DOMAIN txn[c].got /\ txn'[c].got[k] = txn[c].got[k] /\ txn'[c].t = txn[c].t /\ txn[c].prog.snapshot
          BY <1>1, <4>1, <4>3 DEF Finds
        <5> QED
          BY <3>1, <5>1 DEF Seen
      <4> QED
        BY <4>2, <4>3
    <3> QED
      BY <3>2, <3>3
  <2>13. CASE Walk(c)
    <3> DEFINE n == heap[txn[c].at]
    <3>1. txn[c].pc = "walk" /\ UNCHANGED installs
      BY <2>13 DEF Walk, SameStore
    <3>2. /\ n.version <= txn[c].t =>
                Finds(txn[c], txn'[c], txn[c].key, IF n.deleting THEN MIN_TID ELSE n.version)
          /\ ~(n.version <= txn[c].t) /\ n.next = Nil => Finds(txn[c], txn'[c], txn[c].key, MIN_TID)
          /\ ~(n.version <= txn[c].t) /\ n.next # Nil => MovesTo(txn[c], txn'[c], txn[c].key, n.next)
      BY <2>13, WalkMoves
    <3>3. /\ n.version <= txn[c].t =>
                NewestOf(installs[txn[c].key], txn[c].t) = IF n.deleting THEN MIN_TID ELSE n.version
          /\ ~(n.version <= txn[c].t) /\ n.next = Nil => NewestOf(installs[txn[c].key], txn[c].t) = MIN_TID
      BY <3>1, SeesVersion
    <3> HIDE DEF n
    <3>4. CASE MovesTo(txn[c], txn'[c], txn[c].key, n.next)
      BY <2>5, <3>4 DEF MovesTo
    <3>5. ASSUME NEW v, Finds(txn[c], txn'[c], txn[c].key, v), v = NewestOf(installs[txn[c].key], txn[c].t)
          PROVE  txn'[c].got[k] = NewestOf(installs'[k], txn'[c].t)
      <4>1. CASE k = txn[c].key
        BY <3>1, <3>5, <4>1 DEF Finds
      <4>2. CASE k # txn[c].key
        <5>1. k \in DOMAIN txn[c].got /\ txn'[c].got[k] = txn[c].got[k] /\ txn'[c].t = txn[c].t /\ txn[c].prog.snapshot
          BY <1>1, <3>5, <4>2 DEF Finds
        <5> QED
          BY <3>1, <5>1 DEF Seen
      <4> QED
        BY <4>1, <4>2
    <3>6. CASE n.version <= txn[c].t
      BY <3>2, <3>3, <3>5, <3>6
    <3>7. CASE ~(n.version <= txn[c].t) /\ n.next = Nil
      BY <3>2, <3>3, <3>5, <3>7
    <3> QED
      BY <3>2, <3>4, <3>6, <3>7
  <2> QED
    BY <2>1, <2>3, <2>6, <2>7, <2>8, <2>9, <2>10, <2>11, <2>12, <2>13 DEF Turn
<1> QED
  BY <1>1 DEF Seen

(***************************************************************************)
(* Snapshots: the invariant, and the theorem.                              *)
(***************************************************************************)
Stable == Chained /\ Ordered /\ Absent /\ Newer /\ Aligned /\ Walking /\ Seen
StableInv == TimedInv /\ Stable

LEMMA StableNext ==
    ASSUME TimedInv, Types', Stable, [VersionsNext]_vvars
    PROVE  Stable'
<1>1. Types /\ Stamps /\ Tombs /\ Locks /\ Timed
  BY DEF TimedInv, PlacedInv, Locked, Typed
<1>2. Chained /\ Ordered /\ Absent /\ Newer /\ Aligned /\ Walking /\ Seen
  BY DEF Stable
<1>3. Chained' /\ Ordered'
  BY <1>1, <1>2, ChainedNext, OrderedNext
<1>4. Newer' /\ Absent'
  BY <1>1, <1>2, NewerNext, AbsentNext
<1>5. Aligned' /\ Walking'
  BY <1>1, <1>2, AlignedNext, WalkingNext
<1>6. Seen'
  BY <1>1, <1>2, SeenNext
<1> QED
  BY <1>3, <1>4, <1>5, <1>6 DEF Stable

LEMMA InitStable ==
    ASSUME VersionsInit
    PROVE  Stable
<1>1. /\ tree = [k \in Keys |-> k] /\ installs = [k \in Keys |-> <<>>] /\ txn = [c \in Cores |-> Idle]
      /\ DOMAIN heap = Keys
      /\ \A k \in Keys : /\ heap[k].key = k /\ heap[k].version = LoadTid /\ heap[k].next = Nil
                         /\ heap[k].latest /\ ~heap[k].deleting /\ k # Nil
  BY InitHeap DEF VersionsInit
<1>2. \A k \in Keys : installs[k] = <<>> /\ tree[k] = k
  BY <1>1
<1>3. DOMAIN <<>> = {}
  OBVIOUS
<1>4. \A k \in Keys : Ids(installs[k]) = {LoadTid} /\ Gone(installs[k]) = {} /\ Rising(installs[k])
  BY <1>2, <1>3 DEF Ids, Gone, Rising
<1>5. \A c \in Cores : txn[c].pc = "idle" /\ ~txn[c].prog.snapshot
  BY <1>1 DEF Idle
<1>6. ASSUME NEW i \in DOMAIN heap PROVE Chain(heap[i], heap[heap[i].next], installs[heap[i].key])
  <2>1. /\ i \in Keys /\ heap[i].key = i /\ heap[i].version = LoadTid /\ heap[i].next = Nil /\ ~heap[i].deleting
        /\ Ids(installs[i]) = {LoadTid} /\ Gone(installs[i]) = {}
    BY <1>1, <1>4
  <2>2. LoadTid <= LoadTid /\ ~(LoadTid < LoadTid)
    BY Loaded
  <2> QED
    BY <2>1, <2>2 DEF Chain
<1>7. Chained /\ Ordered
  BY <1>4, <1>6 DEF Chained, Ordered
<1>8. Absent
  BY <1>1, <1>2 DEF Absent
<1>9. Newer /\ Aligned /\ Walking /\ Seen
  BY <1>5 DEF Newer, Aligned, Walking, Seen, SnapshotTaken
<1> QED
  BY <1>7, <1>8, <1>9 DEF Stable

LEMMA StableInvariant == UncontendedSpec => []StableInv
<1>1. VersionsInit => Stable
  BY InitStable
<1>2. TimedInv /\ TimedInv' /\ Stable /\ [VersionsNext /\ Uncontended']_vvars => Stable'
  <2>1. (TimedInv' => Types') /\ (TimedInv => Uncontended)
    BY DEF TimedInv, PlacedInv, Locked, Typed
  <2> QED
    BY <2>1, StableNext, UncontendedNext
<1> QED
  BY <1>1, <1>2, TimedInvariant, PTL DEF UncontendedSpec, StableInv

(* Whichever cores delete, as long as no collector waits for the MCS lock  *)
(* of another, what a snapshot has read of a key stays the newest version  *)
(* up to its id: it takes none that was collected early, it walks past     *)
(* none, a key that it finds absent was deleted before, and no commit of a *)
(* tick it reads comes later.                                              *)
THEOREM SnapshotsStable == UncontendedSpec => []SnapshotIsStable
<1>1. StableInv => SnapshotIsStable
  <2>1. ASSUME StableInv, NEW c \in Cores, txn[c].prog.snapshot, NEW k \in DOMAIN txn[c].got
        PROVE  txn[c].got[k] = Newest(k, txn[c].t)
    <3>1. txn[c].got[k] = NewestOf(installs[k], txn[c].t)
      BY <2>1 DEF StableInv, Stable, Seen
    <3>2. k \in Keys
      BY <2>1, TxnFields DEF StableInv, TimedInv, PlacedInv, Locked, Typed, Types, TxnTypes
    <3> QED
      BY <3>1, <3>2, NewestIs
  <2> QED
    BY <2>1 DEF SnapshotIsStable
<1> QED
  BY <1>1, StableInvariant, PTL
=============================================================================
