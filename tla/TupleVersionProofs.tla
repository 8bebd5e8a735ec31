-------------------------- MODULE TupleVersionProofs --------------------------
(* Proofs about TupleVersion, for any number of readers and writers and    *)
(* any widths and bounds: what a reader of the newest version returns, and *)
(* what its validation shows.                                              *)
EXTENDS TupleVersion, SequenceTheorems, TLAPS

Contents == [tid : Nat, value : Values \X Values]
WriterPcs == {"idle", "found", "expose", "locked", "mark", "spill", "write1", "write2",
              "version", "deleting", "key", "replace", "link", "unlock_rep", "unlock"}
ReaderPcs == {"idle", "record_at", "loop", "behind", "copy1", "copy2", "check", "next",
              "check_next", "empty", "record", "is_latest", "recheck", "valid", "invalid"}
WriterStates == [pc : WriterPcs, at : Nat, tid : 0..MaxTid, spill : BOOLEAN,
                 delete : BOOLEAN, rep : Nat]
ReaderStates == [pc : ReaderPcs, at : Nat, t : Int, v : Header, start_t : 0..MAX_TID,
                 copy : Values \X Values, next : Nat]

Types ==
    /\ heap \in Seq(Tuples) /\ root \in DOMAIN heap
    /\ tick \in 0..to_read_only_tick(MaxTid) /\ locks \in 0..MaxLocks
    /\ wr \in [Writers -> WriterStates] /\ rd \in [Readers -> ReaderStates]
    /\ installed \in Seq(Contents) /\ installed # <<>>
    /\ seen \in [Readers -> SUBSET Contents]

(* What a tuple holds for a reader, when nobody is writing to it.          *)
Content(n) ==
    [tid |-> IF n.version = MAX_TID THEN MIN_TID ELSE n.version,
     value |-> IF n.version = MAX_TID \/ n.hdr.deleting THEN Whole(None) ELSE n.value]
Current(i) == Hdr(i).latest /\ Last(installed) = Content(heap[i])

(* The tuple in the tree holds the version installed last until a writer   *)
(* marks it, and is the latest one while no writer means to commit.        *)
Settled ==
    /\ ~Hdr(root).write_intent => Current(root)
    /\ ~Hdr(root).modifying \/ heap[root].version = MAX_TID =>
          Last(installed) = Content(heap[root])

(* Nobody is at the tuple, or will come to it by way of a chain: so it is  *)
(* with a replacement that the tree does not hold yet.                     *)
Unseen(i) ==
    /\ \A w \in Writers : wr[w].at # i
    /\ \A r \in Readers : rd[r].pc # "idle" => rd[r].at # i /\ rd[r].next # i
    /\ \A j \in DOMAIN heap : heap[j].next # i

(* The version in the header counts the locks, and does not wrap.          *)
HeaderInv(h, count) ==
    /\ h.modifying => h.write_intent
    /\ h.write_intent => h.locked
    /\ h.version <= count /\ (h.write_intent => h.version < count)
TupleInv(i) ==
    LET h == Hdr(i) IN
    /\ HeaderInv(h, locks)
    /\ heap[i].next \in 0..Len(heap)
    /\ h.latest => i = root \/ Unseen(i)

(* Where a writer holds its tuple's lock, and where it writes in place.    *)
Held == WriterPcs \ {"idle", "found"}
InPlace == {"mark", "spill", "write1", "write2", "version", "deleting", "key", "unlock"}
(* The tuples a writer has to itself: the one it has locked and the        *)
(* replacement it has made.                                                *)
Owned(w) ==
    IF wr[w].pc \in {"link", "unlock_rep"} THEN {wr[w].at, wr[w].rep}
    ELSE IF wr[w].pc \in Held THEN {wr[w].at} ELSE {}

(* The commit id is above the version it replaces; the version it makes.   *)
Newer(x, n) == n.version = MAX_TID \/ x.tid > n.version
Made(x) == [tid |-> x.tid, value |-> Whole(IF x.delete THEN None ELSE x.tid)]

(* What a writer knows at each of its steps.  The tuple is marked as long  *)
(* as it is half written.                                                  *)
WriterInv(w) ==
    LET x == wr[w]
        n == heap[x.at]
        h == n.hdr
    IN
    /\ x.pc # "idle" => x.at \in DOMAIN heap
    /\ x.at \in 0..Len(heap)
    /\ x.pc \notin {"link", "unlock_rep", "unlock"} => x.rep = None
    /\ x.pc \in Held => h.locked
    /\ x.pc = "expose" => ~h.write_intent
    /\ x.pc \in Held \ {"expose"} => h.write_intent
    /\ x.pc \in Held \ {"expose", "locked"} => x.tid \in 1..MaxTid
    /\ x.pc = "locked" => ~h.modifying /\ (x.at = root => Current(x.at))
    /\ x.pc \in {"mark", "replace"} => x.at = root /\ Current(x.at) /\ ~h.modifying
    /\ x.pc \in {"mark", "spill", "write1", "write2", "version"} =>
          x.at = root /\ h.latest /\ ~h.deleting /\ Newer(x, n)
    /\ x.pc \in {"spill", "write1", "write2", "version", "deleting", "key"} => h.modifying
    /\ x.pc \in {"write1", "write2"} => ~x.delete
    /\ x.pc = "write2" => n.value[1] = x.tid
    /\ x.pc = "version" => x.delete \/ n.value = Whole(x.tid)
    /\ x.pc = "deleting" => x.at = root /\ h.latest /\ x.delete /\ n.version = x.tid
    /\ x.pc = "key" => x.at = root /\ h.latest /\ x.delete /\ n.version = x.tid /\ h.deleting
    /\ x.pc = "unlock" =>
          IF x.rep = None
          THEN x.at = root /\ h.latest /\ h.modifying /\ n.version = x.tid /\ Content(n) = Made(x)
          ELSE x.at # root /\ ~h.modifying
    /\ x.pc = "link" =>
          /\ x.at = root /\ ~h.modifying /\ ~h.latest /\ x.rep # None
          /\ x.rep \in DOMAIN heap \ {root} /\ Content(heap[x.rep]) = Made(x)
          /\ Hdr(x.rep) = [LatestHdr EXCEPT !.deleting = x.delete]
    /\ x.pc = "unlock_rep" =>
          /\ x.at # root /\ ~h.modifying /\ x.rep = root /\ Current(root)
          /\ Hdr(root).write_intent /\ ~Hdr(root).modifying /\ x.rep # None

Copying == {"behind", "copy1", "copy2", "check"}
Recorded == {"record", "is_latest", "recheck"}
Clean(r) == rd[r].pc # "idle" /\ rd[r].t = MAX_TID

(* A reader of the newest version.  As long as the header has the version  *)
(* it has seen, what it has copied is what the tuple holds.                *)
CleanInv(r) ==
    LET x == rd[r]
        n == heap[x.at]
        h == n.hdr
        same == h.version = x.v.version /\ ~h.modifying
    IN
    /\ x.pc \notin {"next", "check_next"}
    /\ ~h.modifying => Content(n) \in seen[r]
    /\ n.version = MAX_TID => [tid |-> MIN_TID, value |-> Whole(None)] \in seen[r]
    /\ x.pc = "record_at" => x.start_t = MIN_TID /\ x.copy = Whole(None)
    /\ x.pc \in {"loop"} \cup Copying \cup Recorded => n.version # MAX_TID
    /\ x.pc \in Copying => x.v.version <= h.version /\ ~x.v.modifying
    /\ x.pc \in {"copy1", "copy2"} => ~x.v.deleting
    /\ x.pc \in {"copy1", "copy2", "check"} /\ same => x.start_t = n.version
    /\ x.pc = "copy2" /\ same => x.copy[1] = n.value[1]
    /\ x.pc = "check" /\ same =>
          x.copy = IF x.v.deleting THEN Whole(None) ELSE n.value
    /\ Returned(r) => Result(r) \in seen[r]
    /\ x.pc \in Recorded =>
          x.start_t <= n.version /\
          (x.start_t = n.version /\ ~h.modifying => Result(r) = Content(n))
    /\ x.pc \in {"is_latest", "recheck"} => x.v.version <= h.version /\ ~x.v.write_intent
    /\ x.pc = "recheck" =>
          x.v.latest /\ (h.version = x.v.version /\ ~h.write_intent => n.version <= x.start_t)

ReaderInv(r) ==
    /\ rd[r].pc # "idle" => rd[r].at \in DOMAIN heap
    /\ rd[r].next \in 0..Len(heap)
    /\ rd[r].pc \in {"is_latest", "recheck"} => rd[r].t = MAX_TID
    /\ Clean(r) => CleanInv(r)

(* Who has read what a writer in place replaces has an older version: the  *)
(* version tells when the write is over.                                   *)
Older(w, r) ==
    wr[w].pc \in InPlace /\ wr[w].rep = None /\ Clean(r) /\ rd[r].pc \in Recorded /\ rd[r].at = wr[w].at =>
        rd[r].start_t < wr[w].tid

(* What a writer's step on tuple i leaves to a reader of i.                *)
Kept(i, r) ==
    LET n == heap[i]
        m == heap'[i] IN
    /\ n.hdr.version <= m.hdr.version
    /\ m.hdr.version = n.hdr.version /\ ~m.hdr.modifying =>
          ~n.hdr.modifying /\ m.version = n.version /\ m.value = n.value
    /\ m.hdr.version = n.hdr.version /\ ~m.hdr.write_intent =>
          ~n.hdr.write_intent /\ m.version = n.version
    /\ ~m.hdr.modifying => Content(m) \in seen'[r]
    /\ m.version = MAX_TID => n.version = MAX_TID
    /\ n.version # MAX_TID => n.version <= m.version
    /\ m.version = n.version /\ ~m.hdr.modifying /\ rd[r].pc \in Recorded =>
          (~n.hdr.modifying /\ Content(m) = Content(n)) \/ rd[r].start_t < n.version

(* The inductive invariant.                                                *)
TInv ==
    /\ Types
    /\ \A i \in DOMAIN heap : TupleInv(i)
    /\ Settled
    /\ \A w \in Writers : WriterInv(w)
    /\ \A w, u \in Writers : w # u => Owned(w) \cap Owned(u) = {}
    /\ \A r \in Readers : ReaderInv(r)
    /\ \A w \in Writers, r \in Readers : Older(w, r)

(* Types, and what unlock() leaves in a header whose version cannot wrap.  *)
LEMMA Constants ==
    /\ VersionBits \in Nat \ {0} /\ TickSpan \in Nat \ {0}
    /\ MaxTid \in Nat \ {0} /\ MaxLocks \in Nat \ {0}
    /\ MaxLocks < 2^VersionBits /\ 2^VersionBits \in Nat
    /\ MAX_TID = MaxTid + 1 /\ MAX_TID \in Nat
BY TupleAssumption DEF MAX_TID

LEMMA HeaderTypes ==
    ASSUME NEW h \in Header
    PROVE  /\ h.version \in Nat /\ h.locked \in BOOLEAN /\ h.deleting \in BOOLEAN
           /\ h.write_intent \in BOOLEAN /\ h.modifying \in BOOLEAN /\ h.latest \in BOOLEAN
BY Constants DEF Header

LEMMA TupleTypes ==
    ASSUME NEW n \in Tuples
    PROVE  /\ n.hdr \in Header /\ n.version \in 0..MAX_TID /\ n.version \in Nat
           /\ n.value \in Values \X Values /\ n.next \in Nat /\ n.hdr.version \in Nat
BY Constants, HeaderTypes DEF Tuples

LEMMA UnlockedTypes ==
    ASSUME NEW h \in Header, h.modifying => h.write_intent,
           h.write_intent => h.version < MaxLocks
    PROVE  LET u == Unlocked(h) IN
           /\ u \in Header /\ ~u.locked /\ ~u.modifying /\ ~u.write_intent
           /\ u.latest = h.latest /\ u.deleting = h.deleting
           /\ u.version = IF h.write_intent THEN h.version + 1 ELSE h.version
<1> DEFINE B == 2^VersionBits
           ver == IF h.modifying \/ h.write_intent THEN (h.version + 1) % B ELSE h.version
<1>1. B \in Nat /\ MaxLocks < B /\ MaxLocks \in Nat /\ h.version \in 0..(B - 1)
  BY Constants DEF Header
<1>2. Header = [locked : BOOLEAN, deleting : BOOLEAN, write_intent : BOOLEAN,
                modifying : BOOLEAN, latest : BOOLEAN, version : 0..(B - 1)]
  BY DEF Header
<1>3. Unlocked(h) = [h EXCEPT !.locked = FALSE, !.modifying = FALSE, !.write_intent = FALSE, !.version = ver]
  BY DEF Unlocked
<1> HIDE DEF B
<1>4. ver = (IF h.write_intent THEN h.version + 1 ELSE h.version) /\ ver \in 0..(B - 1)
  <2>1. CASE h.write_intent
    <3>1. h.version + 1 \in Nat /\ h.version + 1 < B
      BY <1>1, <2>1
    <3>2. (h.version + 1) % B = h.version + 1
      BY <1>1, <3>1
    <3> QED
      BY <1>1, <2>1, <3>1, <3>2
  <2>2. CASE ~h.write_intent
    BY <1>1, <2>2
  <2> QED
    BY <2>1, <2>2
<1> HIDE DEF ver
<1> DEFINE g == [h EXCEPT !.locked = FALSE, !.modifying = FALSE]
<1>5. /\ g \in Header /\ ~g.locked /\ ~g.modifying
      /\ g.latest = h.latest /\ g.deleting = h.deleting
  BY <1>2
<1>6. Unlocked(h) = [g EXCEPT !.write_intent = FALSE, !.version = ver]
  BY <1>3
<1> HIDE DEF g
<1> QED
  BY <1>2, <1>4, <1>5, <1>6

(* A step that leaves a writer's own tuples leaves what the writer knows.  *)
LEMMA WriterFrame ==
    ASSUME TInv, NEW u \in Writers, wr'[u] = wr[u],
           heap \in Seq(Tuples), heap' \in Seq(Tuples), DOMAIN heap \subseteq DOMAIN heap',
           \A j \in Owned(u) : heap'[j] = heap[j],
           \/ root' = root /\ installed' = installed
           \/ root \notin Owned(u) /\ root' \notin Owned(u)
    PROVE  WriterInv(u)' /\ Owned(u)' = Owned(u)
<1> DEFINE x == wr[u]
<1>1. WriterInv(u) /\ x \in WriterStates
  BY DEF TInv, Types
<1>2. Owned(u)' = Owned(u)
  BY DEF Owned
<1>3. Len(heap) \in Nat /\ Len(heap') \in Nat /\ Len(heap) <= Len(heap')
      /\ DOMAIN heap = 1..Len(heap) /\ DOMAIN heap' = 1..Len(heap')
  <2>1. DOMAIN heap = 1..Len(heap) /\ DOMAIN heap' = 1..Len(heap')
        /\ Len(heap) \in Nat /\ Len(heap') \in Nat
    OBVIOUS
  <2> QED
    BY <2>1
<1>4. x.at \in 0..Len(heap') /\ (x.pc # "idle" => x.at \in DOMAIN heap')
  BY <1>1, <1>3 DEF WriterInv
<1>5. CASE x.pc \in {"idle", "found"}
  <2>1. x.pc \notin Held /\ x.rep = None
    BY <1>1, <1>5 DEF WriterInv, Held
  <2> QED
    BY <1>2, <1>4, <1>5, <2>1 DEF WriterInv
<1>6. CASE x.pc \in Held \ {"link", "unlock_rep"}
  <2>1. x.at \in Owned(u) /\ heap'[x.at] = heap[x.at]
    BY <1>6 DEF Owned
  <2>2. CASE root' = root /\ installed' = installed
    BY <1>1, <1>2, <1>4, <1>6, <2>1, <2>2 DEF WriterInv, Held, WriterPcs, Current, Hdr
  <2>3. CASE x.at # root /\ x.at # root'
    BY <1>1, <1>2, <1>4, <1>6, <2>1, <2>3 DEF WriterInv, Held, WriterPcs, Current, Hdr
  <2> QED
    BY <2>1, <2>2, <2>3
<1>7. CASE x.pc \in {"link", "unlock_rep"}
  <2>1. /\ x.at \in Owned(u) /\ heap'[x.at] = heap[x.at]
        /\ x.rep \in Owned(u) /\ heap'[x.rep] = heap[x.rep]
    BY <1>7 DEF Owned
  <2>2. root' = root /\ installed' = installed
    BY <1>1, <1>7, <2>1 DEF WriterInv
  <2> QED
    BY <1>1, <1>2, <1>3, <1>4, <1>7, <2>1, <2>2 DEF WriterInv, Held, WriterPcs, Current, Hdr
<1> QED
  BY <1>1, <1>5, <1>6, <1>7 DEF WriterStates, Held

(* So it is with a reader, whose tuple may change as Kept allows.          *)
LEMMA ReaderFrame ==
    ASSUME TInv, NEW r \in Readers, rd'[r] = rd[r],
           heap \in Seq(Tuples), heap' \in Seq(Tuples), DOMAIN heap \subseteq DOMAIN heap',
           rd[r].pc # "idle" => seen[r] \subseteq seen'[r],
           Clean(r) => Kept(rd[r].at, r) \/ heap'[rd[r].at] = heap[rd[r].at]
    PROVE  ReaderInv(r)'
<1> DEFINE x == rd[r]
<1>1. ReaderInv(r) /\ x \in ReaderStates
  BY DEF TInv, Types
<1>2. x.next \in 0..Len(heap') /\ (x.pc # "idle" => x.at \in DOMAIN heap')
  <2>1. DOMAIN heap = 1..Len(heap) /\ DOMAIN heap' = 1..Len(heap')
        /\ Len(heap) \in Nat /\ Len(heap') \in Nat
    OBVIOUS
  <2> QED
    BY <1>1, <2>1 DEF ReaderInv
<1>3. ASSUME Clean(r) PROVE CleanInv(r)'
  <2> DEFINE n == heap[x.at]
             m == heap'[x.at]
  <2>0. x.at \in DOMAIN heap /\ x.at \in DOMAIN heap' /\ CleanInv(r) /\ x.pc # "idle"
        /\ seen[r] \subseteq seen'[r]
    BY <1>1, <1>2, <1>3 DEF Clean, ReaderInv
  <2>1. n \in Tuples /\ m \in Tuples
    BY <2>0
  <2>2. CASE m = n
    BY <2>0, <2>2 DEF CleanInv, Returned, Result
  <2>3. CASE Kept(x.at, r)
    <3>1. n.hdr.version \in Nat /\ m.hdr.version \in Nat /\ n.version \in Nat /\ m.version \in Nat
          /\ x.v.version \in Nat /\ x.start_t \in Nat
      <4>1. x.v \in Header /\ x.start_t \in 0..MAX_TID /\ MAX_TID \in Nat
        BY <1>1, Constants DEF ReaderStates
      <4> QED
        BY <2>1, <4>1, TupleTypes, HeaderTypes
    <3>2. /\ n.hdr.version <= m.hdr.version
          /\ m.hdr.version = n.hdr.version /\ ~m.hdr.modifying =>
                ~n.hdr.modifying /\ m.version = n.version /\ m.value = n.value
          /\ m.hdr.version = n.hdr.version /\ ~m.hdr.write_intent =>
                ~n.hdr.write_intent /\ m.version = n.version
          /\ ~m.hdr.modifying => Content(m) \in seen'[r]
          /\ m.version = MAX_TID => n.version = MAX_TID
          /\ n.version # MAX_TID => n.version <= m.version
          /\ m.version = n.version /\ ~m.hdr.modifying /\ x.pc \in Recorded =>
                (~n.hdr.modifying /\ Content(m) = Content(n)) \/ x.start_t < n.version
      BY <2>3 DEF Kept
    <3>3. (Result(r) = Result(r)') /\ (Returned(r) <=> Returned(r)')
      BY DEF Result, Returned
    <3> HIDE DEF n, m
    <3>4. /\ x.pc \notin {"next", "check_next"}
          /\ ~m.hdr.modifying => Content(m) \in seen'[r]
          /\ m.version = MAX_TID => [tid |-> MIN_TID, value |-> Whole(None)] \in seen'[r]
          /\ x.pc = "record_at" => x.start_t = MIN_TID /\ x.copy = Whole(None)
          /\ x.pc \in {"loop"} \cup Copying \cup Recorded => m.version # MAX_TID
          /\ x.pc \in Copying => x.v.version <= m.hdr.version /\ ~x.v.modifying
          /\ x.pc \in {"copy1", "copy2"} => ~x.v.deleting
      BY <2>0, <3>1, <3>2 DEF CleanInv, n
    <3>5. ASSUME m.hdr.version = x.v.version, ~m.hdr.modifying, x.pc \in Copying
          PROVE  n.hdr.version = x.v.version /\ ~n.hdr.modifying /\ m.version = n.version /\ m.value = n.value
      BY <2>0, <3>1, <3>2, <3>5 DEF CleanInv, n
    <3>6. /\ x.pc \in {"copy1", "copy2", "check"} /\ m.hdr.version = x.v.version /\ ~m.hdr.modifying =>
                x.start_t = m.version
          /\ x.pc = "copy2" /\ m.hdr.version = x.v.version /\ ~m.hdr.modifying => x.copy[1] = m.value[1]
          /\ x.pc = "check" /\ m.hdr.version = x.v.version /\ ~m.hdr.modifying =>
                x.copy = IF x.v.deleting THEN Whole(None) ELSE m.value
      BY <2>0, <3>5 DEF CleanInv, n, Copying
    <3>7. /\ Returned(r) => Result(r) \in seen'[r]
          /\ x.pc \in Recorded =>
                x.start_t <= m.version /\
                (x.start_t = m.version /\ ~m.hdr.modifying => Result(r) = Content(m))
      <4>1. Returned(r) => Result(r) \in seen'[r]
        BY <2>0 DEF CleanInv
      <4>2. ASSUME x.pc \in Recorded
            PROVE  x.start_t <= n.version /\ n.version # MAX_TID
                   /\ (x.start_t = n.version /\ ~n.hdr.modifying => Result(r) = Content(n))
        BY <2>0, <4>2 DEF CleanInv, n
      <4> QED
        BY <3>1, <3>2, <4>1, <4>2
    <3>8. /\ x.pc \in {"is_latest", "recheck"} => x.v.version <= m.hdr.version /\ ~x.v.write_intent
          /\ x.pc = "recheck" => x.v.latest /\
                (m.hdr.version = x.v.version /\ ~m.hdr.write_intent => m.version <= x.start_t)
      <4>1. /\ x.pc \in {"is_latest", "recheck"} => x.v.version <= n.hdr.version /\ ~x.v.write_intent
            /\ x.pc = "recheck" => x.v.latest /\
                  (n.hdr.version = x.v.version /\ ~n.hdr.write_intent => n.version <= x.start_t)
        BY <2>0 DEF CleanInv, n
      <4> QED
        BY <3>1, <3>2, <4>1
    <3> QED
      BY <3>3, <3>4, <3>6, <3>7, <3>8 DEF CleanInv, m
  <2> QED
    BY <1>3, <2>2, <2>3
<1> QED
  BY <1>1, <1>2, <1>3 DEF ReaderInv, Clean

(* A step of writer w that touches only tuple i, and may make new ones,    *)
(* where nobody else works.                                                *)
LEMMA WriterChange ==
    ASSUME TInv, NEW w \in Writers, NEW i \in DOMAIN heap, NEW x \in WriterStates,
           wr' = [wr EXCEPT ![w] = x], rd' = rd, tick' = tick,
           locks' \in 0..MaxLocks, locks <= locks',
           heap' \in Seq(Tuples), DOMAIN heap \subseteq DOMAIN heap',
           \A j \in DOMAIN heap \ {i} : heap'[j] = heap[j],
           \A u \in Writers \ {w} : i \notin Owned(u) \/ heap'[i] = heap[i],
           \A u \in Writers \ {w} : Owned(w)' \cap Owned(u) = {},
           \/ root' = root /\ installed' = installed
           \/ root \in Owned(w) /\ root' \in Owned(w),
           root' \in DOMAIN heap, root' # root => ~Hdr(root).latest,
           installed' \in Seq(Contents), installed' # <<>>,
           seen' \in [Readers -> SUBSET Contents],
           \A r \in Readers : rd[r].pc # "idle" => seen[r] \subseteq seen'[r],
           Settled',
           HeaderInv(heap'[i].hdr, locks'),
           heap'[i].hdr.latest => heap[i].hdr.latest,
           heap'[i].next \in {heap[i].next} \cup (DOMAIN heap' \ DOMAIN heap),
           \A j \in DOMAIN heap' \ DOMAIN heap :
              /\ HeaderInv(heap'[j].hdr, locks') /\ heap'[j].next \in {heap[i].next, root'}
              /\ heap'[j].hdr.latest => heap'[i].next # j,
           x.at \in {wr[w].at, None, root'},
           \A r \in Readers : Clean(r) /\ rd[r].at = i => Kept(i, r) \/ heap'[i] = heap[i],
           WriterInv(w)', \A r \in Readers : Older(w, r)'
    PROVE  TInv'
<1>1. Types /\ heap \in Seq(Tuples) /\ root \in DOMAIN heap /\ locks \in Nat
      /\ wr \in [Writers -> WriterStates] /\ rd \in [Readers -> ReaderStates]
  BY Constants DEF TInv, Types
<1>2. /\ DOMAIN heap = 1..Len(heap) /\ DOMAIN heap' = 1..Len(heap')
      /\ Len(heap) \in Nat /\ Len(heap') \in Nat /\ Len(heap) <= Len(heap')
  <2>1. DOMAIN heap = 1..Len(heap) /\ DOMAIN heap' = 1..Len(heap')
        /\ Len(heap) \in Nat /\ Len(heap') \in Nat
    BY <1>1
  <2> QED
    BY <2>1
<1>3. wr'[w] = x /\ \A u \in Writers \ {w} : wr'[u] = wr[u]
  BY <1>1
<1>4. Types'
  BY <1>1 DEF Types
<1>5. \A u \in Writers \ {w} : WriterInv(u)' /\ Owned(u)' = Owned(u)
  <2> SUFFICES ASSUME NEW u \in Writers \ {w} PROVE WriterInv(u)' /\ Owned(u)' = Owned(u)
    OBVIOUS
  <2>1. Owned(u) \cap Owned(w) = {} /\ WriterInv(u)
    BY DEF TInv
  <2>2. Owned(u) \subseteq DOMAIN heap
    BY <1>1, <2>1 DEF WriterInv, Owned, Held
  <2>3. \A j \in Owned(u) : heap'[j] = heap[j]
    BY <2>2
  <2>4. \/ root' = root /\ installed' = installed
        \/ root \notin Owned(u) /\ root' \notin Owned(u)
    BY <2>1
  <2> QED
    BY <1>1, <1>3, <2>3, <2>4, WriterFrame
<1>6. \A u, v \in Writers : u # v => (Owned(u) \cap Owned(v) = {})'
  BY <1>5 DEF TInv
<1>7. \A r \in Readers : ReaderInv(r)'
  <2> SUFFICES ASSUME NEW r \in Readers PROVE ReaderInv(r)'
    OBVIOUS
  <2>1. Clean(r) => rd[r].at \in DOMAIN heap
    BY DEF TInv, ReaderInv, Clean
  <2>2. Clean(r) => Kept(rd[r].at, r) \/ heap'[rd[r].at] = heap[rd[r].at]
    BY <2>1
  <2> QED
    BY <1>1, <2>2, ReaderFrame
<1>8. \A u \in Writers, r \in Readers : Older(u, r)'
  <2> SUFFICES ASSUME NEW u \in Writers \ {w}, NEW r \in Readers PROVE Older(u, r)'
    OBVIOUS
  <2>1. Older(u, r)
    BY DEF TInv
  <2> QED
    BY <1>3, <2>1 DEF Older, Clean
<1>9. ASSUME NEW j \in DOMAIN heap' PROVE TupleInv(j)'
  <2>1. \A k \in DOMAIN heap : TupleInv(k) /\ heap[k].next \in 0..Len(heap)
                               /\ (heap[k].hdr.latest => k = root \/ Unseen(k))
    BY DEF TInv, TupleInv, Hdr
  <2>2. HeaderInv(heap'[j].hdr, locks')
    <3>1. ASSUME j \in DOMAIN heap \ {i} PROVE HeaderInv(heap'[j].hdr, locks')
      <4>1. HeaderInv(heap[j].hdr, locks) /\ heap'[j] = heap[j] /\ heap[j] \in Tuples
        BY <1>1, <2>1, <3>1 DEF TupleInv, Hdr
      <4>2. heap[j].hdr.version \in Nat /\ locks' \in Nat
        BY <4>1, TupleTypes, Constants
      <4> QED
        BY <1>1, <4>1, <4>2 DEF HeaderInv
    <3> QED
      BY <3>1
  <2>3. heap'[j].next \in 0..Len(heap')
    BY <1>2, <2>1
  <2>4. ASSUME heap'[j].hdr.latest, j # root' PROVE Unseen(j)'
    <3>1. CASE j \in DOMAIN heap
      <4>1. heap[j].hdr.latest /\ j # root
        BY <2>4, <3>1 DEF Hdr
      <4>2. Unseen(j)
        BY <2>1, <3>1, <4>1
      <4>3. j # None
        BY <1>2, <3>1 DEF None
      <4>4. \A u \in Writers : wr'[u].at # j
        BY <1>3, <2>4, <4>2, <4>3 DEF Unseen
      <4>5. \A r \in Readers : rd'[r].pc # "idle" => rd'[r].at # j /\ rd'[r].next # j
        BY <4>2 DEF Unseen
      <4>6. \A k \in DOMAIN heap' : heap'[k].next # j
        <5>1. \A k \in DOMAIN heap : heap[k].next # j
          BY <4>2 DEF Unseen
        <5> QED
          BY <2>4, <3>1, <5>1
      <4> QED
        BY <4>4, <4>5, <4>6 DEF Unseen
    <3>2. CASE j \notin DOMAIN heap
      <4>1. j > Len(heap)
        BY <1>2, <3>2
      <4>2. \A u \in Writers : wr[u].at \in 0..Len(heap)
        BY DEF TInv, WriterInv
      <4>3. \A r \in Readers : rd[r].pc # "idle" => rd[r].at \in 0..Len(heap) /\ rd[r].next \in 0..Len(heap)
        BY <1>2 DEF TInv, ReaderInv
      <4>4. \A u \in Writers : wr'[u].at # j
        <5>1. wr'[w].at # j
          BY <1>1, <1>2, <1>3, <4>1, <4>2, <2>4 DEF None
        <5> QED
          BY <1>2, <1>3, <4>1, <4>2, <5>1
      <4>5. \A r \in Readers : rd'[r].pc # "idle" => rd'[r].at # j /\ rd'[r].next # j
        BY <1>2, <4>1, <4>3
      <4>6. ASSUME NEW k \in DOMAIN heap' PROVE heap'[k].next # j
        <5>1. heap[i].next < j /\ root' < j
          BY <1>2, <2>1, <4>1
        <5>2. CASE k \in DOMAIN heap \ {i}
          BY <1>2, <2>1, <4>1, <5>2
        <5>3. CASE k = i
          BY <2>4, <3>2, <5>1, <5>3
        <5>4. CASE k \in DOMAIN heap' \ DOMAIN heap
          BY <5>1, <5>4
        <5> QED
          BY <5>2, <5>3, <5>4
      <4> QED
        BY <4>4, <4>5, <4>6 DEF Unseen
    <3> QED
      BY <3>1, <3>2
  <2> QED
    BY <2>2, <2>3, <2>4 DEF TupleInv, Hdr
<1> QED
  BY <1>3, <1>4, <1>5, <1>6, <1>7, <1>8, <1>9 DEF TInv

(* The same with no new tuple and the same one in the tree.                *)
LEMMA TupleChange ==
    ASSUME TInv, NEW w \in Writers, NEW i \in DOMAIN heap, NEW x \in WriterStates,
           NEW m \in Tuples, heap' = [heap EXCEPT ![i] = m],
           wr' = [wr EXCEPT ![w] = x], root' = root, rd' = rd, tick' = tick,
           locks' \in 0..MaxLocks, locks <= locks',
           installed' \in Seq(Contents), installed' # <<>>,
           seen' \in [Readers -> SUBSET Contents],
           \A r \in Readers : rd[r].pc # "idle" => seen[r] \subseteq seen'[r],
           installed' = installed \/ (i = root /\ root \in Owned(w)),
           \A u \in Writers \ {w} : i \notin Owned(u),
           Owned(w)' \subseteq Owned(w) \cup {i}, x.at \in {wr[w].at, None},
           m.hdr.latest = heap[i].hdr.latest, m.next = heap[i].next,
           HeaderInv(m.hdr, locks'),
           i = root /\ ~m.hdr.write_intent => Current(root)',
           i = root /\ (~m.hdr.modifying \/ m.version = MAX_TID) =>
              Last(installed') = Content(m),
           \A r \in Readers : Clean(r) /\ rd[r].at = i => Kept(i, r) \/ m = heap[i],
           WriterInv(w)', \A r \in Readers : Older(w, r)'
    PROVE  TInv'
<1>1. heap \in Seq(Tuples) /\ root \in DOMAIN heap /\ root' \in DOMAIN heap
  BY DEF TInv, Types
<1>2. heap' \in Seq(Tuples) /\ DOMAIN heap' = DOMAIN heap /\ heap'[i] = m
      /\ \A j \in DOMAIN heap \ {i} : heap'[j] = heap[j]
  BY <1>1
<1>3. \A u \in Writers \ {w} : Owned(w)' \cap Owned(u) = {}
  BY DEF TInv
<1>4. Settled'
  <2>1. CASE i # root
    <3>1. Settled
      BY DEF TInv
    <3> QED
      BY <1>1, <1>2, <2>1, <3>1 DEF Settled, Current, Hdr
  <2>2. CASE i = root
    BY <1>2, <2>2 DEF Settled, Hdr
  <2> QED
    BY <2>1, <2>2
<1>5. \/ root' = root /\ installed' = installed
      \/ root \in Owned(w) /\ root' \in Owned(w)
  OBVIOUS
<1>6. HeaderInv(heap'[i].hdr, locks') /\ (heap'[i].hdr.latest => heap[i].hdr.latest)
      /\ heap'[i].next \in {heap[i].next} \cup (DOMAIN heap' \ DOMAIN heap)
  BY <1>2
<1>7. \A r \in Readers : Clean(r) /\ rd[r].at = i => Kept(i, r) \/ heap'[i] = heap[i]
  BY <1>2
<1>8. \A j \in DOMAIN heap' \ DOMAIN heap :
        /\ HeaderInv(heap'[j].hdr, locks') /\ heap'[j].next \in {heap[i].next, root'}
        /\ heap'[j].hdr.latest => heap'[i].next # j
  BY <1>2
<1>9. \A u \in Writers \ {w} : i \notin Owned(u) \/ heap'[i] = heap[i]
  OBVIOUS
<1>10. DOMAIN heap \subseteq DOMAIN heap' /\ x.at \in {wr[w].at, None, root'}
       /\ (root' # root => ~Hdr(root).latest)
  BY <1>2
<1> QED
  BY <1>1, <1>2, <1>3, <1>4, <1>5, <1>6, <1>7, <1>8, <1>9, <1>10, WriterChange, ZenonT(60)

(* The actions, one lemma each, by WriterChange or TupleChange.            *)
LEMMA FindKeeps ==
    ASSUME TInv, NEW w \in Writers, Find(w)
    PROVE  TInv'
<1> DEFINE x == [IdleWriter EXCEPT !.pc = "found", !.at = root]
<1>1. /\ Types /\ heap \in Seq(Tuples) /\ root \in DOMAIN heap /\ root \in Nat
      /\ TupleInv(root) /\ WriterInv(w)
  <2>1. heap \in Seq(Tuples) /\ root \in DOMAIN heap
    BY DEF TInv, Types
  <2> QED
    BY <2>1 DEF TInv
<1>2. /\ x \in WriterStates /\ x.pc = "found" /\ x.at = root /\ x.rep = None /\ x.tid = MIN_TID
      /\ wr' = [wr EXCEPT ![w] = x] /\ wr'[w] = x
  <2> DEFINE y == [IdleWriter EXCEPT !.pc = "found"]
  <2>1. IdleWriter \in WriterStates /\ IdleWriter.rep = None /\ IdleWriter.tid = MIN_TID
    BY Constants DEF IdleWriter, WriterStates, WriterPcs, MIN_TID, None
  <2>2. y \in WriterStates /\ y.pc = "found" /\ y.rep = None /\ y.tid = MIN_TID
    BY <2>1 DEF WriterStates, WriterPcs
  <2>3. x = [y EXCEPT !.at = root]
    OBVIOUS
  <2>4. wr' = [wr EXCEPT ![w] = x]
    BY DEF Find, SetW
  <2> HIDE DEF x, y
  <2> QED
    BY <1>1, <2>2, <2>3, <2>4 DEF WriterStates, Types
<1> HIDE DEF x
<1>3. UNCHANGED <<heap, root, locks, tick, rd, installed, seen>>
  BY DEF Find, KeepReaders
<1>4. WriterInv(w)'
  <2>1. root \in 0..Len(heap)
    BY <1>1
  <2> QED
    BY <1>1, <1>2, <1>3, <2>1 DEF WriterInv, Held
<1>5. \A r \in Readers : Older(w, r)'
  BY <1>2 DEF Older, InPlace
<1>6. Owned(w)' = {}
  BY <1>2 DEF Owned, Held
<1>7. HeaderInv(heap'[root].hdr, locks') /\ Settled'
  BY <1>1, <1>3 DEF TInv, TupleInv, Settled, Hdr, Current
<1>8. /\ locks' \in 0..MaxLocks /\ locks <= locks'
      /\ installed' \in Seq(Contents) /\ installed' # <<>>
      /\ seen' \in [Readers -> SUBSET Contents]
  BY <1>1, <1>3, Constants DEF Types
<1>9. x.at \in {wr[w].at, None, root'} /\ root' = root /\ Hdr(root)' = Hdr(root)
  BY <1>2, <1>3 DEF Hdr
<1> QED
  BY <1>1, <1>2, <1>3, <1>4, <1>5, <1>6, <1>7, <1>8, <1>9, WriterChange, ZenonT(60)

(* A step that changes only the header, with nobody writing, disturbs no   *)
(* reader of the tuple.                                                    *)
LEMMA SameContent ==
    ASSUME TInv, NEW i \in DOMAIN heap, NEW r \in Readers, Clean(r), rd[r].at = i,
           NEW m \in Tuples, heap'[i] = m, seen' = seen,
           m.version = heap[i].version, m.value = heap[i].value,
           m.hdr.deleting = heap[i].hdr.deleting,
           ~heap[i].hdr.modifying, ~m.hdr.modifying,
           heap[i].hdr.version <= m.hdr.version,
           m.hdr.version = heap[i].hdr.version /\ ~m.hdr.write_intent => ~heap[i].hdr.write_intent
    PROVE  Kept(i, r)
<1>1. Content(m) = Content(heap[i])
  BY DEF Content
<1>2. Content(heap[i]) \in seen[r] /\ heap[i] \in Tuples
  BY DEF TInv, Types, ReaderInv, CleanInv
<1> QED
  BY <1>1, <1>2, TupleTypes DEF Kept

LEMMA HeaderChange ==
    ASSUME heap \in Seq(Tuples), NEW i \in DOMAIN heap, NEW g \in Header
    PROVE  LET m == [heap[i] EXCEPT !.hdr = g] IN
           /\ m \in Tuples /\ m.hdr = g /\ m.version = heap[i].version
           /\ m.value = heap[i].value /\ m.next = heap[i].next
<1>1. heap[i] \in Tuples
  OBVIOUS
<1> QED
  BY <1>1 DEF Tuples

(* What the invariants say of a writer and the tuple it works on.          *)
LEMMA WriterFacts ==
    ASSUME TInv, NEW w \in Writers, wr[w].pc # "idle"
    PROVE  LET i == wr[w].at IN
           /\ heap \in Seq(Tuples) /\ root \in DOMAIN heap /\ i \in DOMAIN heap
           /\ heap[i] \in Tuples /\ Hdr(i) \in Header /\ wr[w] \in WriterStates
           /\ HeaderInv(Hdr(i), locks) /\ TupleInv(i) /\ WriterInv(w)
           /\ locks \in 0..MaxLocks /\ i \in Nat /\ i # None
           /\ wr \in [Writers -> WriterStates]
           /\ installed \in Seq(Contents) /\ installed # <<>>
           /\ seen \in [Readers -> SUBSET Contents]
<1>1. heap \in Seq(Tuples) /\ root \in DOMAIN heap /\ wr \in [Writers -> WriterStates] /\ WriterInv(w)
      /\ locks \in 0..MaxLocks /\ installed \in Seq(Contents) /\ installed # <<>>
      /\ seen \in [Readers -> SUBSET Contents]
  BY DEF TInv, Types
<1>2. wr[w].at \in DOMAIN heap /\ TupleInv(wr[w].at)
  BY <1>1 DEF WriterInv, TInv
<1>3. heap[wr[w].at] \in Tuples /\ wr[w].at \in Nat /\ wr[w].at # None
  BY <1>1, <1>2 DEF None
<1> QED
  BY <1>1, <1>2, <1>3, TupleTypes DEF TupleInv, Hdr

(* Who finds a tuple unlocked takes it from nobody.                        *)
LEMMA UnlockedUnowned ==
    ASSUME TInv, NEW w \in Writers, wr[w].pc = "found", ~Hdr(wr[w].at).locked,
           NEW u \in Writers
    PROVE  wr[w].at \notin Owned(u)
<1>1. WriterInv(u) /\ wr[u].at \in 0..Len(heap)
  BY DEF TInv, WriterInv
<1>2. wr[u].pc \in Held => Hdr(wr[u].at).locked
  BY <1>1 DEF WriterInv, Hdr
<1>3. wr[u].pc = "unlock_rep" => Hdr(wr[u].rep).locked
  <2>1. HeaderInv(Hdr(root), locks)
    BY DEF TInv, Types, TupleInv
  <2> QED
    BY <1>1, <2>1 DEF WriterInv, HeaderInv
<1>4. wr[u].pc = "link" => wr[w].at # wr[u].rep
  <2> SUFFICES ASSUME wr[u].pc = "link" PROVE wr[w].at # wr[u].rep
    OBVIOUS
  <2>1. wr[u].rep \in DOMAIN heap /\ wr[u].rep # root /\ Hdr(wr[u].rep).latest
    BY <1>1 DEF WriterInv, LatestHdr
  <2>2. Unseen(wr[u].rep)
    BY <2>1 DEF TInv, TupleInv
  <2> QED
    BY <2>2 DEF Unseen
<1> QED
  BY <1>2, <1>3, <1>4 DEF Owned, Held, WriterPcs

LEMMA OthersTuple ==
    ASSUME TInv, NEW w \in Writers, NEW i \in Owned(w)
    PROVE  \A u \in Writers \ {w} : i \notin Owned(u)
BY DEF TInv

LEMMA LockKeeps ==
    ASSUME TInv, NEW w \in Writers, NEW write_intent \in BOOLEAN, Lock(w, write_intent)
    PROVE  TInv'
<1> DEFINE i == wr[w].at
           x == [wr[w] EXCEPT !.pc = IF write_intent THEN "locked" ELSE "expose"]
           g == [Hdr(i) EXCEPT !.locked = TRUE, !.write_intent = write_intent]
           m == [heap[i] EXCEPT !.hdr = g]
<1>1. wr[w].pc = "found" /\ ~Hdr(i).locked /\ (write_intent => locks < MaxLocks)
      /\ locks' = (IF write_intent THEN locks + 1 ELSE locks)
      /\ root' = root /\ UNCHANGED <<tick, rd, installed, seen>> /\ wr' = [wr EXCEPT ![w] = x]
  BY DEF Lock, KeepReaders, SetW
<1>2. /\ heap \in Seq(Tuples) /\ root \in DOMAIN heap /\ i \in DOMAIN heap
      /\ heap[i] \in Tuples /\ Hdr(i) \in Header /\ wr[w] \in WriterStates
      /\ HeaderInv(Hdr(i), locks) /\ TupleInv(i) /\ WriterInv(w)
      /\ locks \in 0..MaxLocks /\ i \in Nat /\ i # None
      /\ wr \in [Writers -> WriterStates]
  BY <1>1, WriterFacts
<1>3. ~Hdr(i).write_intent /\ ~Hdr(i).modifying
  BY <1>1, <1>2 DEF HeaderInv
<1>4. /\ g \in Header /\ g.locked /\ (g.write_intent <=> write_intent) /\ ~g.modifying
      /\ g.version = Hdr(i).version /\ g.deleting = Hdr(i).deleting /\ g.latest = Hdr(i).latest
  BY <1>2, <1>3 DEF Header
<1>5. heap' = [heap EXCEPT ![i] = m]
  <2>1. heap' = [heap EXCEPT ![i].hdr.locked = TRUE, ![i].hdr.write_intent = @ \/ write_intent]
    BY DEF Lock
  <2>2. heap' = [heap EXCEPT ![i] = [heap[i] EXCEPT !.hdr =
                   [Hdr(i) EXCEPT !.locked = TRUE, !.write_intent = @ \/ write_intent]]]
    BY <1>2, <2>1 DEF Hdr, Tuples, Header
  <2>3. (Hdr(i).write_intent \/ write_intent) = write_intent
    BY <1>3
  <2> QED
    BY <1>2, <2>2, <2>3
<1> HIDE DEF g
<1>6. /\ m \in Tuples /\ m.hdr = g /\ m.version = heap[i].version
      /\ m.value = heap[i].value /\ m.next = heap[i].next
  BY <1>2, <1>4, HeaderChange
<1> HIDE DEF m
<1>7. /\ x \in WriterStates /\ x.pc = (IF write_intent THEN "locked" ELSE "expose")
      /\ x.at = i /\ x.tid = wr[w].tid /\ x.rep = wr[w].rep /\ wr'[w] = x
  BY <1>1, <1>2 DEF WriterStates, WriterPcs
<1> HIDE DEF x
<1>8. heap'[i] = m /\ DOMAIN heap' = DOMAIN heap /\ Len(heap') = Len(heap)
  BY <1>2, <1>5, <1>6
<1>9. i = root => Current(root) /\ Current(root)' /\ Last(installed') = Content(m)
  <2>1. Settled
    BY DEF TInv
  <2>2. i = root => Current(root) /\ Last(installed) = Content(heap[root])
    BY <1>3, <2>1 DEF Settled
  <2> QED
    BY <1>1, <1>4, <1>6, <1>8, <2>2 DEF Current, Hdr, Content
<1>10. WriterInv(w)'
  <2>1. wr[w].rep = None /\ wr[w].at \in 0..Len(heap)
    BY <1>1, <1>2 DEF WriterInv
  <2> QED
    BY <1>1, <1>2, <1>3, <1>4, <1>6, <1>7, <1>8, <1>9, <2>1 DEF WriterInv, Held, Hdr
<1>11. HeaderInv(m.hdr, locks') /\ locks' \in 0..MaxLocks /\ locks <= locks'
  <2>1. Hdr(i).version \in Nat /\ Hdr(i).version <= locks /\ locks \in Nat /\ MaxLocks \in Nat
    BY <1>2, Constants, HeaderTypes DEF HeaderInv
  <2> QED
    BY <1>1, <1>2, <1>3, <1>4, <1>6, <2>1 DEF HeaderInv
<1>12. \A r \in Readers : Older(w, r)'
  BY <1>7 DEF Older, InPlace
<1>13. Owned(w)' \subseteq {i}
  BY <1>7 DEF Owned, Held
<1>14. \A u \in Writers \ {w} : i \notin Owned(u)
  BY <1>1, UnlockedUnowned
<1>15. \A r \in Readers : Clean(r) /\ rd[r].at = i => Kept(i, r) \/ m = heap[i]
  <2>1. Hdr(i).version <= Hdr(i).version
    BY <1>2, HeaderTypes
  <2> QED
    BY <1>1, <1>2, <1>3, <1>4, <1>6, <1>8, <2>1, SameContent DEF Hdr
<1>16. m.hdr.latest = heap[i].hdr.latest
  BY <1>4, <1>6 DEF Hdr
<1> QED
  BY <1>1, <1>2, <1>5, <1>6, <1>7, <1>9, <1>10, <1>11, <1>12, <1>13, <1>14, <1>15, <1>16, WriterFacts, TupleChange, ZenonT(60)

(* A lock is given back with nothing half written under it.                *)
LEMMA ReleaseKeeps ==
    ASSUME TInv, NEW w \in Writers, wr[w].pc # "idle", NEW i \in Owned(w), i \in DOMAIN heap,
           ~Hdr(i).modifying, i = root => Current(root), NEW x \in WriterStates,
           heap' = [heap EXCEPT ![i].hdr = Unlocked(@)], wr' = [wr EXCEPT ![w] = x],
           UNCHANGED <<root, locks, tick, rd, installed, seen>>,
           x.at \in {wr[w].at, None}, Owned(w)' \subseteq Owned(w),
           WriterInv(w)', \A r \in Readers : Older(w, r)'
    PROVE  TInv'
<1> DEFINE g == Unlocked(Hdr(i))
           m == [heap[i] EXCEPT !.hdr = g]
<1>1. /\ heap \in Seq(Tuples) /\ root \in DOMAIN heap /\ heap[i] \in Tuples /\ Hdr(i) \in Header
      /\ HeaderInv(Hdr(i), locks) /\ locks \in 0..MaxLocks
      /\ installed' \in Seq(Contents) /\ installed' # <<>> /\ installed' = installed
      /\ seen' \in [Readers -> SUBSET Contents] /\ seen' = seen
      /\ \A r \in Readers : seen[r] \subseteq seen'[r]
  <2>1. heap \in Seq(Tuples) /\ TupleInv(i)
    BY DEF TInv, Types
  <2>2. heap[i] \in Tuples
    BY <2>1
  <2> QED
    BY <2>1, <2>2, WriterFacts, TupleTypes DEF TupleInv, Hdr
<1>2. /\ g \in Header /\ ~g.locked /\ ~g.modifying /\ ~g.write_intent
      /\ g.latest = Hdr(i).latest /\ g.deleting = Hdr(i).deleting
      /\ g.version = IF Hdr(i).write_intent THEN Hdr(i).version + 1 ELSE Hdr(i).version
      /\ Hdr(i).version \in Nat /\ (Hdr(i).write_intent => Hdr(i).version < locks)
      /\ Hdr(i).version <= locks /\ locks \in Nat
  <2>1. Hdr(i).version \in Nat /\ (Hdr(i).write_intent => Hdr(i).version < locks)
        /\ Hdr(i).version <= locks /\ (Hdr(i).modifying => Hdr(i).write_intent)
    BY <1>1, HeaderTypes DEF HeaderInv
  <2>2. locks \in Nat /\ (Hdr(i).write_intent => Hdr(i).version < MaxLocks)
    BY <1>1, <2>1, Constants
  <2> QED
    BY <1>1, <2>1, <2>2, UnlockedTypes
<1>3. heap' = [heap EXCEPT ![i] = m]
  BY <1>1 DEF Hdr
<1> HIDE DEF g
<1>4. /\ m \in Tuples /\ m.hdr = g /\ m.version = heap[i].version
      /\ m.value = heap[i].value /\ m.next = heap[i].next
  BY <1>1, <1>2, HeaderChange
<1> HIDE DEF m
<1>5. heap'[i] = m
  BY <1>1, <1>3
<1>6. i = root => Current(root)' /\ Last(installed') = Content(m)
  BY <1>2, <1>4, <1>5 DEF Current, Hdr, Content
<1>7. HeaderInv(m.hdr, locks') /\ locks' \in 0..MaxLocks /\ locks <= locks'
  BY <1>1, <1>2, <1>4 DEF HeaderInv
<1>8. \A u \in Writers \ {w} : i \notin Owned(u)
  BY OthersTuple
<1>9. \A r \in Readers : Clean(r) /\ rd[r].at = i => Kept(i, r) \/ m = heap[i]
  <2>1. Hdr(i).version <= g.version /\ (g.version = Hdr(i).version => ~Hdr(i).write_intent)
    BY <1>2
  <2> QED
    BY <1>1, <1>2, <1>4, <1>5, <2>1, SameContent DEF Hdr
<1>10. m.hdr.latest = heap[i].hdr.latest
  BY <1>2, <1>4 DEF Hdr
<1> QED
  BY <1>1, <1>3, <1>4, <1>6, <1>7, <1>8, <1>9, <1>10, TupleChange, ZenonT(60)

LEMMA UnlockKeeps ==
    ASSUME TInv, NEW w \in Writers, Unlock(w)
    PROVE  TInv'
<1> DEFINE i == wr[w].at
           x == IdleWriter
<1>1. wr[w].pc \in {"expose", "locked"} /\ UNCHANGED <<root, locks, tick, rd, installed, seen>>
      /\ wr' = [wr EXCEPT ![w] = x] /\ heap' = [heap EXCEPT ![i].hdr = Unlocked(@)]
  BY DEF Unlock, KeepReaders, SetW
<1>2. /\ heap \in Seq(Tuples) /\ i \in DOMAIN heap /\ WriterInv(w)
      /\ HeaderInv(Hdr(i), locks) /\ wr \in [Writers -> WriterStates]
  BY <1>1, WriterFacts
<1>3. ~Hdr(i).modifying /\ (i = root => Current(root))
  <2>1. ~Hdr(root).write_intent => Current(root)
    BY DEF TInv, Settled
  <2>2. CASE wr[w].pc = "expose"
    BY <1>2, <2>1, <2>2 DEF WriterInv, Held, WriterPcs, HeaderInv, Hdr
  <2>3. CASE wr[w].pc = "locked"
    BY <1>2, <2>3 DEF WriterInv, Held, WriterPcs, Hdr
  <2> QED
    BY <1>1, <2>2, <2>3
<1>4. x \in WriterStates /\ x.pc = "idle" /\ x.at = None /\ x.rep = None /\ wr'[w] = x
  BY <1>1, <1>2, Constants DEF WriterStates, WriterPcs, IdleWriter, None, MIN_TID
<1>5. WriterInv(w)'
  <2>1. None \in 0..Len(heap')
    BY <1>1, <1>2 DEF None
  <2> QED
    BY <1>4, <2>1 DEF WriterInv, Held
<1>6. \A r \in Readers : Older(w, r)'
  BY <1>4 DEF Older, InPlace
<1>7. Owned(w)' = {} /\ i \in Owned(w)
  BY <1>1, <1>4 DEF Owned, Held, WriterPcs
<1> QED
  BY <1>1, <1>2, <1>3, <1>4, <1>5, <1>6, <1>7, ReleaseKeeps

(* The test of the latest bit puts the tuple in the tree; the commit id is *)
(* above the version of everybody who has read it.                         *)
LEMMA CommitKeeps ==
    ASSUME TInv, NEW w \in Writers, Commit(w)
    PROVE  TInv'
<1> DEFINE i == wr[w].at
<1>1. wr[w].pc = "locked" /\ Hdr(i).latest /\ UNCHANGED <<heap, root, locks, tick, rd, installed, seen>>
  BY DEF Commit, KeepReaders, is_latest
<1>2. /\ heap \in Seq(Tuples) /\ root \in DOMAIN heap /\ i \in DOMAIN heap
      /\ heap[i] \in Tuples /\ Hdr(i) \in Header /\ wr[w] \in WriterStates
      /\ HeaderInv(Hdr(i), locks) /\ TupleInv(i) /\ WriterInv(w)
      /\ locks \in 0..MaxLocks /\ i \in Nat /\ i # None
      /\ wr \in [Writers -> WriterStates]
  BY <1>1, WriterFacts
<1>3. PICK t \in CommitTids(i), delete \in BOOLEAN, fits \in BOOLEAN :
         SetW(w, [wr[w] EXCEPT !.tid = t, !.delete = delete,
                !.spill = ~can_overwrite_record_tid(heap[i].version, t),
                !.pc = IF fits /\ ~Hdr(i).deleting THEN "mark" ELSE "replace"])
  BY DEF Commit
<1> DEFINE y == [wr[w] EXCEPT !.tid = t, !.delete = delete]
           p == IF fits /\ ~Hdr(i).deleting THEN "mark" ELSE "replace"
           s == ~can_overwrite_record_tid(heap[i].version, t)
           x == [y EXCEPT !.spill = s, !.pc = p]
<1>4. wr' = [wr EXCEPT ![w] = x] /\ wr'[w] = x
  BY <1>2, <1>3 DEF SetW
<1>5. t \in 1..MaxTid /\ (heap[i].version # MAX_TID => t > heap[i].version)
  BY DEF CommitTids
<1>6. y \in WriterStates /\ y.tid = t /\ y.at = i /\ y.rep = wr[w].rep /\ y.delete = delete
  <2> DEFINE z == [wr[w] EXCEPT !.tid = t]
  <2>0. t \in 0..MaxTid
    BY <1>5, Constants
  <2>1. z \in WriterStates /\ z.tid = t /\ z.at = i /\ z.rep = wr[w].rep
    BY <1>2, <2>0 DEF WriterStates
  <2>2. y = [z EXCEPT !.delete = delete]
    OBVIOUS
  <2> HIDE DEF y, z
  <2> QED
    BY <2>1, <2>2 DEF WriterStates
<1>7. s \in BOOLEAN /\ p \in {"mark", "replace"} /\ (p = "mark" => ~Hdr(i).deleting)
  BY DEF can_overwrite_record_tid
<1> HIDE DEF y, s, p
<1>8. x \in WriterStates /\ x.pc = p /\ x.tid = t /\ x.at = i /\ x.rep = wr[w].rep
  BY <1>6, <1>7 DEF WriterStates, WriterPcs
<1> HIDE DEF x
<1>9. i = root /\ wr[w].rep = None /\ Hdr(i).locked /\ Hdr(i).write_intent /\ ~Hdr(i).modifying
      /\ Current(root) /\ i \in 0..Len(heap)
  <2>1. i = root
    <3>1. i = root \/ Unseen(i)
      BY <1>1, <1>2 DEF TupleInv
    <3> QED
      BY <3>1 DEF Unseen
  <2> QED
    BY <1>1, <1>2, <2>1 DEF WriterInv, Held, WriterPcs, Hdr
<1>10. WriterInv(w)'
  <2>1. Current(root)' /\ heap' = heap /\ root' = root /\ Hdr(root)' = Hdr(root)
    BY <1>1, <1>9 DEF Current, Hdr
  <2> QED
    BY <1>2, <1>1, <1>4, <1>5, <1>7, <1>8, <1>9, <2>1 DEF WriterInv, Held, Hdr, Newer
<1>11. \A r \in Readers : Older(w, r)'
  <2> SUFFICES ASSUME NEW r \in Readers, Clean(r), rd[r].pc \in Recorded, rd[r].at = i
               PROVE  rd[r].start_t < t
    BY <1>1, <1>4, <1>8 DEF Older, Clean
  <2>1. CleanInv(r)
    BY DEF TInv, ReaderInv
  <2>2. rd[r].start_t <= heap[i].version /\ heap[i].version # MAX_TID
    BY <2>1 DEF CleanInv
  <2>3. rd[r].start_t \in 0..MAX_TID
    BY DEF TInv, Types, ReaderStates
  <2>4. heap[i].version \in Nat /\ rd[r].start_t \in Nat /\ t \in Nat
    BY <1>2, <1>5, <2>3, TupleTypes, Constants
  <2> QED
    BY <1>5, <2>2, <2>4
<1>12. Owned(w)' = {i} /\ Owned(w) = {i}
  BY <1>1, <1>4, <1>7, <1>8 DEF Owned, Held, WriterPcs
<1>13. \A u \in Writers \ {w} : i \notin Owned(u)
  BY <1>12, OthersTuple
<1>14. heap' = [heap EXCEPT ![i] = heap[i]]
  BY <1>1, <1>2
<1>15. /\ HeaderInv(heap[i].hdr, locks') /\ locks' \in 0..MaxLocks /\ locks <= locks'
       /\ heap[i].hdr.write_intent /\ x.at \in {wr[w].at, None}
       /\ Last(installed') = Content(heap[i])
       /\ \A r \in Readers : seen[r] \subseteq seen'[r]
  BY <1>1, <1>2, <1>6, <1>8, <1>9 DEF Hdr, Current
<1>16. /\ installed' \in Seq(Contents) /\ installed' # <<>> /\ installed' = installed
       /\ seen' \in [Readers -> SUBSET Contents]
  BY <1>1, WriterFacts
<1> QED
  BY <1>1, <1>2, <1>4, <1>8, <1>10, <1>11, <1>12, <1>13, <1>14, <1>15, <1>16, TupleChange, ZenonT(60)

(* A step of a commit that writes in place: readers that looked at the     *)
(* header before see it marked.                                            *)
LEMMA WritingKeeps ==
    ASSUME TInv, NEW w \in Writers, wr[w].pc \in InPlace \ {"unlock"},
           NEW x \in WriterStates, NEW m \in Tuples,
           heap' = [heap EXCEPT ![wr[w].at] = m], wr' = [wr EXCEPT ![w] = x],
           UNCHANGED <<root, locks, tick, rd, installed, seen>>,
           x.pc \in InPlace, x.at = wr[w].at, x.tid = wr[w].tid,
           m.hdr.modifying, m.hdr.write_intent, m.hdr.locked, m.next = heap[wr[w].at].next,
           m.hdr.latest = heap[wr[w].at].hdr.latest, m.hdr.version = heap[wr[w].at].hdr.version,
           m.version = MAX_TID => heap[wr[w].at].version = MAX_TID,
           heap[wr[w].at].version # MAX_TID => heap[wr[w].at].version <= m.version,
           WriterInv(w)'
    PROVE  TInv'
<1> DEFINE i == wr[w].at
<1>1. wr[w].pc \in Held /\ wr[w].pc \notin {"idle", "link", "unlock_rep", "unlock"}
      /\ x.pc \in Held /\ x.pc \notin {"link", "unlock_rep"}
  BY DEF InPlace, Held, WriterPcs
<1>2. /\ heap \in Seq(Tuples) /\ root \in DOMAIN heap /\ i \in DOMAIN heap
      /\ heap[i] \in Tuples /\ Hdr(i) \in Header /\ wr[w] \in WriterStates
      /\ HeaderInv(Hdr(i), locks) /\ TupleInv(i) /\ WriterInv(w)
      /\ locks \in 0..MaxLocks /\ wr \in [Writers -> WriterStates]
      /\ installed' \in Seq(Contents) /\ installed' # <<>>
      /\ seen' \in [Readers -> SUBSET Contents]
  BY <1>1, WriterFacts
<1>3. wr[w].rep = None /\ Hdr(i).write_intent /\ wr[w].pc # "expose"
  BY <1>1, <1>2 DEF WriterInv, Hdr, InPlace
<1>4. \A r \in Readers : Clean(r) /\ rd[r].at = i => Kept(i, r) \/ m = heap[i]
  <2>1. heap'[i] = m /\ heap[i].hdr.version <= m.hdr.version
    BY <1>2, TupleTypes
  <2> QED
    BY <2>1 DEF Kept
<1>5. \A r \in Readers : Older(w, r)'
  <2>1. \A r \in Readers : Older(w, r)
    BY DEF TInv
  <2>2. wr'[w] = x
    BY <1>2
  <2> QED
    BY <1>3, <2>1, <2>2 DEF Older, Clean
<1>6. HeaderInv(m.hdr, locks') /\ locks' \in 0..MaxLocks /\ locks <= locks'
  BY <1>2, <1>3 DEF HeaderInv, Hdr
<1>7. Owned(w)' = {i} /\ Owned(w) = {i}
  <2>1. wr'[w] = x
    BY <1>2
  <2> QED
    BY <1>1, <2>1 DEF Owned
<1>8. \A u \in Writers \ {w} : i \notin Owned(u)
  BY <1>7, OthersTuple
<1>9. /\ x.at \in {wr[w].at, None} /\ root' = root /\ rd' = rd /\ tick' = tick /\ installed' = installed
      /\ \A r \in Readers : seen[r] \subseteq seen'[r]
  OBVIOUS
<1>10. i = root /\ (~m.hdr.modifying \/ m.version = MAX_TID) => Last(installed') = Content(m)
  BY DEF TInv, Settled, Content
<1> QED
  BY <1>2, <1>4, <1>5, <1>6, <1>7, <1>8, <1>9, <1>10, TupleChange, ZenonT(60)

LEMMA MarkModifyingKeeps ==
    ASSUME TInv, NEW w \in Writers, mark_modifying(w)
    PROVE  TInv'
<1> DEFINE i == wr[w].at
           p == IF wr[w].spill THEN "spill" ELSE IF wr[w].delete THEN "version" ELSE "write1"
           x == [wr[w] EXCEPT !.pc = p]
           g == [Hdr(i) EXCEPT !.modifying = TRUE]
           m == [heap[i] EXCEPT !.hdr = g]
<1>1. wr[w].pc = "mark" /\ UNCHANGED <<root, locks, tick, rd, installed, seen>>
      /\ wr' = [wr EXCEPT ![w] = x]
  BY DEF mark_modifying, KeepReaders, SetW
<1>2. /\ heap \in Seq(Tuples) /\ i \in DOMAIN heap
      /\ heap[i] \in Tuples /\ Hdr(i) \in Header /\ wr[w] \in WriterStates
      /\ WriterInv(w) /\ wr \in [Writers -> WriterStates]
  BY <1>1, WriterFacts
<1>3. /\ i = root /\ Hdr(i).locked /\ Hdr(i).write_intent /\ Hdr(i).latest /\ ~Hdr(i).deleting
      /\ Newer(wr[w], heap[i]) /\ wr[w].tid \in 1..MaxTid /\ wr[w].rep = None /\ i \in 0..Len(heap)
  BY <1>1, <1>2 DEF WriterInv, Held, WriterPcs, Hdr
<1>4. /\ g \in Header /\ g.locked /\ g.write_intent /\ g.modifying
      /\ g.version = Hdr(i).version /\ g.deleting = Hdr(i).deleting /\ g.latest = Hdr(i).latest
  BY <1>2, <1>3 DEF Header
<1>5. heap' = [heap EXCEPT ![i] = m]
  <2>1. heap' = [heap EXCEPT ![i].hdr.modifying = TRUE]
    BY DEF mark_modifying
  <2> QED
    BY <1>2, <2>1 DEF Hdr
<1> HIDE DEF g
<1>6. /\ m \in Tuples /\ m.hdr = g /\ m.version = heap[i].version
      /\ m.value = heap[i].value /\ m.next = heap[i].next
  BY <1>2, <1>4, HeaderChange
<1> HIDE DEF m
<1>7. /\ p \in {"spill", "version", "write1"} /\ (p = "version" => wr[w].delete)
      /\ (p = "write1" => ~wr[w].delete)
  OBVIOUS
<1> HIDE DEF p
<1>8. /\ x \in WriterStates /\ x.pc = p /\ x.at = i /\ x.tid = wr[w].tid /\ x.rep = None
      /\ x.delete = wr[w].delete /\ wr'[w] = x
  BY <1>1, <1>2, <1>3, <1>7 DEF WriterStates, WriterPcs
<1> HIDE DEF x
<1>9. heap'[i] = m /\ DOMAIN heap' = DOMAIN heap /\ Len(heap') = Len(heap)
  BY <1>2, <1>5, <1>6
<1>10. WriterInv(w)'
  BY <1>1, <1>2, <1>3, <1>4, <1>6, <1>7, <1>8, <1>9 DEF WriterInv, Held, Hdr, Newer
<1>11. /\ m.hdr.latest = heap[i].hdr.latest /\ m.hdr.version = heap[i].hdr.version
       /\ wr[w].pc \in InPlace \ {"unlock"} /\ x.pc \in InPlace /\ m.version <= m.version
  BY <1>1, <1>4, <1>6, <1>7, <1>8, TupleTypes DEF InPlace, Hdr
<1> QED
  BY <1>1, <1>4, <1>5, <1>6, <1>8, <1>10, <1>11, WritingKeeps

LEMMA WriteWordKeeps ==
    ASSUME TInv, NEW w \in Writers, WriteWord(w)
    PROVE  TInv'
<1> DEFINE i == wr[w].at
           n == IF wr[w].pc = "write1" THEN 1 ELSE 2
           p == IF n = 1 THEN "write2" ELSE "version"
           x == [wr[w] EXCEPT !.pc = p]
           m == [heap[i] EXCEPT !.value[n] = wr[w].tid]
<1>1. wr[w].pc \in {"write1", "write2"} /\ UNCHANGED <<root, locks, tick, rd, installed, seen>>
      /\ wr' = [wr EXCEPT ![w] = x]
  BY DEF WriteWord, KeepReaders, SetW
<1>2. /\ heap \in Seq(Tuples) /\ i \in DOMAIN heap
      /\ heap[i] \in Tuples /\ Hdr(i) \in Header /\ wr[w] \in WriterStates
      /\ WriterInv(w) /\ wr \in [Writers -> WriterStates]
  BY <1>1, WriterFacts
<1>3. /\ i = root /\ Hdr(i).locked /\ Hdr(i).write_intent /\ Hdr(i).modifying /\ Hdr(i).latest
      /\ ~Hdr(i).deleting /\ ~wr[w].delete /\ (n = 2 => heap[i].value[1] = wr[w].tid)
      /\ Newer(wr[w], heap[i]) /\ wr[w].tid \in 1..MaxTid /\ wr[w].rep = None /\ i \in 0..Len(heap)
  BY <1>1, <1>2 DEF WriterInv, Held, WriterPcs, Hdr
<1>4. heap' = [heap EXCEPT ![i] = m]
  <2>1. heap' = [heap EXCEPT ![i].value[n] = wr[w].tid]
    BY DEF WriteWord
  <2> QED
    BY <1>2, <2>1
<1>5. n \in {1, 2} /\ p \in {"write2", "version"} /\ (p = "write2" <=> n = 1)
  OBVIOUS
<1> HIDE DEF n, p
<1>6. /\ m \in Tuples /\ m.hdr = heap[i].hdr /\ m.version = heap[i].version
      /\ m.next = heap[i].next /\ m.value[n] = wr[w].tid
      /\ (n = 2 => m.value[1] = heap[i].value[1])
  <2> DEFINE v == [heap[i].value EXCEPT ![n] = wr[w].tid]
  <2>1. wr[w].tid \in Values /\ heap[i].value \in Values \X Values
    BY <1>2, <1>3, TupleTypes, Constants DEF Values
  <2>2. v \in Values \X Values /\ v[n] = wr[w].tid /\ (n = 2 => v[1] = heap[i].value[1])
    BY <1>5, <2>1
  <2>3. m = [heap[i] EXCEPT !.value = v]
    OBVIOUS
  <2> HIDE DEF v
  <2> QED
    BY <1>2, <2>2, <2>3 DEF Tuples
<1> HIDE DEF m
<1>7. p = "version" => m.value = Whole(wr[w].tid)
  <2>1. m.value \in Values \X Values
    BY <1>6, TupleTypes
  <2> QED
    BY <1>3, <1>5, <1>6, <2>1 DEF Whole
<1>8. /\ x \in WriterStates /\ x.pc = p /\ x.at = i /\ x.tid = wr[w].tid /\ x.rep = None
      /\ x.delete = wr[w].delete /\ wr'[w] = x
  BY <1>1, <1>2, <1>3, <1>5 DEF WriterStates, WriterPcs
<1> HIDE DEF x
<1>9. heap'[i] = m /\ DOMAIN heap' = DOMAIN heap /\ Len(heap') = Len(heap)
  BY <1>2, <1>4, <1>6
<1>10. WriterInv(w)'
  BY <1>1, <1>2, <1>3, <1>5, <1>6, <1>7, <1>8, <1>9 DEF WriterInv, Held, Hdr, Newer
<1>11. /\ wr[w].pc \in InPlace \ {"unlock"} /\ x.pc \in InPlace /\ m.version <= m.version
  BY <1>1, <1>5, <1>6, <1>8, TupleTypes DEF InPlace
<1> QED
  BY <1>1, <1>3, <1>4, <1>6, <1>8, <1>10, <1>11, WritingKeeps DEF Hdr

LEMMA SetVersionKeeps ==
    ASSUME TInv, NEW w \in Writers, SetVersion(w)
    PROVE  TInv'
<1> DEFINE i == wr[w].at
           p == IF wr[w].delete THEN "deleting" ELSE "unlock"
           x == [wr[w] EXCEPT !.pc = p]
           m == [heap[i] EXCEPT !.version = wr[w].tid]
<1>1. wr[w].pc = "version" /\ UNCHANGED <<root, locks, tick, rd, installed, seen>>
      /\ wr' = [wr EXCEPT ![w] = x]
  BY DEF SetVersion, KeepReaders, SetW
<1>2. /\ heap \in Seq(Tuples) /\ i \in DOMAIN heap
      /\ heap[i] \in Tuples /\ Hdr(i) \in Header /\ wr[w] \in WriterStates
      /\ WriterInv(w) /\ wr \in [Writers -> WriterStates]
  BY <1>1, WriterFacts
<1>3. /\ i = root /\ Hdr(i).locked /\ Hdr(i).write_intent /\ Hdr(i).modifying /\ Hdr(i).latest
      /\ ~Hdr(i).deleting /\ (wr[w].delete \/ heap[i].value = Whole(wr[w].tid))
      /\ Newer(wr[w], heap[i]) /\ wr[w].tid \in 1..MaxTid /\ wr[w].rep = None /\ i \in 0..Len(heap)
  BY <1>1, <1>2 DEF WriterInv, Held, WriterPcs, Hdr
<1>4. heap' = [heap EXCEPT ![i] = m]
  BY <1>2 DEF SetVersion
<1>5. p \in {"deleting", "unlock"} /\ (p = "deleting" <=> wr[w].delete) /\ wr[w].delete \in BOOLEAN
  BY <1>2 DEF WriterStates
<1> HIDE DEF p
<1>6. /\ m \in Tuples /\ m.hdr = heap[i].hdr /\ m.version = wr[w].tid
      /\ m.next = heap[i].next /\ m.value = heap[i].value
  <2>1. wr[w].tid \in 0..MAX_TID
    BY <1>3, Constants
  <2> QED
    BY <1>2, <2>1 DEF Tuples
<1> HIDE DEF m
<1>7. m.version # MAX_TID /\ (heap[i].version # MAX_TID => heap[i].version <= m.version)
      /\ (p = "unlock" => Content(m) = Made(wr[w]))
  <2>1. m.version # MAX_TID /\ (heap[i].version # MAX_TID => heap[i].version <= m.version)
    BY <1>2, <1>3, <1>6, TupleTypes, Constants DEF Newer
  <2> QED
    BY <1>3, <1>5, <1>6, <2>1 DEF Content, Made, Hdr
<1>8. /\ x \in WriterStates /\ x.pc = p /\ x.at = i /\ x.tid = wr[w].tid /\ x.rep = None
      /\ x.delete = wr[w].delete /\ wr'[w] = x /\ Made(x) = Made(wr[w])
  BY <1>1, <1>2, <1>3, <1>5 DEF WriterStates, WriterPcs, Made
<1> HIDE DEF x
<1>9. heap'[i] = m /\ DOMAIN heap' = DOMAIN heap /\ Len(heap') = Len(heap)
  BY <1>2, <1>4, <1>6
<1>10. WriterInv(w)'
  BY <1>1, <1>2, <1>3, <1>5, <1>6, <1>7, <1>8, <1>9 DEF WriterInv, Held, Hdr
<1>11. wr[w].pc \in InPlace \ {"unlock"} /\ x.pc \in InPlace
  BY <1>1, <1>5, <1>8 DEF InPlace
<1> QED
  BY <1>1, <1>3, <1>4, <1>6, <1>7, <1>8, <1>10, <1>11, WritingKeeps DEF Hdr

LEMMA MarkDeletingKeeps ==
    ASSUME TInv, NEW w \in Writers, mark_deleting(w)
    PROVE  TInv'
<1> DEFINE i == wr[w].at
           x == [wr[w] EXCEPT !.pc = "key"]
           g == [Hdr(i) EXCEPT !.deleting = TRUE]
           m == [heap[i] EXCEPT !.hdr = g]
<1>1. wr[w].pc = "deleting" /\ UNCHANGED <<root, locks, tick, rd, installed, seen>>
      /\ wr' = [wr EXCEPT ![w] = x]
  BY DEF mark_deleting, KeepReaders, SetW
<1>2. /\ heap \in Seq(Tuples) /\ i \in DOMAIN heap
      /\ heap[i] \in Tuples /\ Hdr(i) \in Header /\ wr[w] \in WriterStates
      /\ WriterInv(w) /\ wr \in [Writers -> WriterStates]
  BY <1>1, WriterFacts
<1>3. /\ i = root /\ Hdr(i).locked /\ Hdr(i).write_intent /\ Hdr(i).modifying /\ Hdr(i).latest
      /\ heap[i].version = wr[w].tid /\ wr[w].delete
      /\ wr[w].tid \in 1..MaxTid /\ wr[w].rep = None /\ i \in 0..Len(heap)
  BY <1>1, <1>2 DEF WriterInv, Held, WriterPcs, Hdr
<1>4. /\ g \in Header /\ g.locked /\ g.write_intent /\ g.modifying
      /\ g.version = Hdr(i).version /\ g.deleting /\ g.latest = Hdr(i).latest
  BY <1>2, <1>3 DEF Header
<1>5. heap' = [heap EXCEPT ![i] = m]
  <2>1. heap' = [heap EXCEPT ![i].hdr.deleting = TRUE]
    BY DEF mark_deleting
  <2> QED
    BY <1>2, <2>1 DEF Hdr
<1> HIDE DEF g
<1>6. /\ m \in Tuples /\ m.hdr = g /\ m.version = heap[i].version
      /\ m.value = heap[i].value /\ m.next = heap[i].next
  BY <1>2, <1>4, HeaderChange
<1> HIDE DEF m
<1>7. /\ x \in WriterStates /\ x.pc = "key" /\ x.at = i /\ x.tid = wr[w].tid /\ x.rep = None
      /\ x.delete = wr[w].delete /\ wr'[w] = x
  BY <1>1, <1>2, <1>3 DEF WriterStates, WriterPcs
<1> HIDE DEF x
<1>8. heap'[i] = m /\ DOMAIN heap' = DOMAIN heap /\ Len(heap') = Len(heap)
  BY <1>2, <1>5, <1>6
<1>9. WriterInv(w)'
  BY <1>1, <1>2, <1>3, <1>4, <1>6, <1>7, <1>8 DEF WriterInv, Held, Hdr
<1>10. /\ m.hdr.latest = heap[i].hdr.latest /\ m.hdr.version = heap[i].hdr.version
       /\ wr[w].pc \in InPlace \ {"unlock"} /\ x.pc \in InPlace /\ m.version <= m.version
  BY <1>1, <1>4, <1>6, <1>7, TupleTypes DEF InPlace, Hdr
<1> QED
  BY <1>1, <1>4, <1>5, <1>6, <1>7, <1>9, <1>10, WritingKeeps

LEMMA LogicalDeleteKeeps ==
    ASSUME TInv, NEW w \in Writers, on_logical_delete(w)
    PROVE  TInv'
<1> DEFINE i == wr[w].at
           x == [wr[w] EXCEPT !.pc = "unlock"]
           m == [heap[i] EXCEPT !.value = Whole(Junk)]
<1>1. wr[w].pc = "key" /\ UNCHANGED <<root, locks, tick, rd, installed, seen>>
      /\ wr' = [wr EXCEPT ![w] = x]
  BY DEF on_logical_delete, KeepReaders, SetW
<1>2. /\ heap \in Seq(Tuples) /\ i \in DOMAIN heap
      /\ heap[i] \in Tuples /\ Hdr(i) \in Header /\ wr[w] \in WriterStates
      /\ WriterInv(w) /\ wr \in [Writers -> WriterStates]
  BY <1>1, WriterFacts
<1>3. /\ i = root /\ Hdr(i).locked /\ Hdr(i).write_intent /\ Hdr(i).modifying /\ Hdr(i).latest
      /\ Hdr(i).deleting /\ heap[i].version = wr[w].tid /\ wr[w].delete
      /\ wr[w].tid \in 1..MaxTid /\ wr[w].rep = None /\ i \in 0..Len(heap)
  BY <1>1, <1>2 DEF WriterInv, Held, WriterPcs, Hdr
<1>4. heap' = [heap EXCEPT ![i] = m]
  BY <1>2 DEF on_logical_delete
<1>5. /\ m \in Tuples /\ m.hdr = heap[i].hdr /\ m.version = heap[i].version
      /\ m.next = heap[i].next
  <2>1. Whole(Junk) \in Values \X Values
    BY DEF Whole, Values
  <2> QED
    BY <1>2, <2>1 DEF Tuples
<1> HIDE DEF m
<1>6. Content(m) = Made(wr[w])
  BY <1>3, <1>5, Constants DEF Content, Made, Hdr
<1>7. /\ x \in WriterStates /\ x.pc = "unlock" /\ x.at = i /\ x.tid = wr[w].tid /\ x.rep = None
      /\ x.delete = wr[w].delete /\ wr'[w] = x /\ Made(x) = Made(wr[w])
  BY <1>1, <1>2, <1>3 DEF WriterStates, WriterPcs, Made
<1> HIDE DEF x
<1>8. heap'[i] = m /\ DOMAIN heap' = DOMAIN heap /\ Len(heap') = Len(heap)
  BY <1>2, <1>4, <1>5
<1>9. WriterInv(w)'
  BY <1>1, <1>2, <1>3, <1>5, <1>6, <1>7, <1>8 DEF WriterInv, Held, Hdr
<1>10. wr[w].pc \in InPlace \ {"unlock"} /\ x.pc \in InPlace /\ m.version <= m.version
  BY <1>1, <1>5, <1>7, TupleTypes DEF InPlace
<1> QED
  BY <1>1, <1>3, <1>4, <1>5, <1>7, <1>9, <1>10, WritingKeeps DEF Hdr

LEMMA UnlockReplacementKeeps ==
    ASSUME TInv, NEW w \in Writers, UnlockReplacement(w)
    PROVE  TInv'
<1> DEFINE i == wr[w].rep
           x == [wr[w] EXCEPT !.pc = "unlock"]
<1>1. wr[w].pc = "unlock_rep" /\ UNCHANGED <<root, locks, tick, rd, installed, seen>>
      /\ wr' = [wr EXCEPT ![w] = x] /\ heap' = [heap EXCEPT ![i].hdr = Unlocked(@)]
  BY DEF UnlockReplacement, KeepReaders, SetW
<1>2. /\ heap \in Seq(Tuples) /\ root \in DOMAIN heap /\ WriterInv(w) /\ wr[w].at \in DOMAIN heap
      /\ wr[w] \in WriterStates /\ wr \in [Writers -> WriterStates]
  BY <1>1, WriterFacts
<1>3. /\ i = root /\ wr[w].at # root /\ i # None /\ Current(root) /\ ~Hdr(root).modifying
      /\ ~Hdr(wr[w].at).modifying /\ Hdr(wr[w].at).locked /\ Hdr(wr[w].at).write_intent
      /\ wr[w].tid \in 1..MaxTid
  BY <1>1, <1>2 DEF WriterInv, Held, WriterPcs, Hdr
<1>4. x \in WriterStates /\ x.pc = "unlock" /\ x.at = wr[w].at /\ x.rep = wr[w].rep
      /\ x.tid = wr[w].tid /\ wr'[w] = x
  BY <1>1, <1>2 DEF WriterStates, WriterPcs
<1> HIDE DEF x
<1>5. WriterInv(w)'
  <2>1. heap'[wr[w].at] = heap[wr[w].at] /\ Len(heap') = Len(heap) /\ DOMAIN heap' = DOMAIN heap
        /\ wr[w].at \in 0..Len(heap)
    BY <1>1, <1>2, <1>3
  <2> QED
    BY <1>1, <1>2, <1>3, <1>4, <2>1 DEF WriterInv, Held, Hdr
<1>6. \A r \in Readers : Older(w, r)'
  BY <1>3, <1>4 DEF Older
<1>7. Owned(w)' \subseteq Owned(w) /\ i \in Owned(w)
  BY <1>1, <1>4 DEF Owned, Held, WriterPcs
<1> QED
  BY <1>1, <1>2, <1>3, <1>4, <1>5, <1>6, <1>7, ReleaseKeeps

(* The unlock that ends a write in place makes the new version current.    *)
LEMMA UnlockWrittenKeeps ==
    ASSUME TInv, NEW w \in Writers, UnlockWritten(w)
    PROVE  TInv'
<1> DEFINE i == wr[w].at
           x == IdleWriter
           g == Unlocked(Hdr(i))
           m == [heap[i] EXCEPT !.hdr = g]
           new == Made(wr[w])
<1>1. wr[w].pc = "unlock" /\ UNCHANGED <<root, locks, tick, rd>>
      /\ wr' = [wr EXCEPT ![w] = x] /\ heap' = [heap EXCEPT ![i].hdr = Unlocked(@)]
  BY DEF UnlockWritten, SetW
<1>2. /\ heap \in Seq(Tuples) /\ root \in DOMAIN heap /\ i \in DOMAIN heap /\ WriterInv(w)
      /\ heap[i] \in Tuples /\ Hdr(i) \in Header /\ wr[w] \in WriterStates
      /\ HeaderInv(Hdr(i), locks) /\ wr \in [Writers -> WriterStates] /\ locks \in 0..MaxLocks
      /\ installed \in Seq(Contents) /\ installed # <<>> /\ seen \in [Readers -> SUBSET Contents]
  BY <1>1, WriterFacts
<1>3. x \in WriterStates /\ x.pc = "idle" /\ x.at = None /\ x.rep = None /\ wr'[w] = x
  BY <1>1, <1>2, Constants DEF WriterStates, WriterPcs, IdleWriter, None, MIN_TID
<1>4. WriterInv(w)'
  <2>1. None \in 0..Len(heap')
    BY <1>1, <1>2 DEF None
  <2> QED
    BY <1>3, <2>1 DEF WriterInv, Held
<1>5. \A r \in Readers : Older(w, r)'
  BY <1>3 DEF Older, InPlace
<1>6. Owned(w)' = {} /\ i \in Owned(w)
  BY <1>1, <1>3 DEF Owned, Held, WriterPcs
<1>7. CASE wr[w].rep # None
  <2>1. UNCHANGED <<installed, seen>> /\ ~Hdr(i).modifying /\ i # root
    BY <1>1, <1>2, <1>7 DEF UnlockWritten, WriterInv, Hdr
  <2> QED
    BY <1>1, <1>2, <1>3, <1>4, <1>5, <1>6, <2>1, ReleaseKeeps
<1>8. CASE wr[w].rep = None
  <2>1. /\ i = root /\ Hdr(i).latest /\ Hdr(i).modifying /\ Hdr(i).write_intent
        /\ heap[i].version = wr[w].tid /\ Content(heap[i]) = new /\ wr[w].tid \in 1..MaxTid
    BY <1>1, <1>2, <1>8 DEF WriterInv, Held, WriterPcs, Hdr
  <2>2. /\ g \in Header /\ ~g.locked /\ ~g.modifying /\ ~g.write_intent
        /\ g.latest = Hdr(i).latest /\ g.deleting = Hdr(i).deleting
        /\ g.version = Hdr(i).version + 1 /\ Hdr(i).version \in Nat
        /\ Hdr(i).version < locks /\ locks \in Nat
    <3>1. Hdr(i).version \in Nat /\ Hdr(i).version < locks /\ locks \in Nat
          /\ Hdr(i).version < MaxLocks
      BY <1>2, <2>1, HeaderTypes, Constants DEF HeaderInv
    <3> QED
      BY <1>2, <2>1, <3>1, UnlockedTypes
  <2>3. heap' = [heap EXCEPT ![i] = m]
    BY <1>1, <1>2 DEF Hdr
  <2> HIDE DEF g
  <2>4. /\ m \in Tuples /\ m.hdr = g /\ m.version = heap[i].version
        /\ m.value = heap[i].value /\ m.next = heap[i].next
    BY <1>2, <2>2, HeaderChange
  <2> HIDE DEF m
  <2>5. heap'[i] = m /\ Content(m) = new
    BY <1>2, <2>1, <2>2, <2>3, <2>4 DEF Content, Hdr
  <2>6. /\ installed' = Append(installed, new)
        /\ seen' = [r \in Readers |-> IF rd[r].pc = "idle" THEN seen[r] ELSE seen[r] \cup {new}]
    BY <1>8 DEF UnlockWritten, Install, Made
  <2>7. new \in Contents
    <3>1. wr[w].tid \in Nat /\ wr[w].tid \in Values /\ None \in Values
      BY <2>1, Constants DEF Values, None
    <3> QED
      BY <3>1 DEF Made, Contents, Whole
  <2> HIDE DEF new
  <2>8. /\ installed' \in Seq(Contents) /\ installed' # <<>> /\ Last(installed') = new
        /\ seen' \in [Readers -> SUBSET Contents]
        /\ \A r \in Readers : rd[r].pc # "idle" => seen[r] \subseteq seen'[r] /\ new \in seen'[r]
    <3>1. installed' \in Seq(Contents) /\ Len(installed') = Len(installed) + 1
          /\ installed'[Len(installed) + 1] = new
      BY <1>2, <2>6, <2>7
    <3>2. installed' # <<>> /\ Last(installed') = new
      BY <1>2, <3>1 DEF Last
    <3> QED
      BY <1>2, <2>6, <2>7, <3>1, <3>2
  <2>9. Current(root)'
    BY <1>1, <2>1, <2>2, <2>4, <2>5, <2>8 DEF Current, Hdr
  <2>10. HeaderInv(m.hdr, locks') /\ locks' \in 0..MaxLocks /\ locks <= locks'
    BY <1>1, <1>2, <2>2, <2>4 DEF HeaderInv
  <2>11. \A u \in Writers \ {w} : i \notin Owned(u)
    BY <1>6, OthersTuple
  <2>12. ASSUME NEW r \in Readers, Clean(r), rd[r].at = i PROVE Kept(i, r)
    <3>1. Content(m) \in seen'[r]
      BY <2>5, <2>8, <2>12 DEF Clean
    <3>2. rd[r].pc \in Recorded => rd[r].start_t < heap[i].version
      <4>1. Older(w, r)
        BY DEF TInv
      <4> QED
        BY <1>1, <1>8, <2>1, <2>12, <4>1 DEF Older, InPlace
    <3>3. m.hdr.version # heap[i].hdr.version /\ heap[i].hdr.version <= m.hdr.version
      BY <2>2, <2>4 DEF Hdr
    <3>4. heap[i].version <= m.version
      BY <1>2, <2>4, TupleTypes
    <3> QED
      BY <2>4, <2>5, <3>1, <3>2, <3>3, <3>4 DEF Kept
  <2>13. m.hdr.latest = heap[i].hdr.latest /\ rd' = rd /\ tick' = tick /\ root' = root
    BY <1>1, <2>2, <2>4 DEF Hdr
  <2>14. Last(installed') = Content(m)
    BY <2>5, <2>8
  <2> QED
    BY <1>1, <1>2, <1>3, <1>4, <1>5, <1>6, <2>1, <2>3, <2>4, <2>8, <2>9, <2>10, <2>11, <2>12, <2>13, <2>14, TupleChange, ZenonT(60)
<1> QED
  BY <1>7, <1>8

LEMMA Appended ==
    ASSUME heap \in Seq(Tuples), NEW i \in DOMAIN heap, NEW m \in Tuples, NEW c \in Tuples,
           heap' = Append([heap EXCEPT ![i] = m], c)
    PROVE  /\ heap' \in Seq(Tuples) /\ Len(heap') = Len(heap) + 1 /\ Len(heap) \in Nat
           /\ DOMAIN heap' = DOMAIN heap \cup {Len(heap) + 1}
           /\ Len(heap) + 1 \notin DOMAIN heap /\ Len(heap) + 1 # i
           /\ heap'[i] = m /\ heap'[Len(heap) + 1] = c
           /\ \A j \in DOMAIN heap \ {i} : heap'[j] = heap[j]
           /\ DOMAIN heap \subseteq DOMAIN heap' /\ DOMAIN heap' \ DOMAIN heap = {Len(heap) + 1}
<1> DEFINE s == [heap EXCEPT ![i] = m]
<1>1. s \in Seq(Tuples) /\ Len(s) = Len(heap) /\ DOMAIN s = DOMAIN heap /\ s[i] = m
      /\ \A j \in DOMAIN heap \ {i} : s[j] = heap[j]
  OBVIOUS
<1>2. Len(heap) \in Nat /\ DOMAIN heap = 1..Len(heap)
  OBVIOUS
<1> HIDE DEF s
<1>3. heap' = Append(s, c)
  BY DEF s
<1>4. /\ heap' \in Seq(Tuples) /\ Len(heap') = Len(s) + 1 /\ heap'[Len(s) + 1] = c
      /\ \A j \in 1..Len(s) : heap'[j] = s[j]
  BY <1>1, <1>3
<1>5. DOMAIN heap' = 1..(Len(heap) + 1)
  BY <1>1, <1>4
<1> QED
  BY <1>1, <1>2, <1>4, <1>5

(* New tuples: the copy of an old version, the replacement.                *)
LEMMA SpillKeeps ==
    ASSUME TInv, NEW w \in Writers, Spill(w)
    PROVE  TInv'
<1> DEFINE i == wr[w].at
           n == Len(heap) + 1
           p == IF wr[w].delete THEN "version" ELSE "write1"
           x == [wr[w] EXCEPT !.pc = p]
           m == [heap[i] EXCEPT !.next = n]
           g == [LatestHdr EXCEPT !.latest = FALSE]
           c == [heap[i] EXCEPT !.hdr = g]
<1>1. wr[w].pc = "spill" /\ UNCHANGED <<root, locks, tick, rd, installed, seen>>
      /\ wr' = [wr EXCEPT ![w] = x] /\ heap' = Append([heap EXCEPT ![i].next = n], c)
  BY DEF Spill, KeepReaders, SetW
<1>2. /\ heap \in Seq(Tuples) /\ root \in DOMAIN heap /\ i \in DOMAIN heap
      /\ heap[i] \in Tuples /\ Hdr(i) \in Header /\ wr[w] \in WriterStates
      /\ HeaderInv(Hdr(i), locks) /\ TupleInv(i) /\ WriterInv(w)
      /\ locks \in 0..MaxLocks /\ wr \in [Writers -> WriterStates]
      /\ installed \in Seq(Contents) /\ installed # <<>> /\ seen \in [Readers -> SUBSET Contents]
  BY <1>1, WriterFacts
<1>3. /\ i = root /\ Hdr(i).locked /\ Hdr(i).write_intent /\ Hdr(i).modifying /\ Hdr(i).latest
      /\ ~Hdr(i).deleting /\ Newer(wr[w], heap[i]) /\ wr[w].tid \in 1..MaxTid
      /\ wr[w].rep = None /\ i \in 0..Len(heap)
  BY <1>1, <1>2 DEF WriterInv, Held, WriterPcs, Hdr
<1>4. g \in Header /\ ~g.locked /\ ~g.write_intent /\ ~g.modifying /\ ~g.latest /\ g.version = 0
  <2>1. LatestHdr \in Header /\ LatestHdr.version = 0 /\ ~LatestHdr.locked
        /\ ~LatestHdr.write_intent /\ ~LatestHdr.modifying
    <3>1. 0 \in 0..(2^VersionBits - 1)
      BY Constants
    <3> QED
      BY <3>1 DEF LatestHdr, Header
  <2> QED
    BY <2>1 DEF Header
<1> HIDE DEF g
<1>5. c \in Tuples /\ c.hdr = g /\ c.next = heap[i].next
  BY <1>2, <1>4, HeaderChange
<1>6. n \in Nat /\ m \in Tuples /\ m.hdr = heap[i].hdr /\ m.version = heap[i].version
      /\ m.value = heap[i].value /\ m.next = n
  <2>1. n \in Nat
    BY <1>2
  <2> HIDE DEF n
  <2> QED
    BY <1>2, <2>1 DEF Tuples
<1>7. heap' = Append([heap EXCEPT ![i] = m], c)
  BY <1>1, <1>2
<1> HIDE DEF m, c
<1>8. /\ heap' \in Seq(Tuples) /\ Len(heap') = n /\ Len(heap) \in Nat
      /\ DOMAIN heap' = DOMAIN heap \cup {n} /\ n \notin DOMAIN heap
      /\ heap'[i] = m /\ heap'[n] = c
      /\ \A j \in DOMAIN heap \ {i} : heap'[j] = heap[j]
      /\ DOMAIN heap \subseteq DOMAIN heap' /\ DOMAIN heap' \ DOMAIN heap = {n}
  BY <1>2, <1>5, <1>6, <1>7, Appended
<1> HIDE DEF n
<1>9. /\ p \in {"version", "write1"} /\ (p = "version" <=> wr[w].delete) /\ wr[w].delete \in BOOLEAN
  BY <1>2 DEF WriterStates
<1> HIDE DEF p
<1>10. /\ x \in WriterStates /\ x.pc = p /\ x.at = i /\ x.tid = wr[w].tid /\ x.rep = None
       /\ x.delete = wr[w].delete /\ wr'[w] = x
  BY <1>1, <1>2, <1>3, <1>9 DEF WriterStates, WriterPcs
<1> HIDE DEF x
<1>11. WriterInv(w)'
  <2>1. i \in 0..Len(heap') /\ i \in DOMAIN heap'
    BY <1>2, <1>8
  <2> QED
    BY <1>1, <1>2, <1>3, <1>6, <1>8, <1>9, <1>10, <2>1 DEF WriterInv, Held, Hdr, Newer
<1>12. \A r \in Readers : Older(w, r)'
  <2>1. \A r \in Readers : Older(w, r)
    BY DEF TInv
  <2> QED
    BY <1>1, <1>3, <1>10, <2>1 DEF Older, Clean, InPlace
<1>13. Owned(w)' = {i} /\ Owned(w) = {i}
  BY <1>1, <1>9, <1>10 DEF Owned, Held, WriterPcs
<1>14. \A u \in Writers \ {w} : i \notin Owned(u) /\ Owned(w)' \cap Owned(u) = {}
  BY <1>13, OthersTuple
<1>15. \A r \in Readers : Clean(r) /\ rd[r].at = i => Kept(i, r) \/ heap'[i] = heap[i]
  <2>1. heap[i].version <= m.version /\ heap[i].hdr.version <= m.hdr.version
    BY <1>2, <1>6, TupleTypes
  <2> QED
    BY <1>3, <1>6, <1>8, <2>1 DEF Kept, Hdr
<1>16. /\ HeaderInv(heap'[i].hdr, locks') /\ (heap'[i].hdr.latest => heap[i].hdr.latest)
       /\ heap'[i].next \in {heap[i].next} \cup (DOMAIN heap' \ DOMAIN heap)
  BY <1>1, <1>2, <1>6, <1>8 DEF Hdr
<1>17. \A j \in DOMAIN heap' \ DOMAIN heap :
         /\ HeaderInv(heap'[j].hdr, locks') /\ heap'[j].next \in {heap[i].next, root'}
         /\ heap'[j].hdr.latest => heap'[i].next # j
  <2>1. HeaderInv(g, locks')
    BY <1>1, <1>2, <1>4, Constants DEF HeaderInv
  <2> QED
    BY <1>4, <1>5, <1>8, <2>1
<1>18. Settled'
  <2>1. Settled
    BY DEF TInv
  <2>2. heap[i].version = MAX_TID => Content(m) = Content(heap[i])
    BY <1>6 DEF Content
  <2> QED
    BY <1>1, <1>3, <1>6, <1>8, <2>1, <2>2 DEF Settled, Hdr
<1>19. /\ locks' \in 0..MaxLocks /\ locks <= locks' /\ root' \in DOMAIN heap /\ root' = root
       /\ installed' \in Seq(Contents) /\ installed' # <<>> /\ installed' = installed
       /\ seen' \in [Readers -> SUBSET Contents] /\ rd' = rd /\ tick' = tick
       /\ \A r \in Readers : seen[r] \subseteq seen'[r]
  BY <1>1, <1>2
<1>20. /\ x.at \in {wr[w].at, None, root'} /\ (root' # root => ~Hdr(root).latest)
       /\ \A u \in Writers \ {w} : i \notin Owned(u) \/ heap'[i] = heap[i]
       /\ \A u \in Writers \ {w} : Owned(w)' \cap Owned(u) = {}
  BY <1>10, <1>14, <1>19
<1> QED
  BY <1>1, <1>2, <1>8, <1>10, <1>11, <1>12, <1>14, <1>15, <1>16, <1>17, <1>18, <1>19, <1>20, WriterChange, ZenonT(60)

LEMMA ReplaceKeeps ==
    ASSUME TInv, NEW w \in Writers, Replace(w)
    PROVE  TInv'
<1> DEFINE i == wr[w].at
           n == Len(heap) + 1
           y == [wr[w] EXCEPT !.pc = "link"]
           x == [y EXCEPT !.rep = n]
           h == [Hdr(i) EXCEPT !.latest = FALSE]
           m == [heap[i] EXCEPT !.hdr = h]
           g == [LatestHdr EXCEPT !.deleting = wr[w].delete]
           v == Whole(IF wr[w].delete THEN Junk ELSE wr[w].tid)
           c == [hdr |-> g, next |-> i, version |-> wr[w].tid, value |-> v]
<1>1. wr[w].pc = "replace" /\ UNCHANGED <<root, locks, tick, rd, installed, seen>>
      /\ wr' = [wr EXCEPT ![w] = x] /\ heap' = Append([heap EXCEPT ![i].hdr.latest = FALSE], c)
  BY DEF Replace, KeepReaders, SetW
<1>2. /\ heap \in Seq(Tuples) /\ root \in DOMAIN heap /\ i \in DOMAIN heap /\ i \in Nat
      /\ heap[i] \in Tuples /\ Hdr(i) \in Header /\ wr[w] \in WriterStates
      /\ HeaderInv(Hdr(i), locks) /\ TupleInv(i) /\ WriterInv(w)
      /\ locks \in 0..MaxLocks /\ wr \in [Writers -> WriterStates]
      /\ installed \in Seq(Contents) /\ installed # <<>> /\ seen \in [Readers -> SUBSET Contents]
  BY <1>1, WriterFacts
<1>3. /\ i = root /\ Hdr(i).locked /\ Hdr(i).write_intent /\ ~Hdr(i).modifying /\ Hdr(i).latest
      /\ wr[w].tid \in 1..MaxTid /\ i \in 0..Len(heap) /\ wr[w].delete \in BOOLEAN
  <2>1. wr[w].delete \in BOOLEAN
    BY <1>2 DEF WriterStates
  <2> QED
    BY <1>1, <1>2, <2>1 DEF WriterInv, Held, WriterPcs, Hdr, Current
<1>4. /\ g \in Header /\ ~g.locked /\ ~g.write_intent /\ ~g.modifying /\ g.version = 0
      /\ g.deleting = wr[w].delete
  <2>1. LatestHdr \in Header /\ LatestHdr.version = 0 /\ ~LatestHdr.locked
        /\ ~LatestHdr.write_intent /\ ~LatestHdr.modifying
    <3>1. 0 \in 0..(2^VersionBits - 1)
      BY Constants
    <3> QED
      BY <3>1 DEF LatestHdr, Header
  <2> QED
    BY <1>3, <2>1 DEF Header
<1>5. /\ h \in Header /\ h.locked /\ h.write_intent /\ ~h.modifying /\ ~h.latest
      /\ h.version = Hdr(i).version /\ h.deleting = Hdr(i).deleting
  BY <1>2, <1>3 DEF Header
<1>6. v \in Values \X Values /\ (~wr[w].delete => v = Whole(wr[w].tid))
  BY <1>3, Constants DEF Values, Whole
<1>7. heap' = Append([heap EXCEPT ![i] = m], c)
  <2>1. [heap EXCEPT ![i].hdr.latest = FALSE] = [heap EXCEPT ![i] = m]
    BY <1>2 DEF Hdr
  <2> QED
    BY <1>1, <2>1
<1> HIDE DEF h, v
<1>8. /\ m \in Tuples /\ m.hdr = h /\ m.version = heap[i].version
      /\ m.value = heap[i].value /\ m.next = heap[i].next
  BY <1>2, <1>5, HeaderChange
<1> HIDE DEF m
<1>9. c \in Tuples /\ c.hdr = g /\ c.next = i /\ c.version = wr[w].tid /\ c.value = v
  <2>1. wr[w].tid \in 0..MAX_TID
    BY <1>3, Constants
  <2> QED
    BY <1>2, <1>4, <1>6, <2>1 DEF Tuples
<1> HIDE DEF c
<1>10. Content(c) = Made(wr[w])
  BY <1>3, <1>4, <1>6, <1>9, Constants DEF Content, Made
<1>11. /\ heap' \in Seq(Tuples) /\ Len(heap') = n /\ Len(heap) \in Nat
       /\ DOMAIN heap' = DOMAIN heap \cup {n} /\ n \notin DOMAIN heap
       /\ heap'[i] = m /\ heap'[n] = c /\ n = Len(heap) + 1
       /\ \A j \in DOMAIN heap \ {i} : heap'[j] = heap[j]
       /\ DOMAIN heap \subseteq DOMAIN heap' /\ DOMAIN heap' \ DOMAIN heap = {n}
  BY <1>2, <1>7, <1>8, <1>9, Appended
<1> HIDE DEF n
<1>12. y \in WriterStates /\ y.pc = "link" /\ y.at = i /\ y.tid = wr[w].tid /\ y.delete = wr[w].delete
  BY <1>2 DEF WriterStates, WriterPcs
<1> HIDE DEF y
<1>13. /\ x \in WriterStates /\ x.pc = "link" /\ x.at = i /\ x.tid = wr[w].tid /\ x.rep = n
       /\ x.delete = wr[w].delete
  BY <1>11, <1>12 DEF WriterStates
<1>14. wr'[w] = x /\ Made(x) = Made(wr[w]) /\ n # None
  <2>1. n # None
    BY <1>11 DEF None
  <2>2. wr'[w] = x
    BY <1>1, <1>2
  <2> QED
    BY <1>13, <2>1, <2>2 DEF Made
<1> HIDE DEF x
<1>15. WriterInv(w)'
  <2>1. /\ i \in 0..Len(heap') /\ i \in DOMAIN heap' /\ n \in DOMAIN heap' \ {root'}
        /\ Content(heap'[n]) = Made(x) /\ heap'[n].hdr = [LatestHdr EXCEPT !.deleting = x.delete]
    BY <1>1, <1>2, <1>3, <1>9, <1>10, <1>11, <1>13, <1>14
  <2>2. /\ x.at = root' /\ heap'[x.at].hdr.locked /\ heap'[x.at].hdr.write_intent
        /\ ~heap'[x.at].hdr.modifying /\ ~heap'[x.at].hdr.latest
        /\ x.at \in DOMAIN heap' /\ x.at \in 0..Len(heap') /\ x.tid \in 1..MaxTid
        /\ x.rep # None /\ x.rep = n /\ x.pc = "link" /\ wr'[w] = x
    BY <1>1, <1>3, <1>5, <1>8, <1>11, <1>13, <1>14, <2>1
  <2> QED
    BY <2>1, <2>2 DEF WriterInv, Held, Hdr
<1>16. \A r \in Readers : Older(w, r)'
  BY <1>13, <1>14 DEF Older, InPlace
<1>17. Owned(w)' = {i, n} /\ Owned(w) = {i}
  BY <1>1, <1>13, <1>14 DEF Owned, Held, WriterPcs
<1>18. \A u \in Writers \ {w} : i \notin Owned(u) /\ Owned(w)' \cap Owned(u) = {}
  <2> SUFFICES ASSUME NEW u \in Writers \ {w} PROVE i \notin Owned(u) /\ n \notin Owned(u)
    BY <1>17
  <2>1. i \notin Owned(u)
    BY <1>17, OthersTuple
  <2>2. WriterInv(u)
    BY DEF TInv
  <2>3. wr[u].pc # "idle" => wr[u].at \in DOMAIN heap
    BY <2>2 DEF WriterInv
  <2>4. wr[u].pc \in {"link", "unlock_rep"} => wr[u].rep \in DOMAIN heap
    BY <1>2, <2>2 DEF WriterInv
  <2>5. Owned(u) \subseteq DOMAIN heap
    BY <2>3, <2>4 DEF Owned, Held
  <2> QED
    BY <1>11, <2>1, <2>5
<1>19. \A r \in Readers : Clean(r) /\ rd[r].at = i => Kept(i, r) \/ heap'[i] = heap[i]
  <2>1. h.version <= Hdr(i).version /\ Hdr(i).version <= h.version
    BY <1>2, <1>5, HeaderTypes
  <2> QED
    BY <1>1, <1>2, <1>3, <1>5, <1>8, <1>11, <2>1, SameContent DEF Hdr
<1>20. /\ HeaderInv(heap'[i].hdr, locks') /\ (heap'[i].hdr.latest => heap[i].hdr.latest)
       /\ heap'[i].next \in {heap[i].next} \cup (DOMAIN heap' \ DOMAIN heap)
       /\ heap'[i].next # n
  <2>1. HeaderInv(h, locks')
    BY <1>1, <1>2, <1>3, <1>5 DEF HeaderInv
  <2>2. heap[i].next \in 0..Len(heap)
    BY <1>2 DEF TupleInv
  <2> QED
    BY <1>5, <1>8, <1>11, <2>1, <2>2
<1>21. \A j \in DOMAIN heap' \ DOMAIN heap :
         /\ HeaderInv(heap'[j].hdr, locks') /\ heap'[j].next \in {heap[i].next, root'}
         /\ heap'[j].hdr.latest => heap'[i].next # j
  <2>1. HeaderInv(g, locks')
    BY <1>1, <1>2, <1>4, Constants DEF HeaderInv
  <2> QED
    BY <1>1, <1>3, <1>9, <1>11, <1>20, <2>1
<1>22. Settled'
  <2>1. Last(installed) = Content(heap[i])
    BY <1>3 DEF TInv, Settled
  <2>2. Content(m) = Content(heap[i])
    BY <1>5, <1>8 DEF Content, Hdr
  <2> QED
    BY <1>1, <1>3, <1>5, <1>8, <1>11, <2>1, <2>2 DEF Settled, Hdr
<1>23. /\ locks' \in 0..MaxLocks /\ locks <= locks' /\ root' \in DOMAIN heap /\ root' = root
       /\ installed' \in Seq(Contents) /\ installed' # <<>> /\ installed' = installed
       /\ seen' \in [Readers -> SUBSET Contents] /\ rd' = rd /\ tick' = tick
       /\ \A r \in Readers : seen[r] \subseteq seen'[r]
  BY <1>1, <1>2
<1>24. /\ x.at \in {wr[w].at, None, root'} /\ (root' # root => ~Hdr(root).latest)
       /\ \A u \in Writers \ {w} : i \notin Owned(u) \/ heap'[i] = heap[i]
       /\ \A u \in Writers \ {w} : Owned(w)' \cap Owned(u) = {}
  BY <1>13, <1>18, <1>23
<1> QED
  BY <1>1, <1>2, <1>11, <1>13, <1>15, <1>16, <1>18, <1>19, <1>20, <1>21, <1>22, <1>23, <1>24, WriterChange, ZenonT(60)

(* The replacement enters the tree locked, and becomes current with that.  *)
LEMMA LinkReplacementKeeps ==
    ASSUME TInv, NEW w \in Writers, LinkReplacement(w)
    PROVE  TInv'
<1> DEFINE i == wr[w].rep
           x == [wr[w] EXCEPT !.pc = "unlock_rep"]
           g == [Hdr(i) EXCEPT !.locked = TRUE, !.write_intent = TRUE]
           m == [heap[i] EXCEPT !.hdr = g]
           new == Made(wr[w])
<1>1. /\ wr[w].pc = "link" /\ UNCHANGED <<tick, rd, locks>> /\ root' = i /\ wr' = [wr EXCEPT ![w] = x]
      /\ heap' = [heap EXCEPT ![i].hdr.locked = TRUE, ![i].hdr.write_intent = TRUE]
      /\ installed' = Append(installed, new)
      /\ seen' = [r \in Readers |-> IF rd[r].pc = "idle" THEN seen[r] ELSE seen[r] \cup {new}]
  BY DEF LinkReplacement, SetW, Install, Made
<1>2. /\ heap \in Seq(Tuples) /\ root \in DOMAIN heap /\ WriterInv(w) /\ wr[w].at \in DOMAIN heap
      /\ wr[w] \in WriterStates /\ wr \in [Writers -> WriterStates] /\ locks \in 0..MaxLocks
      /\ HeaderInv(Hdr(wr[w].at), locks) /\ Hdr(wr[w].at) \in Header
      /\ installed \in Seq(Contents) /\ installed # <<>> /\ seen \in [Readers -> SUBSET Contents]
  BY <1>1, WriterFacts
<1>3. /\ wr[w].at = root /\ ~Hdr(root).modifying /\ ~Hdr(root).latest /\ Hdr(root).locked
      /\ Hdr(root).write_intent /\ i # None /\ i \in DOMAIN heap /\ i # root
      /\ Content(heap[i]) = new /\ Hdr(i) = [LatestHdr EXCEPT !.deleting = wr[w].delete]
      /\ wr[w].tid \in 1..MaxTid
  BY <1>1, <1>2 DEF WriterInv, Held, WriterPcs, Hdr
<1>4. Hdr(i) \in Header /\ Hdr(i).latest /\ ~Hdr(i).modifying /\ Hdr(i).version = 0
      /\ heap[i] \in Tuples /\ Unseen(i) /\ TupleInv(i)
  <2>1. heap[i] \in Tuples /\ Hdr(i) \in Header
    BY <1>2, <1>3, TupleTypes DEF Hdr
  <2>2. Hdr(i).latest /\ ~Hdr(i).modifying /\ Hdr(i).version = 0
    BY <1>3 DEF LatestHdr
  <2>3. TupleInv(i)
    BY <1>3 DEF TInv
  <2> QED
    BY <1>3, <2>1, <2>2, <2>3 DEF TupleInv
<1>5. /\ g \in Header /\ g.locked /\ g.write_intent /\ ~g.modifying /\ g.latest
      /\ g.version = 0 /\ g.deleting = Hdr(i).deleting
  BY <1>4 DEF Header
<1>6. heap' = [heap EXCEPT ![i] = m]
  BY <1>1, <1>2, <1>3, <1>4 DEF Hdr, Tuples, Header
<1> HIDE DEF g
<1>7. /\ m \in Tuples /\ m.hdr = g /\ m.version = heap[i].version
      /\ m.value = heap[i].value /\ m.next = heap[i].next
  BY <1>2, <1>3, <1>5, HeaderChange
<1> HIDE DEF m
<1>8. Content(m) = new
  BY <1>3, <1>5, <1>7 DEF Content, Hdr
<1>9. /\ heap' \in Seq(Tuples) /\ DOMAIN heap' = DOMAIN heap /\ Len(heap') = Len(heap)
      /\ heap'[i] = m /\ \A j \in DOMAIN heap \ {i} : heap'[j] = heap[j]
  BY <1>2, <1>3, <1>6, <1>7
<1>10. /\ x \in WriterStates /\ x.pc = "unlock_rep" /\ x.at = root /\ x.tid = wr[w].tid /\ x.rep = i
       /\ wr'[w] = x
  BY <1>1, <1>2, <1>3 DEF WriterStates, WriterPcs
<1> HIDE DEF x
<1>11. new \in Contents
  <2>1. wr[w].tid \in Nat /\ wr[w].tid \in Values /\ None \in Values
    BY <1>3, Constants DEF Values, None
  <2> QED
    BY <2>1 DEF Made, Contents, Whole
<1> HIDE DEF new
<1>12. /\ installed' \in Seq(Contents) /\ installed' # <<>> /\ Last(installed') = new
       /\ seen' \in [Readers -> SUBSET Contents]
       /\ \A r \in Readers : rd[r].pc # "idle" => seen[r] \subseteq seen'[r]
  <2>1. installed' \in Seq(Contents) /\ Len(installed') = Len(installed) + 1
        /\ installed'[Len(installed) + 1] = new
    BY <1>1, <1>2, <1>11
  <2>2. installed' # <<>> /\ Last(installed') = new
    BY <1>2, <2>1 DEF Last
  <2> QED
    BY <1>1, <1>2, <1>11, <2>1, <2>2
<1>13. Settled' /\ Current(root)'
  BY <1>1, <1>5, <1>7, <1>8, <1>9, <1>12 DEF Settled, Current, Hdr
<1>14. WriterInv(w)'
  <2>1. /\ root \in 0..Len(heap') /\ heap'[root] = heap[root] /\ root \in DOMAIN heap'
        /\ root # root' /\ Hdr(root)'.write_intent /\ ~Hdr(root)'.modifying
    BY <1>1, <1>2, <1>3, <1>5, <1>7, <1>9 DEF Hdr
  <2>2. ~heap'[root].hdr.modifying /\ heap'[root].hdr.locked /\ heap'[root].hdr.write_intent
    BY <1>3, <2>1 DEF Hdr
  <2> QED
    BY <1>1, <1>3, <1>10, <1>13, <2>1, <2>2 DEF WriterInv, Held
<1>15. \A r \in Readers : Older(w, r)'
  BY <1>10 DEF Older, InPlace
<1>16. Owned(w)' = {root, i} /\ Owned(w) = {root, i} /\ root' \in Owned(w)
  BY <1>1, <1>3, <1>10 DEF Owned
<1>17. /\ \A u \in Writers \ {w} : i \notin Owned(u) \/ heap'[i] = heap[i]
       /\ \A u \in Writers \ {w} : Owned(w)' \cap Owned(u) = {}
  BY <1>16, OthersTuple
<1>18. \A r \in Readers : Clean(r) /\ rd[r].at = i => Kept(i, r) \/ heap'[i] = heap[i]
  BY <1>4 DEF Unseen, Clean
<1>19. /\ HeaderInv(heap'[i].hdr, locks') /\ (heap'[i].hdr.latest => heap[i].hdr.latest)
       /\ heap'[i].next \in {heap[i].next} \cup (DOMAIN heap' \ DOMAIN heap)
       /\ \A j \in DOMAIN heap' \ DOMAIN heap :
             /\ HeaderInv(heap'[j].hdr, locks') /\ heap'[j].next \in {heap[i].next, root'}
             /\ heap'[j].hdr.latest => heap'[i].next # j
  <2>1. 0 < locks
    BY <1>2, <1>3, HeaderTypes, Constants DEF HeaderInv
  <2>2. HeaderInv(m.hdr, locks')
    BY <1>1, <1>2, <1>5, <1>7, <2>1 DEF HeaderInv
  <2>3. heap[i].hdr.latest /\ DOMAIN heap' \ DOMAIN heap = {}
    BY <1>4, <1>9 DEF Hdr
  <2> QED
    BY <1>7, <1>9, <2>2, <2>3
<1>20. /\ locks' \in 0..MaxLocks /\ locks <= locks' /\ root' \in DOMAIN heap
       /\ (root' # root => ~Hdr(root).latest) /\ rd' = rd /\ tick' = tick
       /\ x.at \in {wr[w].at, None, root'} /\ DOMAIN heap \subseteq DOMAIN heap'
  BY <1>1, <1>2, <1>3, <1>9, <1>10
<1>21. /\ i \in DOMAIN heap /\ x \in WriterStates /\ wr' = [wr EXCEPT ![w] = x]
       /\ heap' \in Seq(Tuples) /\ \A j \in DOMAIN heap \ {i} : heap'[j] = heap[j]
       /\ \/ root' = root /\ installed' = installed
          \/ root \in Owned(w) /\ root' \in Owned(w)
       /\ installed' \in Seq(Contents) /\ installed' # <<>>
       /\ seen' \in [Readers -> SUBSET Contents]
       /\ \A r \in Readers : rd[r].pc # "idle" => seen[r] \subseteq seen'[r]
       /\ Settled'
  <2>1. root \in Owned(w) /\ root' \in Owned(w)
    BY <1>16
  <2> QED
    BY <1>1, <1>3, <1>9, <1>10, <1>12, <1>13, <2>1
<1> HIDE DEF i
<1> QED
  BY <1>14, <1>15, <1>17, <1>18, <1>19, <1>20, <1>21, WriterChange, ZenonT(60)

(* A step of a reader, which changes nothing of the tuples or the writers. *)
LEMMA ReaderChange ==
    ASSUME TInv, NEW r \in Readers, UNCHANGED <<heap, root, tick, wr, locks, installed>>,
           NEW x \in ReaderStates, rd' = [rd EXCEPT ![r] = x],
           seen' \in [Readers -> SUBSET Contents],
           \A s \in Readers \ {r} : seen'[s] = seen[s],
           \/ x.at = root
           \/ x.at \in {rd[r].at, rd[r].next} /\ rd[r].pc # "idle",
           \/ x.next = None
           \/ x.next = rd[r].next /\ rd[r].pc # "idle"
           \/ \E k \in DOMAIN heap : x.next = heap[k].next,
           ReaderInv(r)', \A w \in Writers : Older(w, r)'
    PROVE  TInv'
<1>1. heap \in Seq(Tuples) /\ heap' = heap /\ Types /\ rd \in [Readers -> ReaderStates]
  BY DEF TInv, Types
<1>2. rd'[r] = x /\ \A s \in Readers \ {r} : rd'[s] = rd[s]
  BY <1>1
<1>3. Types'
  BY <1>1 DEF Types
<1>4. Settled'
  BY DEF TInv, Settled, Current, Hdr
<1>5. \A w \in Writers : WriterInv(w)' /\ Owned(w)' = Owned(w)
  <2> SUFFICES ASSUME NEW w \in Writers PROVE WriterInv(w)' /\ Owned(w)' = Owned(w)
    OBVIOUS
  <2> QED
    BY <1>1, WriterFrame
<1>6. \A u, v \in Writers : u # v => (Owned(u) \cap Owned(v) = {})'
  BY <1>5 DEF TInv
<1>7. \A s \in Readers : ReaderInv(s)'
  <2> SUFFICES ASSUME NEW s \in Readers \ {r} PROVE ReaderInv(s)'
    OBVIOUS
  <2>1. Clean(s) => heap'[rd[s].at] = heap[rd[s].at]
    OBVIOUS
  <2> QED
    BY <1>1, <1>2, <2>1, ReaderFrame
<1>8. \A w \in Writers, s \in Readers : Older(w, s)'
  <2> SUFFICES ASSUME NEW w \in Writers, NEW s \in Readers \ {r} PROVE Older(w, s)'
    OBVIOUS
  <2>1. Older(w, s)
    BY DEF TInv
  <2> QED
    BY <1>2, <2>1 DEF Older, Clean
<1>9. \A j \in DOMAIN heap : TupleInv(j)'
  <2> SUFFICES ASSUME NEW j \in DOMAIN heap PROVE TupleInv(j)'
    OBVIOUS
  <2>1. TupleInv(j)
    BY DEF TInv
  <2>2. ASSUME Unseen(j), j # root PROVE Unseen(j)'
    <3>1. x.at # j /\ x.next # j
      BY <1>1, <2>2 DEF Unseen, None
    <3>2. \A s \in Readers : rd'[s].pc # "idle" => rd'[s].at # j /\ rd'[s].next # j
      BY <1>2, <2>2, <3>1 DEF Unseen
    <3> QED
      BY <2>2, <3>2 DEF Unseen
  <2> QED
    BY <2>1, <2>2 DEF TupleInv, Hdr
<1> QED
  BY <1>1, <1>3, <1>4, <1>5, <1>6, <1>7, <1>8, <1>9 DEF TInv

LEMMA ReaderFacts ==
    ASSUME TInv, NEW r \in Readers, rd[r].pc # "idle"
    PROVE  LET n == heap[rd[r].at] IN
           /\ heap \in Seq(Tuples) /\ root \in DOMAIN heap /\ rd[r].at \in DOMAIN heap
           /\ n \in Tuples /\ n.hdr \in Header /\ n.version \in Nat /\ n.version <= MAX_TID
           /\ n.value \in Values \X Values /\ n.hdr.version \in Nat
           /\ n.version \in 0..MAX_TID
           /\ rd[r] \in ReaderStates /\ rd \in [Readers -> ReaderStates]
           /\ rd[r].copy \in Values \X Values /\ rd[r].v \in Header
           /\ seen \in [Readers -> SUBSET Contents] /\ rd[r].next \in 0..Len(heap)
           /\ (rd[r].t = MAX_TID => CleanInv(r))
           /\ (rd[r].pc \in {"is_latest", "recheck"} => rd[r].t = MAX_TID)
<1>1. heap \in Seq(Tuples) /\ root \in DOMAIN heap /\ ReaderInv(r) /\ rd \in [Readers -> ReaderStates]
      /\ seen \in [Readers -> SUBSET Contents]
  BY DEF TInv, Types
<1>2. rd[r].at \in DOMAIN heap /\ rd[r].next \in 0..Len(heap) /\ (rd[r].t = MAX_TID => CleanInv(r))
      /\ (rd[r].pc \in {"is_latest", "recheck"} => rd[r].t = MAX_TID)
  BY <1>1 DEF ReaderInv, Clean
<1>3. rd[r] \in ReaderStates /\ heap[rd[r].at] \in Tuples
  BY <1>1, <1>2
<1>4. rd[r].copy \in Values \X Values /\ rd[r].v \in Header
  BY <1>3 DEF ReaderStates
<1>5. heap[rd[r].at].version <= MAX_TID
  BY <1>3, TupleTypes, Constants
<1> QED
  BY <1>1, <1>2, <1>3, <1>4, <1>5, TupleTypes

(* The step of a reader that stays at its tuple.                           *)
LEMMA ReaderStays ==
    ASSUME TInv, NEW r \in Readers, rd[r].pc # "idle",
           UNCHANGED <<heap, root, tick, wr, locks, installed, seen>>,
           NEW x \in ReaderStates, rd' = [rd EXCEPT ![r] = x],
           x.at = rd[r].at, x.t = rd[r].t,
           x.next = rd[r].next \/ (x.next = heap[rd[r].at].next /\ x.next \in 0..Len(heap)),
           x.pc \in {"is_latest", "recheck"} => rd[r].t = MAX_TID,
           rd[r].t = MAX_TID => CleanInv(r)',
           rd[r].t = MAX_TID /\ x.pc \in Recorded =>
              rd[r].pc \in Recorded /\ x.start_t = rd[r].start_t
    PROVE  TInv'
<1>1. /\ rd[r].at \in DOMAIN heap /\ rd \in [Readers -> ReaderStates]
      /\ seen \in [Readers -> SUBSET Contents] /\ x.next \in 0..Len(heap)
  BY ReaderFacts
<1>2. rd'[r] = x
  BY <1>1
<1>3. ReaderInv(r)'
  BY <1>1, <1>2 DEF ReaderInv, Clean
<1>4. \A w \in Writers : Older(w, r)'
  <2> SUFFICES ASSUME NEW w \in Writers PROVE Older(w, r)'
    OBVIOUS
  <2>1. Older(w, r)
    BY DEF TInv
  <2> QED
    BY <1>2, <2>1 DEF Older, Clean
<1> QED
  BY <1>1, <1>3, <1>4, ReaderChange, ZenonT(60)

(* A search finds the tuple in the tree; unless that is being written, it  *)
(* holds the version installed last.                                       *)
LEMMA SearchKeeps ==
    ASSUME TInv, NEW r \in Readers, Search(r)
    PROVE  TInv'
<1>1. PICK t \in {MAX_TID} \cup (IF SnapshotTid > 0 THEN {SnapshotTid} ELSE {}) :
        SetR(r, [IdleReader EXCEPT !.pc = "record_at", !.at = root, !.t = t])
  BY DEF Search
<1>2. /\ UNCHANGED <<heap, root, tick, wr, locks, installed>>
      /\ seen' = [seen EXCEPT ![r] = {Last(installed)}]
  BY DEF Search, KeepWriters
<1>3. /\ heap \in Seq(Tuples) /\ root \in DOMAIN heap /\ rd \in [Readers -> ReaderStates]
      /\ seen \in [Readers -> SUBSET Contents] /\ installed \in Seq(Contents) /\ installed # <<>>
      /\ Settled /\ tick \in Int
  BY Constants DEF TInv, Types, to_read_only_tick
<1>4. t \in Int
  BY <1>1, <1>3, Constants DEF SnapshotTid
<1> DEFINE y == [IdleReader EXCEPT !.pc = "record_at", !.at = root]
           x == [y EXCEPT !.t = t]
<1>5. /\ IdleReader \in ReaderStates /\ IdleReader.start_t = MIN_TID
      /\ IdleReader.copy = Whole(None) /\ IdleReader.next = None
  <2>1. LatestHdr \in Header
    <3>1. 0 \in 0..(2^VersionBits - 1)
      BY Constants
    <3> QED
      BY <3>1 DEF LatestHdr, Header
  <2>2. Whole(None) \in Values \X Values /\ MIN_TID \in 0..MAX_TID
    BY Constants DEF Whole, Values, None, MIN_TID
  <2> QED
    BY <2>1, <2>2 DEF IdleReader, ReaderStates, ReaderPcs, MIN_TID, None
<1>6. y \in ReaderStates /\ y.pc = "record_at" /\ y.at = root /\ y.start_t = MIN_TID
      /\ y.copy = Whole(None) /\ y.next = None
  <2> DEFINE z == [IdleReader EXCEPT !.pc = "record_at"]
  <2>1. z \in ReaderStates /\ z.pc = "record_at" /\ z.start_t = MIN_TID
        /\ z.copy = Whole(None) /\ z.next = None
    BY <1>5 DEF ReaderStates, ReaderPcs
  <2>2. y = [z EXCEPT !.at = root] /\ root \in Nat
    BY <1>3
  <2> HIDE DEF y, z
  <2> QED
    BY <2>1, <2>2 DEF ReaderStates
<1>7. rd' = [rd EXCEPT ![r] = x]
  BY <1>1 DEF SetR
<1> HIDE DEF y
<1>8. x \in ReaderStates /\ x.pc = "record_at" /\ x.at = root /\ x.start_t = MIN_TID
      /\ x.copy = Whole(None) /\ x.next = None
  BY <1>4, <1>6 DEF ReaderStates
<1> HIDE DEF x
<1>9. rd'[r] = x /\ seen'[r] = {Last(installed)}
  BY <1>2, <1>3, <1>7
<1>10. CleanInv(r)'
  <2>1. ~heap[root].hdr.modifying => Content(heap[root]) = Last(installed)
    BY <1>3 DEF Settled, Hdr
  <2>2. heap[root].version = MAX_TID => [tid |-> MIN_TID, value |-> Whole(None)] = Last(installed)
    BY <1>3 DEF Settled, Content
  <2> QED
    BY <1>2, <1>8, <1>9, <2>1, <2>2 DEF CleanInv, Returned, Recorded, Copying
<1>11. ReaderInv(r)'
  <2>1. None \in 0..Len(heap)
    BY <1>3 DEF None
  <2> QED
    BY <1>2, <1>3, <1>8, <1>9, <1>10, <2>1 DEF ReaderInv
<1>12. \A w \in Writers : Older(w, r)'
  BY <1>8, <1>9 DEF Older, Recorded
<1>13. seen' \in [Readers -> SUBSET Contents] /\ \A s \in Readers \ {r} : seen'[s] = seen[s]
  <2>1. Last(installed) \in Contents
    <3>1. Len(installed) \in 1..Len(installed)
      BY <1>3
    <3> QED
      BY <1>3, <3>1 DEF Last
  <2> QED
    BY <1>2, <1>3, <2>1
<1> QED
  BY <1>2, <1>7, <1>8, <1>11, <1>12, <1>13, ReaderChange, ZenonT(60)

LEMMA RecordAtKeeps ==
    ASSUME TInv, NEW r \in Readers, RecordAt(r)
    PROVE  TInv'
<1> DEFINE n == heap[rd[r].at]
           p == IF n.version = MAX_TID THEN "empty" ELSE "loop"
           x == [rd[r] EXCEPT !.pc = p]
<1>1. rd[r].pc = "record_at" /\ UNCHANGED <<heap, root, tick, wr, locks, installed, seen>>
      /\ rd' = [rd EXCEPT ![r] = x]
  BY DEF RecordAt, KeepWriters, SetR
<1>2. /\ rd[r] \in ReaderStates /\ rd \in [Readers -> ReaderStates]
      /\ rd[r].next \in 0..Len(heap) /\ (rd[r].t = MAX_TID => CleanInv(r))
  BY <1>1, ReaderFacts
<1>3. p \in {"empty", "loop"} /\ (p = "empty" <=> n.version = MAX_TID)
  OBVIOUS
<1> HIDE DEF p
<1>4. /\ x \in ReaderStates /\ x.pc = p /\ x.at = rd[r].at /\ x.t = rd[r].t /\ x.next = rd[r].next
      /\ x.start_t = rd[r].start_t /\ x.copy = rd[r].copy /\ rd'[r] = x
  BY <1>1, <1>2, <1>3 DEF ReaderStates, ReaderPcs
<1> HIDE DEF x
<1>5. ASSUME rd[r].t = MAX_TID PROVE CleanInv(r)'
  <2>1. /\ ~n.hdr.modifying => Content(n) \in seen[r]
        /\ n.version = MAX_TID => [tid |-> MIN_TID, value |-> Whole(None)] \in seen[r]
        /\ rd[r].start_t = MIN_TID /\ rd[r].copy = Whole(None)
    BY <1>1, <1>2, <1>5 DEF CleanInv
  <2> QED
    BY <1>1, <1>3, <1>4, <2>1 DEF CleanInv, Returned, Result, Recorded, Copying
<1> QED
  BY <1>1, <1>2, <1>3, <1>4, <1>5, ReaderStays DEF Recorded

LEMMA StableVersionKeeps ==
    ASSUME TInv, NEW r \in Readers, reader_stable_version(r)
    PROVE  TInv'
<1> DEFINE n == heap[rd[r].at]
           y == [rd[r] EXCEPT !.pc = "behind"]
           x == [y EXCEPT !.v = n.hdr]
<1>1. rd[r].pc = "loop" /\ UNCHANGED <<heap, root, tick, wr, locks, installed, seen>>
      /\ rd' = [rd EXCEPT ![r] = x] /\ ~n.hdr.modifying
  BY DEF reader_stable_version, KeepWriters, SetR, Hdr, IsReaderStable
<1>2. /\ rd[r] \in ReaderStates /\ rd \in [Readers -> ReaderStates] /\ n.hdr \in Header
      /\ rd[r].next \in 0..Len(heap) /\ (rd[r].t = MAX_TID => CleanInv(r)) /\ n.hdr.version \in Nat
  BY <1>1, ReaderFacts
<1>3. y \in ReaderStates /\ y.pc = "behind" /\ y.at = rd[r].at /\ y.t = rd[r].t /\ y.next = rd[r].next
  BY <1>2 DEF ReaderStates, ReaderPcs
<1> HIDE DEF y
<1>4. /\ x \in ReaderStates /\ x.pc = "behind" /\ x.at = rd[r].at /\ x.t = rd[r].t
      /\ x.next = rd[r].next /\ x.v = n.hdr /\ rd'[r] = x
  BY <1>1, <1>2, <1>3 DEF ReaderStates
<1> HIDE DEF x
<1>5. ASSUME rd[r].t = MAX_TID PROVE CleanInv(r)'
  <2>1. Content(n) \in seen[r] /\ n.version # MAX_TID
    BY <1>1, <1>2, <1>5 DEF CleanInv
  <2> QED
    BY <1>1, <1>2, <1>4, <2>1 DEF CleanInv, Returned, Recorded, Copying
<1> QED
  BY <1>1, <1>2, <1>4, <1>5, ReaderStays DEF Recorded

LEMMA NotBehindKeeps ==
    ASSUME TInv, NEW r \in Readers, is_not_behind(r)
    PROVE  TInv'
<1> DEFINE n == heap[rd[r].at]
<1>1. rd[r].pc = "behind" /\ UNCHANGED <<heap, root, tick, wr, locks, installed, seen>>
  BY DEF is_not_behind, KeepWriters
<1>2. /\ rd[r] \in ReaderStates /\ rd \in [Readers -> ReaderStates] /\ n.version \in 0..MAX_TID
      /\ n.version <= MAX_TID
      /\ rd[r].next \in 0..Len(heap) /\ (rd[r].t = MAX_TID => CleanInv(r)) /\ rd[r].v \in Header
  BY <1>1, ReaderFacts
<1>3. CASE n.version <= rd[r].t
  <2> DEFINE p == IF rd[r].v.deleting THEN "check" ELSE "copy1"
             z == [rd[r] EXCEPT !.start_t = n.version]
             y == [z EXCEPT !.copy = Whole(None)]
             x == [y EXCEPT !.pc = p]
  <2>1. rd' = [rd EXCEPT ![r] = x]
    BY <1>3 DEF is_not_behind, SetR
  <2>2. p \in {"check", "copy1"} /\ (p = "check" <=> rd[r].v.deleting)
    OBVIOUS
  <2>3. /\ z \in ReaderStates /\ z.at = rd[r].at /\ z.t = rd[r].t /\ z.next = rd[r].next
        /\ z.v = rd[r].v /\ z.start_t = n.version
    BY <1>2 DEF ReaderStates
  <2> HIDE DEF p, z
  <2>4. Whole(None) \in Values \X Values
    BY Constants DEF Whole, Values, None
  <2>5. /\ y \in ReaderStates /\ y.at = rd[r].at /\ y.t = rd[r].t /\ y.next = rd[r].next
        /\ y.v = rd[r].v /\ y.start_t = n.version /\ y.copy = Whole(None)
    BY <2>3, <2>4 DEF ReaderStates
  <2> HIDE DEF y
  <2>6. /\ x \in ReaderStates /\ x.at = rd[r].at /\ x.t = rd[r].t /\ x.next = rd[r].next
        /\ x.v = rd[r].v /\ x.start_t = n.version /\ x.copy = Whole(None) /\ x.pc = p
        /\ rd'[r] = x
    BY <1>2, <2>1, <2>2, <2>5 DEF ReaderStates, ReaderPcs
  <2> HIDE DEF x
  <2>7. ASSUME rd[r].t = MAX_TID PROVE CleanInv(r)'
    <3>1. /\ ~n.hdr.modifying => Content(n) \in seen[r]
          /\ n.version # MAX_TID /\ rd[r].v.version <= n.hdr.version /\ ~rd[r].v.modifying
      BY <1>1, <1>2, <2>7 DEF CleanInv, Copying
    <3> QED
      BY <1>1, <2>2, <2>6, <3>1 DEF CleanInv, Returned, Recorded, Copying
  <2> QED
    BY <1>1, <1>2, <2>1, <2>2, <2>6, <2>7, ReaderStays DEF Recorded
<1>4. CASE ~(n.version <= rd[r].t)
  <2> DEFINE x == [rd[r] EXCEPT !.pc = "next"]
  <2>1. rd' = [rd EXCEPT ![r] = x] /\ rd[r].t # MAX_TID
    BY <1>2, <1>4 DEF is_not_behind, SetR
  <2>2. x \in ReaderStates /\ x.at = rd[r].at /\ x.t = rd[r].t /\ x.next = rd[r].next /\ x.pc = "next"
    BY <1>2 DEF ReaderStates, ReaderPcs
  <2> HIDE DEF x
  <2> QED
    BY <1>1, <1>2, <2>1, <2>2, ReaderStays
<1> QED
  BY <1>3, <1>4

LEMMA CopyWordKeeps ==
    ASSUME TInv, NEW r \in Readers, CopyWord(r)
    PROVE  TInv'
<1> DEFINE n == heap[rd[r].at]
           k == IF rd[r].pc = "copy1" THEN 1 ELSE 2
           p == IF k = 1 THEN "copy2" ELSE "check"
           c == [rd[r].copy EXCEPT ![k] = n.value[k]]
           y == [rd[r] EXCEPT !.copy = c]
           x == [y EXCEPT !.pc = p]
<1>1. rd[r].pc \in {"copy1", "copy2"} /\ UNCHANGED <<heap, root, tick, wr, locks, installed, seen>>
      /\ rd' = [rd EXCEPT ![r] = x]
  BY DEF CopyWord, KeepWriters, SetR
<1>2. /\ rd[r] \in ReaderStates /\ rd \in [Readers -> ReaderStates]
      /\ n.value \in Values \X Values /\ rd[r].copy \in Values \X Values
      /\ rd[r].next \in 0..Len(heap) /\ (rd[r].t = MAX_TID => CleanInv(r))
  BY <1>1, ReaderFacts
<1>3. k \in {1, 2} /\ p \in {"copy2", "check"} /\ (p = "copy2" <=> k = 1) /\ (k = 1 <=> rd[r].pc = "copy1")
  BY <1>1
<1> HIDE DEF k, p
<1>4. c \in Values \X Values /\ c[k] = n.value[k] /\ (k = 2 => c[1] = rd[r].copy[1])
  BY <1>2, <1>3
<1>5. k = 2 /\ rd[r].copy[1] = n.value[1] => c = n.value
  BY <1>2, <1>4
<1> HIDE DEF c
<1>6. /\ y \in ReaderStates /\ y.at = rd[r].at /\ y.t = rd[r].t /\ y.next = rd[r].next
      /\ y.v = rd[r].v /\ y.start_t = rd[r].start_t /\ y.copy = c
  BY <1>2, <1>4 DEF ReaderStates
<1> HIDE DEF y
<1>7. /\ x \in ReaderStates /\ x.at = rd[r].at /\ x.t = rd[r].t /\ x.next = rd[r].next
      /\ x.v = rd[r].v /\ x.start_t = rd[r].start_t /\ x.copy = c /\ x.pc = p /\ rd'[r] = x
  BY <1>1, <1>2, <1>3, <1>6 DEF ReaderStates, ReaderPcs
<1> HIDE DEF x
<1>8. ASSUME rd[r].t = MAX_TID PROVE CleanInv(r)'
  <2>1. /\ ~n.hdr.modifying => Content(n) \in seen[r]
        /\ n.version # MAX_TID /\ rd[r].v.version <= n.hdr.version /\ ~rd[r].v.modifying
        /\ ~rd[r].v.deleting
        /\ n.hdr.version = rd[r].v.version /\ ~n.hdr.modifying => rd[r].start_t = n.version
        /\ k = 2 /\ n.hdr.version = rd[r].v.version /\ ~n.hdr.modifying => rd[r].copy[1] = n.value[1]
    BY <1>1, <1>2, <1>3, <1>8 DEF CleanInv, Copying
  <2> QED
    BY <1>1, <1>3, <1>4, <1>5, <1>7, <2>1 DEF CleanInv, Returned, Recorded, Copying
<1> QED
  BY <1>1, <1>2, <1>3, <1>7, <1>8, ReaderStays DEF Recorded

LEMMA GetNextKeeps ==
    ASSUME TInv, NEW r \in Readers, get_next(r)
    PROVE  TInv'
<1> DEFINE n == heap[rd[r].at]
           y == [rd[r] EXCEPT !.next = n.next]
           x == [y EXCEPT !.pc = "check_next"]
<1>1. rd[r].pc = "next" /\ UNCHANGED <<heap, root, tick, wr, locks, installed, seen>>
      /\ rd' = [rd EXCEPT ![r] = x]
  BY DEF get_next, KeepWriters, SetR
<1>2. /\ rd[r] \in ReaderStates /\ rd \in [Readers -> ReaderStates] /\ rd[r].at \in DOMAIN heap
      /\ heap \in Seq(Tuples) /\ (rd[r].t = MAX_TID => CleanInv(r))
  BY <1>1, ReaderFacts
<1>3. rd[r].t # MAX_TID
  BY <1>1, <1>2 DEF CleanInv
<1>4. n.next \in 0..Len(heap) /\ n.next \in Nat
  BY <1>2 DEF TInv, TupleInv
<1>5. y \in ReaderStates /\ y.at = rd[r].at /\ y.t = rd[r].t /\ y.next = n.next
  BY <1>2, <1>4 DEF ReaderStates
<1> HIDE DEF y
<1>6. x \in ReaderStates /\ x.at = rd[r].at /\ x.t = rd[r].t /\ x.next = n.next /\ x.pc = "check_next"
  BY <1>5 DEF ReaderStates, ReaderPcs
<1> HIDE DEF x
<1> QED
  BY <1>1, <1>2, <1>3, <1>4, <1>6, ReaderStays

(* The check after a copy is where a clean read becomes one whole version. *)
LEMMA CheckVersionKeeps ==
    ASSUME TInv, NEW r \in Readers, reader_check_version(r)
    PROVE  TInv'
<1> DEFINE n == heap[rd[r].at]
           same == SameVersion(n.hdr, rd[r].v)
<1>1. rd[r].pc \in {"check", "check_next"} /\ UNCHANGED <<heap, root, tick, wr, locks, installed, seen>>
  BY DEF reader_check_version, KeepWriters
<1>2. /\ rd[r] \in ReaderStates /\ rd \in [Readers -> ReaderStates] /\ n.version \in Nat
      /\ heap \in Seq(Tuples) /\ rd[r].at \in DOMAIN heap /\ seen \in [Readers -> SUBSET Contents]
      /\ rd[r].next \in 0..Len(heap) /\ (rd[r].t = MAX_TID => CleanInv(r)) /\ rd[r].v \in Header
  BY <1>1, ReaderFacts
<1>3. CASE ~same
  <2> DEFINE x == [rd[r] EXCEPT !.pc = "loop"]
  <2>1. rd' = [rd EXCEPT ![r] = x]
    BY <1>3 DEF reader_check_version, SetR, Hdr
  <2>2. x \in ReaderStates /\ x.at = rd[r].at /\ x.t = rd[r].t /\ x.next = rd[r].next /\ x.pc = "loop"
        /\ rd'[r] = x
    BY <1>2, <2>1 DEF ReaderStates, ReaderPcs
  <2> HIDE DEF x
  <2>3. ASSUME rd[r].t = MAX_TID PROVE CleanInv(r)'
    <3>1. (~n.hdr.modifying => Content(n) \in seen[r]) /\ n.version # MAX_TID
      BY <1>1, <1>2, <2>3 DEF CleanInv, Copying
    <3> QED
      BY <1>1, <2>2, <3>1 DEF CleanInv, Returned, Recorded, Copying
  <2> QED
    BY <1>1, <1>2, <2>1, <2>2, <2>3, ReaderStays DEF Recorded
<1>4. CASE same /\ rd[r].pc = "check"
  <2> DEFINE p == IF rd[r].copy = Whole(None) THEN "empty" ELSE "record"
             x == [rd[r] EXCEPT !.pc = p]
  <2>1. rd' = [rd EXCEPT ![r] = x] /\ p \in {"empty", "record"}
    BY <1>4 DEF reader_check_version, SetR, Hdr
  <2> HIDE DEF p
  <2>2. x \in ReaderStates /\ x.at = rd[r].at /\ x.t = rd[r].t /\ x.next = rd[r].next /\ x.pc = p
        /\ x.start_t = rd[r].start_t /\ x.copy = rd[r].copy /\ rd'[r] = x
    BY <1>2, <2>1 DEF ReaderStates, ReaderPcs
  <2> HIDE DEF x
  <2>3. ASSUME rd[r].t = MAX_TID
        PROVE  /\ Content(n) \in seen[r] /\ n.version # MAX_TID /\ ~n.hdr.modifying
               /\ Result(r) = Content(n) /\ rd[r].start_t = n.version
    <3>1. /\ ~n.hdr.modifying => Content(n) \in seen[r]
          /\ n.version # MAX_TID /\ ~rd[r].v.modifying
          /\ n.hdr.version = rd[r].v.version /\ ~n.hdr.modifying =>
                rd[r].start_t = n.version /\
                rd[r].copy = IF rd[r].v.deleting THEN Whole(None) ELSE n.value
      BY <1>2, <1>4, <2>3 DEF CleanInv, Copying
    <3>2. n.hdr.version = rd[r].v.version /\ ~n.hdr.modifying /\ n.hdr.deleting = rd[r].v.deleting
      BY <1>4, <3>1 DEF SameVersion
    <3> QED
      BY <3>1, <3>2 DEF Result, Content
  <2>4. ASSUME rd[r].t = MAX_TID PROVE CleanInv(r)'
    <3>1. Result(r)' = Result(r)
      BY <2>2 DEF Result
    <3> QED
      BY <1>1, <1>2, <2>1, <2>2, <2>3, <2>4, <3>1 DEF CleanInv, Returned, Recorded, Copying
  <2>5. ReaderInv(r)'
    BY <1>1, <1>2, <2>1, <2>2, <2>4 DEF ReaderInv, Clean
  <2>6. \A w \in Writers : Older(w, r)'
    <3> SUFFICES ASSUME NEW w \in Writers, wr[w].pc \in InPlace, wr[w].rep = None, rd[r].t = MAX_TID,
                        rd[r].at = wr[w].at
                 PROVE  rd[r].start_t < wr[w].tid
      BY <1>1, <2>2 DEF Older, Clean
    <3>1. WriterInv(w) /\ wr[w].tid \in 1..MaxTid
      BY DEF TInv, WriterInv, InPlace, Held, WriterPcs
    <3>2. wr[w].pc = "mark"
      BY <2>3, <3>1 DEF WriterInv, InPlace
    <3>3. Newer(wr[w], n)
      BY <3>1, <3>2 DEF WriterInv
    <3> QED
      BY <1>2, <2>3, <3>1, <3>3 DEF Newer
  <2> QED
    BY <1>1, <1>2, <2>1, <2>2, <2>5, <2>6, ReaderChange, ZenonT(60)
<1>5. CASE same /\ rd[r].pc = "check_next" /\ rd[r].next = None
  <2> DEFINE z == [rd[r] EXCEPT !.pc = "empty"]
             y == [z EXCEPT !.start_t = MIN_TID]
             x == [y EXCEPT !.copy = Whole(None)]
  <2>1. rd' = [rd EXCEPT ![r] = x]
    BY <1>5 DEF reader_check_version, SetR, Hdr
  <2>2. rd[r].t # MAX_TID
    BY <1>2, <1>5 DEF CleanInv
  <2>3. Whole(None) \in Values \X Values /\ MIN_TID \in 0..MAX_TID
    BY Constants DEF Whole, Values, None, MIN_TID
  <2>4. z \in ReaderStates /\ z.at = rd[r].at /\ z.t = rd[r].t /\ z.next = rd[r].next /\ z.pc = "empty"
    BY <1>2 DEF ReaderStates, ReaderPcs
  <2> HIDE DEF z
  <2>5. y \in ReaderStates /\ y.at = rd[r].at /\ y.t = rd[r].t /\ y.next = rd[r].next /\ y.pc = "empty"
    BY <2>3, <2>4 DEF ReaderStates
  <2> HIDE DEF y
  <2>6. x \in ReaderStates /\ x.at = rd[r].at /\ x.t = rd[r].t /\ x.next = rd[r].next /\ x.pc = "empty"
    BY <2>3, <2>5 DEF ReaderStates
  <2> HIDE DEF x
  <2> QED
    BY <1>1, <1>2, <2>1, <2>2, <2>6, ReaderStays
<1>6. CASE same /\ rd[r].pc = "check_next" /\ rd[r].next # None
  <2> DEFINE y == [rd[r] EXCEPT !.pc = "loop"]
             x == [y EXCEPT !.at = rd[r].next]
  <2>1. rd' = [rd EXCEPT ![r] = x]
    BY <1>6 DEF reader_check_version, SetR, Hdr
  <2>2. rd[r].t # MAX_TID
    BY <1>2, <1>6 DEF CleanInv
  <2>3. rd[r].next \in DOMAIN heap /\ rd[r].next \in Nat
    BY <1>2, <1>6 DEF None
  <2>4. y \in ReaderStates /\ y.t = rd[r].t /\ y.next = rd[r].next /\ y.pc = "loop"
    BY <1>2 DEF ReaderStates, ReaderPcs
  <2> HIDE DEF y
  <2>5. x \in ReaderStates /\ x.at = rd[r].next /\ x.t = rd[r].t /\ x.next = rd[r].next /\ x.pc = "loop"
    BY <2>3, <2>4 DEF ReaderStates
  <2> HIDE DEF x
  <2>6. ReaderInv(r)' /\ \A w \in Writers : Older(w, r)'
    BY <1>1, <1>2, <2>1, <2>2, <2>3, <2>5 DEF ReaderInv, Clean, Older
  <2> QED
    BY <1>1, <1>2, <2>1, <2>5, <2>6, ReaderChange, ZenonT(60)
<1> QED
  BY <1>1, <1>3, <1>4, <1>5, <1>6

LEMMA StableWriterKeeps ==
    ASSUME TInv, NEW r \in Readers, try_writer_stable_version(r)
    PROVE  TInv'
<1> DEFINE n == heap[rd[r].at]
<1>1. rd[r].pc = "record" /\ rd[r].t = MAX_TID
      /\ UNCHANGED <<heap, root, tick, wr, locks, installed, seen>>
  BY DEF try_writer_stable_version, KeepWriters
<1>2. /\ rd[r] \in ReaderStates /\ rd \in [Readers -> ReaderStates] /\ n.hdr \in Header
      /\ n.hdr.version \in Nat /\ rd[r].next \in 0..Len(heap) /\ CleanInv(r)
  BY <1>1, ReaderFacts
<1>3. /\ ~n.hdr.modifying => Content(n) \in seen[r]
      /\ n.version # MAX_TID /\ Result(r) \in seen[r] /\ rd[r].start_t <= n.version
      /\ rd[r].start_t = n.version /\ ~n.hdr.modifying => Result(r) = Content(n)
  BY <1>1, <1>2 DEF CleanInv, Recorded, Returned
<1>4. CASE n.hdr.write_intent
  <2> DEFINE x == [rd[r] EXCEPT !.pc = "invalid"]
  <2>1. rd' = [rd EXCEPT ![r] = x]
    BY <1>4 DEF try_writer_stable_version, SetR, Hdr
  <2>2. x \in ReaderStates /\ x.at = rd[r].at /\ x.t = rd[r].t /\ x.next = rd[r].next /\ x.pc = "invalid"
        /\ x.start_t = rd[r].start_t /\ x.copy = rd[r].copy /\ rd'[r] = x
    BY <1>2, <2>1 DEF ReaderStates, ReaderPcs
  <2> HIDE DEF x
  <2>3. CleanInv(r)'
    <3>1. Result(r)' = Result(r)
      BY <2>2 DEF Result
    <3> QED
      BY <1>1, <1>3, <2>2, <3>1 DEF CleanInv, Returned, Recorded, Copying
  <2> QED
    BY <1>1, <1>2, <2>1, <2>2, <2>3, ReaderStays DEF Recorded
<1>5. CASE ~n.hdr.write_intent
  <2> DEFINE y == [rd[r] EXCEPT !.pc = "is_latest"]
             x == [y EXCEPT !.v = n.hdr]
  <2>1. rd' = [rd EXCEPT ![r] = x]
    BY <1>5 DEF try_writer_stable_version, SetR, Hdr
  <2>2. y \in ReaderStates /\ y.at = rd[r].at /\ y.t = rd[r].t /\ y.next = rd[r].next /\ y.pc = "is_latest"
        /\ y.start_t = rd[r].start_t /\ y.copy = rd[r].copy
    BY <1>2 DEF ReaderStates, ReaderPcs
  <2> HIDE DEF y
  <2>3. x \in ReaderStates /\ x.at = rd[r].at /\ x.t = rd[r].t /\ x.next = rd[r].next /\ x.pc = "is_latest"
        /\ x.start_t = rd[r].start_t /\ x.copy = rd[r].copy /\ x.v = n.hdr /\ rd'[r] = x
    BY <1>2, <2>1, <2>2 DEF ReaderStates
  <2> HIDE DEF x
  <2>4. CleanInv(r)'
    <3>1. Result(r)' = Result(r)
      BY <2>3 DEF Result
    <3> QED
      BY <1>1, <1>2, <1>3, <1>5, <2>3, <3>1 DEF CleanInv, Returned, Recorded, Copying
  <2> QED
    BY <1>1, <1>2, <2>1, <2>3, <2>4, ReaderStays DEF Recorded
<1> QED
  BY <1>4, <1>5

LEMMA IsLatestKeeps ==
    ASSUME TInv, NEW r \in Readers, is_latest_version(r) \/ writer_check_version(r)
    PROVE  TInv'
<1> DEFINE n == heap[rd[r].at]
<1>1. PICK p \in {"recheck", "valid", "invalid"} :
         /\ rd' = [rd EXCEPT ![r] = [rd[r] EXCEPT !.pc = p]]
         /\ p = "recheck" => rd[r].v.latest /\ n.version <= rd[r].start_t
  <2>1. CASE is_latest_version(r)
    BY <2>1 DEF is_latest_version, SetR
  <2>2. CASE writer_check_version(r)
    BY <2>2 DEF writer_check_version, SetR
  <2> QED
    BY <2>1, <2>2
<1>2. rd[r].pc \in {"is_latest", "recheck"} /\ UNCHANGED <<heap, root, tick, wr, locks, installed, seen>>
  BY DEF is_latest_version, writer_check_version, KeepWriters
<1>3. /\ rd[r] \in ReaderStates /\ rd \in [Readers -> ReaderStates]
      /\ rd[r].next \in 0..Len(heap) /\ (rd[r].t = MAX_TID => CleanInv(r)) /\ rd[r].t = MAX_TID
  BY <1>2, ReaderFacts
<1> DEFINE x == [rd[r] EXCEPT !.pc = p]
<1>4. /\ x \in ReaderStates /\ x.at = rd[r].at /\ x.t = rd[r].t /\ x.next = rd[r].next /\ x.pc = p
      /\ x.start_t = rd[r].start_t /\ x.copy = rd[r].copy /\ x.v = rd[r].v /\ rd'[r] = x
      /\ rd' = [rd EXCEPT ![r] = x]
  BY <1>1, <1>3 DEF ReaderStates, ReaderPcs
<1> HIDE DEF x
<1>5. ASSUME rd[r].t = MAX_TID PROVE CleanInv(r)'
  <2>1. Result(r)' = Result(r)
    BY <1>4 DEF Result
  <2>2. /\ ~n.hdr.modifying => Content(n) \in seen[r]
        /\ n.version # MAX_TID /\ Result(r) \in seen[r] /\ rd[r].start_t <= n.version
        /\ rd[r].start_t = n.version /\ ~n.hdr.modifying => Result(r) = Content(n)
        /\ rd[r].v.version <= n.hdr.version /\ ~rd[r].v.write_intent
    BY <1>2, <1>3, <1>5 DEF CleanInv, Recorded, Returned
  <2> QED
    BY <1>1, <1>2, <1>4, <2>1, <2>2 DEF CleanInv, Returned, Recorded, Copying
<1> QED
  BY <1>2, <1>3, <1>4, <1>5, ReaderStays DEF Recorded

(* Ticks and stuttering.                                                   *)
LEMMA QuietKeeps ==
    ASSUME TInv, AdvanceTick \/ UNCHANGED vars
    PROVE  TInv'
<1>1. /\ (to_read_only_tick(MaxTid) > tick /\ tick' = tick + 1) \/ tick' = tick
      /\ UNCHANGED <<heap, root, wr, rd, locks, installed, seen>>
  BY DEF AdvanceTick, vars
<1>2. Types'
  <2>1. to_read_only_tick(MaxTid) \in Nat
    BY Constants DEF to_read_only_tick
  <2>2. tick' \in 0..to_read_only_tick(MaxTid)
    BY <1>1, <2>1 DEF TInv, Types
  <2>3. to_read_only_tick(MaxTid)' = to_read_only_tick(MaxTid)
    BY DEF to_read_only_tick
  <2> QED
    BY <1>1, <2>2, <2>3 DEF TInv, Types
<1>3. heap \in Seq(Tuples) /\ \A r \in Readers : rd'[r] = rd[r] /\ seen'[r] = seen[r]
  BY <1>1 DEF TInv, Types
<1>4. \A w \in Writers : WriterInv(w)' /\ Owned(w)' = Owned(w)
  <2> SUFFICES ASSUME NEW w \in Writers PROVE WriterInv(w)' /\ Owned(w)' = Owned(w)
    OBVIOUS
  <2> QED
    BY <1>1, <1>3, WriterFrame
<1>5. \A r \in Readers : ReaderInv(r)'
  <2> SUFFICES ASSUME NEW r \in Readers PROVE ReaderInv(r)'
    OBVIOUS
  <2> QED
    BY <1>1, <1>3, ReaderFrame
<1>6. Settled' /\ \A i \in DOMAIN heap : TupleInv(i)'
  BY <1>1 DEF TInv, Settled, Current, TupleInv, Hdr, Unseen
<1>7. \A w \in Writers, r \in Readers : Older(w, r)'
  BY <1>1 DEF TInv, Older, Clean
<1> QED
  BY <1>1, <1>2, <1>4, <1>5, <1>6, <1>7 DEF TInv

LEMMA InitTInv ==
    ASSUME Init
    PROVE  TInv
<1>1. PICK loaded \in BOOLEAN :
        /\ heap = <<[hdr |-> LatestHdr, version |-> IF loaded THEN 1 ELSE MAX_TID,
                     value |-> IF loaded THEN Whole(1) ELSE Whole(MAX_TID), next |-> None]>>
        /\ installed = << IF loaded THEN [tid |-> 1, value |-> Whole(1)]
                                    ELSE [tid |-> MIN_TID, value |-> Whole(None)] >>
  BY DEF Init
<1>2. /\ root = 1 /\ tick = to_read_only_tick(1) /\ locks = 0
      /\ wr = [w \in Writers |-> IdleWriter] /\ rd = [r \in Readers |-> IdleReader]
      /\ seen = [r \in Readers |-> {}]
  BY DEF Init
<1> DEFINE n == [hdr |-> LatestHdr, version |-> IF loaded THEN 1 ELSE MAX_TID,
                 value |-> IF loaded THEN Whole(1) ELSE Whole(MAX_TID), next |-> None]
           c == IF loaded THEN [tid |-> 1, value |-> Whole(1)]
                          ELSE [tid |-> MIN_TID, value |-> Whole(None)]
<1>3. /\ LatestHdr \in Header /\ LatestHdr.version = 0 /\ LatestHdr.latest /\ ~LatestHdr.locked
      /\ ~LatestHdr.write_intent /\ ~LatestHdr.modifying /\ ~LatestHdr.deleting
  <2>1. 0 \in 0..(2^VersionBits - 1)
    BY Constants
  <2> QED
    BY <2>1 DEF LatestHdr, Header
<1>4. /\ Whole(1) \in Values \X Values /\ Whole(MAX_TID) \in Values \X Values
      /\ Whole(None) \in Values \X Values
      /\ 1 \in 0..MAX_TID /\ 1 # MAX_TID /\ MAX_TID \in 0..MAX_TID /\ MIN_TID \in 0..MAX_TID
  BY Constants DEF Whole, Values, None, MIN_TID
<1>5. n \in Tuples /\ n.hdr = LatestHdr /\ n.next = None
  BY <1>3, <1>4 DEF Tuples, None
<1>6. c \in Contents
  BY <1>4 DEF Contents, MIN_TID
<1>7. Content(n) = c
  BY <1>3, <1>4 DEF Content
<1>8. heap = <<n>> /\ installed = <<c>>
  BY <1>1
<1> HIDE DEF n, c
<1>9. /\ heap \in Seq(Tuples) /\ DOMAIN heap = {1} /\ heap[1] = n /\ Len(heap) = 1
      /\ installed \in Seq(Contents) /\ installed # <<>> /\ Last(installed) = c
  BY <1>5, <1>6, <1>8 DEF Last
<1>10. to_read_only_tick(1) \in 0..to_read_only_tick(MaxTid)
  <2> DEFINE S == TickSpan
             a == 1 \div S
             b == MaxTid \div S
  <2>1. S \in Nat \ {0} /\ MaxTid \in Nat /\ MaxTid >= 1
    BY Constants
  <2>2. a \in Nat /\ b \in Nat /\ a <= b
    <3>1. CASE S = 1
      BY <2>1, <3>1
    <3>2. CASE S > 1
      <4>1. a = 0 /\ b \in Nat
        BY <2>1, <3>2
      <4> QED
        BY <4>1
    <3> QED
      BY <2>1, <3>1, <3>2
  <2> QED
    BY <2>2 DEF to_read_only_tick
<1>11. IdleWriter \in WriterStates /\ IdleReader \in ReaderStates
  BY <1>3, <1>4, Constants DEF IdleWriter, WriterStates, WriterPcs, IdleReader, ReaderStates,
                               ReaderPcs, MIN_TID, None
<1>12. Types
  BY <1>2, <1>9, <1>10, <1>11, Constants DEF Types
<1>13. Settled
  BY <1>2, <1>3, <1>5, <1>7, <1>9 DEF Settled, Current, Hdr
<1>14. \A i \in DOMAIN heap : TupleInv(i)
  BY <1>2, <1>3, <1>5, <1>9 DEF TupleInv, HeaderInv, Hdr, None
<1>15. \A w \in Writers : WriterInv(w) /\ Owned(w) = {} /\ wr[w].pc = "idle"
  BY <1>2, <1>9 DEF WriterInv, Owned, IdleWriter, Held, None
<1>16. \A r \in Readers : ReaderInv(r)
  BY <1>2, <1>9 DEF ReaderInv, Clean, IdleReader, None
<1>17. \A w \in Writers, r \in Readers : Older(w, r)
  BY <1>15 DEF Older, InPlace
<1> QED
  BY <1>12, <1>13, <1>14, <1>15, <1>16, <1>17 DEF TInv

LEMMA NextKeeps ==
    ASSUME TInv, [Next]_vars
    PROVE  TInv'
<1>1. CASE UNCHANGED vars
  BY <1>1, QuietKeeps
<1>2. ASSUME NEW w \in Writers, Find(w) \/ WriterStep(w) PROVE TInv'
  BY <1>2, FindKeeps, LockKeeps, UnlockKeeps, CommitKeeps, MarkModifyingKeeps, SpillKeeps,
     WriteWordKeeps, SetVersionKeeps, MarkDeletingKeeps, LogicalDeleteKeeps, ReplaceKeeps,
     LinkReplacementKeeps, UnlockReplacementKeeps, UnlockWrittenKeeps DEF WriterStep
<1>3. ASSUME NEW r \in Readers, Search(r) \/ ReaderStep(r) PROVE TInv'
  BY <1>3, SearchKeeps, RecordAtKeeps, StableVersionKeeps, NotBehindKeeps, CopyWordKeeps,
     GetNextKeeps, CheckVersionKeeps, StableWriterKeeps, IsLatestKeeps DEF ReaderStep
<1> QED
  BY <1>1, <1>2, <1>3, QuietKeeps DEF Next

LEMMA Invariance == Spec => []TInv
BY InitTInv, NextKeeps, PTL DEF Spec

(* The record's tuples, headers and versions, and the state of its readers *)
(* and writers, are always of their types.                                 *)
THEOREM TypeCorrect == Spec => []TypeOK
<1>1. TInv => TypeOK
  <2> SUFFICES ASSUME TInv PROVE TypeOK
    OBVIOUS
  <2>1. Types
    BY DEF TInv
  <2>2. \A r \in Readers : rd[r] \in ReaderStates
    BY <2>1 DEF Types
  <2>3. \A w \in Writers : wr[w] \in WriterStates /\ WriterInv(w)
    BY <2>1 DEF TInv, Types
  <2>4. \A w \in Writers : wr[w].tid \in 0..MaxTid /\ wr[w].at \in 0..Len(heap)
    BY <2>3 DEF WriterStates, WriterInv
  <2>5. \A r \in Readers : /\ rd[r].v \in Header /\ rd[r].copy \in Values \X Values
                           /\ rd[r].start_t \in 0..MAX_TID
    BY <2>2 DEF ReaderStates
  <2> QED
    BY <2>1, <2>4, <2>5 DEF TypeOK, Types
<1> QED
  BY <1>1, Invariance, PTL

(* A read of the newest version that found the header unchanged around its *)
(* copy returns one version whole, current at some time since its search   *)
(* (record_at).                                                            *)
THEOREM CleanReads == Spec => []CleanReadsAreCurrent
<1>1. TInv => CleanReadsAreCurrent
  <2> SUFFICES ASSUME TInv, NEW r \in Readers, Returned(r), rd[r].t = MAX_TID
               PROVE  Result(r) \in seen[r]
    BY DEF CleanReadsAreCurrent
  <2>1. Clean(r) /\ ReaderInv(r)
    BY DEF Clean, Returned, TInv
  <2> QED
    BY <2>1 DEF ReaderInv, CleanInv
<1> QED
  BY <1>1, Invariance, PTL

(* Unless its tuple is locked the tree holds the version installed last:   *)
(* commits neither get lost nor go into a tuple that was replaced.         *)
THEOREM TreeIsCurrent == Spec => []CurrentInTree
<1>1. TInv => CurrentInTree
  <2> SUFFICES ASSUME TInv, ~heap[root].hdr.locked
               PROVE  LET now == heap[root] IN
                      /\ now.hdr.latest
                      /\ Last(installed).tid = IF now.version = MAX_TID THEN MIN_TID ELSE now.version
                      /\ Last(installed).value = IF now.version = MAX_TID \/ now.hdr.deleting
                                                 THEN Whole(None) ELSE now.value
    BY DEF CurrentInTree
  <2>1. ~Hdr(root).write_intent
    BY DEF TInv, Types, TupleInv, HeaderInv, Hdr
  <2> QED
    BY <2>1 DEF TInv, Settled, Current, Content, Hdr
<1> QED
  BY <1>1, Invariance, PTL

(* A positive answer of stable_is_latest_version means that what was read  *)
(* is the current version and that nobody holds the tuple to change it.    *)
THEOREM ValidationSound == Spec => ValidatedIsCurrent
<1> DEFINE A == \A r \in Readers : rd[r].pc = "recheck" /\ rd'[r].pc = "valid" =>
                   /\ Result(r) = Last(installed)
                   /\ ~Hdr(rd[r].at).write_intent
<1>1. TInv /\ [Next]_vars => [A]_vars
  <2> SUFFICES ASSUME TInv, Next, NEW r \in Readers, rd[r].pc = "recheck", rd'[r].pc = "valid"
               PROVE  Result(r) = Last(installed) /\ ~Hdr(rd[r].at).write_intent
    OBVIOUS
  <2>1. rd \in [Readers -> ReaderStates]
    BY DEF TInv, Types
  <2>2. rd'[r] # rd[r]
    OBVIOUS
  <2>3. \A w \in Writers : (Find(w) \/ WriterStep(w)) => rd' = rd
    BY DEF Find, WriterStep, Lock, Unlock, Commit, mark_modifying, Spill, WriteWord, SetVersion,
           mark_deleting, on_logical_delete, Replace, LinkReplacement, UnlockReplacement,
           UnlockWritten, KeepReaders
  <2>4. AdvanceTick => rd' = rd
    BY DEF AdvanceTick
  <2>5. PICK s \in Readers : Search(s) \/ ReaderStep(s)
    BY <2>2, <2>3, <2>4 DEF Next
  <2>6. \E x : rd' = [rd EXCEPT ![s] = x]
    BY <2>5 DEF Search, ReaderStep, RecordAt, reader_stable_version, is_not_behind, CopyWord,
                get_next, reader_check_version, try_writer_stable_version, is_latest_version,
                writer_check_version, SetR
  <2>7. s = r
    BY <2>1, <2>2, <2>6
  <2>8. writer_check_version(r)
    BY <2>5, <2>7 DEF Search, ReaderStep, RecordAt, reader_stable_version, is_not_behind, CopyWord,
                get_next, reader_check_version, try_writer_stable_version, is_latest_version
  <2>9. Hdr(rd[r].at) = rd[r].v
    BY <2>1, <2>8 DEF writer_check_version, SetR, ReaderStates
  <2> DEFINE i == rd[r].at
             n == heap[i]
  <2>10. /\ i \in DOMAIN heap /\ n \in Tuples /\ n.version \in Nat /\ CleanInv(r)
         /\ rd[r] \in ReaderStates
    BY ReaderFacts
  <2>11. /\ rd[r].v.latest /\ ~rd[r].v.write_intent /\ rd[r].start_t <= n.version
         /\ n.hdr.version = rd[r].v.version /\ ~n.hdr.write_intent => n.version <= rd[r].start_t
         /\ rd[r].start_t = n.version /\ ~n.hdr.modifying => Result(r) = Content(n)
    BY <2>10 DEF CleanInv, Recorded
  <2>12. ~n.hdr.write_intent /\ n.hdr.latest /\ n.hdr.version = rd[r].v.version
    BY <2>9, <2>11 DEF Hdr
  <2>13. TupleInv(i)
    BY <2>10 DEF TInv
  <2>14. ~n.hdr.modifying /\ i = root
    BY <2>12, <2>13 DEF TupleInv, HeaderInv, Unseen, Hdr
  <2>15. rd[r].start_t = n.version
    <3>1. rd[r].start_t \in Nat
      BY <2>10, Constants DEF ReaderStates
    <3> QED
      BY <2>10, <2>11, <2>12, <3>1
  <2>16. Current(root)
    BY <2>12, <2>14 DEF TInv, Settled, Hdr
  <2> QED
    BY <2>11, <2>12, <2>14, <2>15, <2>16 DEF Current, Hdr
<1> QED
  BY <1>1, Invariance, PTL DEF Spec, ValidatedIsCurrent
=============================================================================
