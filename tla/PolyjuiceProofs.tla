--------------------------- MODULE PolyjuiceProofs ---------------------------
(* Proofs about Polyjuice, for any transactions, records, programs and     *)
(* policies: the types of its state, who holds which lock when, what the   *)
(* access lists hold, what a committed transaction has read, in which order*)
(* versions replace each other across ticks, that the tests of a dirty read*)
(* are the right ones, and that with a policy that reads clean only the    *)
(* engine is serializable, in the order in which the transactions get the  *)
(* last lock of their write set.                                           *)
EXTENDS Polyjuice, FiniteSetTheorems, SequenceTheorems, WellFoundedInduction, TLAPS

(* Unlinking an entry leaves a list of entries.                            *)
LEMMA UnlinkType ==
    ASSUME NEW S, NEW l \in Seq(S), NEW e
    PROVE  Unlink(l, e) \in Seq(S)
<1> DEFINE At == {j \in DOMAIN l : l[j] = e}
<1>1. CASE At = {}
  BY <1>1 DEF Unlink
<1>2. CASE At # {}
  <2> DEFINE i == CHOOSE j \in At : TRUE
  <2>1. i \in 1..Len(l)
    BY <1>2
  <2>2. Unlink(l, e) = SubSeq(l, 1, i - 1) \o SubSeq(l, i + 1, Len(l))
    BY <1>2 DEF Unlink, RemoveAt
  <2> HIDE DEF i
  <2>3. SubSeq(l, 1, i - 1) \in Seq(S)
    <3>1. \A j \in 1..(i - 1) : l[j] \in S
      BY <2>1
    <3> QED
      BY <2>1, <3>1, SubSeqProperties
  <2>4. SubSeq(l, i + 1, Len(l)) \in Seq(S)
    <3>1. \A j \in (i + 1)..Len(l) : l[j] \in S
      BY <2>1
    <3> QED
      BY <2>1, <3>1, SubSeqProperties
  <2> QED
    BY <2>2, <2>3, <2>4
<1> QED
  BY <1>1, <1>2

LEMMA TidsType == NoTid \in Tids /\ RunTids \subseteq Tids
BY DEF NoTid, Tids, RunTids

LEMMA CommitTidsType ==
    /\ MIN_TID \in CommitTids /\ LoadTid \in CommitTids
    /\ \A n \in Nat, e \in Nat : MakeTid(NoTxn, n, e) \in CommitTids
    /\ \A t \in Txns, n \in Nat, e \in Nat : MakeTid(t, n, e) \in CommitTids
<1>1. \A c \in Txns \cup {NoTxn}, n \in Nat, e \in Nat : MakeTid(c, n, e) \in CommitTids
  BY DEF MakeTid, CommitTids
<1> QED
  BY <1>1 DEF MIN_TID, LoadTid

LEMMA TidParts ==
    ASSUME NEW a \in CommitTids
    PROVE  EpochId(a) \in Nat /\ NumId(a) \in Nat /\ CoreId(a) \in Nat
<1>1. a \in Nat \X Nat \X (Txns \cup {NoTxn})
  BY DEF CommitTids
<1>2. a[1] \in Nat /\ a[2] \in Nat /\ a[3] \in Txns \cup {NoTxn}
  BY <1>1
<1>3. Txns \cup {NoTxn} \subseteq Nat
  BY TxnsAssumption DEF NoTxn
<1>4. a[3] \in Nat
  BY <1>2, <1>3
<1> QED
  BY <1>2, <1>4 DEF EpochId, NumId, CoreId

LEMMA InitType == Init => TypeOK
BY PolicyAssumption, TidsType, CommitTidsType
   DEF Init, None, TypeOK, PieceInSets, States, Pcs, Values, Loaded, NoTxn, WAIT_DEP_COMMIT

(* A function on 1..n is a sequence.                                       *)
LEMMA FunIsSeq ==
    ASSUME NEW S, NEW n \in Nat, NEW f \in [1..n -> S]
    PROVE  f \in Seq(S) /\ Len(f) = n
BY SeqDef

LEMMA NextKeyType ==
    ASSUME TypeOK, NEW t \in Txns, pos[t] < Len(prog[t])
    PROVE  NextKey(t) \in Keys
<1>1. prog[t] \in Seq(Accesses) /\ pos[t] + 1 \in 1..Len(prog[t])
  BY DEF TypeOK
<1>2. prog[t][pos[t] + 1] \in Accesses
  BY <1>1
<1> QED
  BY <1>2 DEF NextKey, Accesses

(* The latest write entry is an entry of the list.                         *)
LEMMA LatestWriteType ==
    ASSUME TypeOK, NEW k \in Keys, LatestWrite(k) # 0
    PROVE  /\ LatestWrite(k) \in DOMAIN list[k]
           /\ list[k][LatestWrite(k)] \in Entries
<1> DEFINE L == {j \in WritesIn(k) : \A i \in WritesIn(k) : i <= j}
<1>1. L # {} /\ LatestWrite(k) = CHOOSE j \in L : TRUE
  BY DEF LatestWrite
<1>2. LatestWrite(k) \in DOMAIN list[k]
  BY <1>1 DEF WritesIn
<1>3. list[k] \in Seq(Entries)
  BY DEF TypeOK
<1> QED
  BY <1>2, <1>3

LEMMA DirtyValueType ==
    ASSUME TypeOK, NEW k \in Keys
    PROVE  DirtyValue(k) \in Values
<1>1. CASE LatestWrite(k) = 0
  BY <1>1 DEF DirtyValue, TypeOK
<1>2. CASE LatestWrite(k) # 0
  <2>1. list[k][LatestWrite(k)] \in Entries
    BY <1>2, LatestWriteType
  <2> QED
    BY <1>2, <2>1, TidsType DEF DirtyValue, Entries, Values
<1> QED
  BY <1>1, <1>2

LEMMA ReadDepsType ==
    ASSUME TypeOK, NEW t \in Txns, NEW k \in Keys
    PROVE  ReadDeps(t, k) \subseteq RunTids
<1>1. CASE LatestWrite(k) = 0
  BY <1>1 DEF ReadDeps
<1>2. CASE LatestWrite(k) # 0
  <2>1. list[k][LatestWrite(k)].tid \in RunTids
    BY <1>2, LatestWriteType DEF Entries
  <2> QED
    BY <1>2, <2>1 DEF ReadDeps, Foreign
<1> QED
  BY <1>1, <1>2

LEMMA FirstReadType ==
    ASSUME TypeOK, NEW t \in Txns, NEW k \in Keys
    PROVE  FirstRead(t, k) \in Nat
<1> DEFINE F == {i \in DOMAIN rset[t] :
                   rset[t][i].key = k /\ \A j \in 1..(i - 1) : rset[t][j].key # k}
<1>1. CASE F = {}
  BY <1>1 DEF FirstRead
<1>2. CASE F # {}
  <2>1. FirstRead(t, k) \in DOMAIN rset[t]
    BY <1>2 DEF FirstRead
  <2>2. rset[t] \in Seq(ReadRecords)
    BY DEF TypeOK
  <2> QED
    BY <2>1, <2>2
<1> QED
  BY <1>1, <1>2

(* Both kinds of read append a record to the read set.                     *)
LEMMA AddReadType ==
    ASSUME TypeOK, NEW t \in Txns, pos[t] < Len(prog[t]),
           AddCleanRead(t) \/ AddDirtyRead(t)
    PROVE  \E r \in ReadRecords : rset' = [rset EXCEPT ![t] = Append(rset[t], r)]
<1> DEFINE k == NextKey(t)
<1>1. k \in Keys
  BY NextKeyType
<1>2. CASE AddCleanRead(t)
  <2> DEFINE r == [key |-> k, occ |-> TRUE, clean |-> ver[k], dep |-> NoTid,
                   dseq |-> 0, val |-> val[k], ow |-> FALSE]
  <2>1. r \in ReadRecords
    BY <1>1, TidsType DEF TypeOK, ReadRecords
  <2> QED
    BY <1>2, <2>1 DEF AddCleanRead
<1>3. CASE AddDirtyRead(t)
  <2> DEFINE j == LatestWrite(k)
             foreign == j # 0 /\ list[k][j].tid[1] # t
             d == IF foreign THEN list[k][j].tid ELSE NoTid
             s == IF foreign THEN list[k][j].ix ELSE 0
             r == [key |-> k, occ |-> FALSE, clean |-> ver[k], dep |-> d,
                   dseq |-> s, val |-> DirtyValue(k), ow |-> FALSE]
  <2>1. d \in Tids /\ s \in Nat
    <3>1. CASE j = 0
      BY <3>1, TidsType
    <3>2. CASE j # 0
      <4>1. list[k][j] \in Entries
        BY <1>1, <3>2, LatestWriteType
      <4> QED
        BY <4>1, TidsType DEF Entries
    <3> QED
      BY <3>1, <3>2
  <2>2. ver[k] \in CommitTids /\ DirtyValue(k) \in Values
    BY <1>1, DirtyValueType DEF TypeOK
  <2>3. rset' = [rset EXCEPT ![t] = Append(rset[t], r)]
    BY <1>3 DEF AddDirtyRead
  <2>4. r \in ReadRecords
    <3> HIDE DEF d, s, k
    <3> QED
      BY <1>1, <2>1, <2>2 DEF ReadRecords
  <2> QED
    BY <2>3, <2>4
<1> QED
  BY <1>2, <1>3

LEMMA WriteIndex ==
    ASSUME TypeOK, NEW t \in Txns, ix[t] <= Len(wset[t])
    PROVE  wset[t][ix[t]].key \in Keys
<1>1. ix[t] \in 1..Len(wset[t]) /\ wset[t] \in Seq(WriteRecords)
  BY DEF TypeOK
<1>2. wset[t][ix[t]] \in WriteRecords
  BY <1>1
<1> QED
  BY <1>2 DEF WriteRecords

LEMMA ReadIndex ==
    ASSUME TypeOK, NEW t \in Txns, ix[t] <= Len(rset[t])
    PROVE  rset[t][ix[t]].key \in Keys
<1>1. ix[t] \in 1..Len(rset[t]) /\ rset[t] \in Seq(ReadRecords)
  BY DEF TypeOK
<1>2. rset[t][ix[t]] \in ReadRecords
  BY <1>1
<1> QED
  BY <1>2 DEF ReadRecords

(* The records of the piece's reads and of its next write have typed        *)
(* dependencies.                                                           *)
LEMMA PieceDepsType ==
    ASSUME TypeOK, NEW t \in Txns
    PROVE  UNION {ReadDeps(t, rset[t][i].key) :
                    i \in {i \in rstart[t]..Len(rset[t]) : ~rset[t][i].occ}}
             \subseteq RunTids
<1>1. ASSUME NEW i \in rstart[t]..Len(rset[t])
      PROVE  ReadDeps(t, rset[t][i].key) \subseteq RunTids
  <2>1. i \in 1..Len(rset[t]) /\ rset[t] \in Seq(ReadRecords)
    BY DEF TypeOK
  <2>2. rset[t][i] \in ReadRecords
    BY <2>1
  <2>3. rset[t][i].key \in Keys
    BY <2>2 DEF ReadRecords
  <2> QED
    BY <2>3, ReadDepsType
<1> QED
  BY <1>1

LEMMA WriteDepsType ==
    ASSUME TypeOK, NEW t \in Txns, NEW k \in Keys
    PROVE  Foreign(t, {list[k][j].tid : j \in LatestDependents(k)}) \subseteq RunTids
<1>1. list[k] \in Seq(Entries)
  BY DEF TypeOK
<1>2. LatestWrite(k) = 0 \/ LatestWrite(k) \in DOMAIN list[k]
  BY LatestWriteType
<1>3. LatestDependents(k) \subseteq DOMAIN list[k]
  BY <1>1, <1>2 DEF LatestDependents
<1>4. \A j \in DOMAIN list[k] : list[k][j] \in Entries
  BY <1>1
<1>5. \A j \in DOMAIN list[k] : list[k][j].tid \in RunTids
  BY <1>4 DEF Entries
<1> QED
  BY <1>3, <1>5 DEF Foreign

(* check_rmw changes fields of the records, not their number.              *)
LEMMA CheckRmwSets ==
    ASSUME TypeOK, NEW t \in Txns, CheckRmw(t)
    PROVE  \E w \in Seq(WriteRecords), r \in Seq(ReadRecords) :
             /\ wset' = [wset EXCEPT ![t] = w] /\ Len(w) = Len(wset[t])
             /\ rset' = [rset EXCEPT ![t] = r] /\ Len(r) = Len(rset[t])
<1> DEFINE w == [i \in DOMAIN wset[t] |->
                   IF i < wstart[t] THEN wset[t][i]
                   ELSE [wset[t][i] EXCEPT !.re = FirstRead(t, wset[t][i].key)]]
           r == [i \in DOMAIN rset[t] |->
                   IF \E j \in wstart[t]..Len(wset[t]) : FirstRead(t, wset[t][j].key) = i
                   THEN [rset[t][i] EXCEPT !.ow = TRUE] ELSE rset[t][i]]
<1>1. wset' = [wset EXCEPT ![t] = w] /\ rset' = [rset EXCEPT ![t] = r]
  BY DEF CheckRmw
<1>2. w \in Seq(WriteRecords) /\ Len(w) = Len(wset[t])
  <2>1. wset[t] \in Seq(WriteRecords)
    BY DEF TypeOK
  <2>2. ASSUME NEW i \in DOMAIN wset[t]
        PROVE  w[i] \in WriteRecords
    <3>1. wset[t][i] \in WriteRecords
      BY <2>1
    <3>2. FirstRead(t, wset[t][i].key) \in Nat
      BY <3>1, FirstReadType DEF WriteRecords
    <3>3. [wset[t][i] EXCEPT !.re = FirstRead(t, wset[t][i].key)] \in WriteRecords
      BY <3>1, <3>2 DEF WriteRecords
    <3> QED
      BY <3>1, <3>3
  <2>3. DOMAIN wset[t] = 1..Len(wset[t]) /\ Len(wset[t]) \in Nat
    BY <2>1
  <2>4. w \in [1..Len(wset[t]) -> WriteRecords]
    BY <2>2, <2>3
  <2> HIDE DEF w
  <2> QED
    BY <2>3, <2>4, FunIsSeq
<1>3. r \in Seq(ReadRecords) /\ Len(r) = Len(rset[t])
  <2>1. rset[t] \in Seq(ReadRecords)
    BY DEF TypeOK
  <2>2. ASSUME NEW i \in DOMAIN rset[t]
        PROVE  r[i] \in ReadRecords
    <3>1. rset[t][i] \in ReadRecords
      BY <2>1
    <3>2. [rset[t][i] EXCEPT !.ow = TRUE] \in ReadRecords
      BY <3>1 DEF ReadRecords
    <3> QED
      BY <3>1, <3>2
  <2>3. DOMAIN rset[t] = 1..Len(rset[t]) /\ Len(rset[t]) \in Nat
    BY <2>1
  <2>4. r \in [1..Len(rset[t]) -> ReadRecords]
    BY <2>2, <2>3
  <2> HIDE DEF r
  <2> QED
    BY <2>3, <2>4, FunIsSeq
<1> QED
  BY <1>1, <1>2, <1>3

-----------------------------------------------------------------------------
(* One lemma per action: what it leaves alone, the type of what it changes,*)
(* and the piece's place in the sets.                                      *)

LEMMA BeginType ==
    ASSUME TypeOK, NEW t \in Txns, Begin(t)
    PROVE  TypeOK'
<1>1. UNCHANGED <<run, step, todo, ix, ctid, tick, epoch, ret, lock, intent, ver,
                  seq, val, list>>
  BY DEF Begin, control, sets, waiting, record, ghost
<1>2. pc' \in [Txns -> Pcs]
  BY DEF TypeOK, Begin, Goto, Pcs
<1>3. state' \in [Txns -> States]
  BY DEF TypeOK, Begin, States
<1>4. prog' \in [Txns -> Seq(Accesses)]
  <2>1. PICK p \in Programs[t] : prog' = [prog EXCEPT ![t] = p]
    BY DEF Begin
  <2>2. p \in Seq(Accesses)
    BY ProgramsAssumption
  <2> QED
    BY <2>1, <2>2 DEF TypeOK
<1>5. pos' \in [Txns -> Nat]
  BY DEF TypeOK, Begin
<1>6. base' \in [Txns -> Nat]
  BY DEF TypeOK, Begin
<1>7. rset' \in [Txns -> Seq(ReadRecords)]
  BY DEF TypeOK, Begin
<1>8. wset' \in [Txns -> Seq(WriteRecords)]
  BY DEF TypeOK, Begin
<1>9. rstart' \in [Txns -> Nat \ {0}]
  BY DEF TypeOK, Begin
<1>10. wstart' \in [Txns -> Nat \ {0}]
  BY DEF TypeOK, Begin
<1>11. deps' \in [Txns -> SUBSET RunTids]
  BY DEF TypeOK, Begin
<1>12. dirty' \in [Txns -> SUBSET RunTids]
  BY DEF TypeOK, Begin
<1>13. vdeps' \in [Txns -> SUBSET RunTids]
  BY DEF TypeOK, Begin
<1>14. \A u \in Txns : PieceInSets(u)'
  BY DEF TypeOK, PieceInSets, Begin
<1>15. region' \in [Txns -> Nat]
  BY DEF TypeOK, Begin
<1> QED
  BY <1>1, <1>2, <1>3, <1>4, <1>5, <1>6, <1>7, <1>8, <1>9, <1>10, <1>11, <1>12, <1>13, <1>14, <1>15 DEF TypeOK

-----------------------------------------------------------------------------
(* Execution.                                                               *)

LEMMA NewTidType ==
    ASSUME TypeOK, NEW t \in Txns, NewTid(t)
    PROVE  TypeOK'
<1>1. UNCHANGED <<state, prog, pos, base, rset, wset, rstart, wstart, deps,
                  dirty, vdeps, todo, ix, ctid, clock, lock, intent, ver, seq, val,
                  list>>
  BY DEF NewTid, control, sets, waiting, record, ghost
<1>2. pc' \in [Txns -> Pcs]
  BY DEF TypeOK, NewTid, Goto, Pcs
<1>3. run' \in [Txns -> Nat]
  BY DEF TypeOK, NewTid
<1>4. step' \in [Txns -> Nat]
  BY DEF TypeOK, NewTid
<1>5. \A u \in Txns : PieceInSets(u)'
  BY <1>1 DEF TypeOK, PieceInSets
<1> QED
  BY <1>1, <1>2, <1>3, <1>4, <1>5 DEF TypeOK, clock

LEMMA StartWaitType ==
    ASSUME TypeOK, NEW t \in Txns, StartWait(t)
    PROVE  TypeOK'
<1>1. UNCHANGED <<run, state, prog, pos, base, rset, wset, rstart, wstart,
                  deps, dirty, vdeps, ix, ctid, clock, lock, intent, ver, seq, val,
                  list>>
  BY DEF StartWait, control, sets, waiting, record, ghost
<1>2. pc' \in [Txns -> Pcs]
  <2>1. pc' = [pc EXCEPT ![t] = "wait"] \/ pc' = [pc EXCEPT ![t] = "pwait"]
    BY DEF StartWait, Goto
  <2> QED
    BY <2>1 DEF TypeOK, Pcs
<1>3. step' \in [Txns -> Nat]
  <2>1. step' = [step EXCEPT ![t] = pos[t] + 1] \/ step' = step
    BY DEF StartWait
  <2>2. CASE step' = [step EXCEPT ![t] = pos[t] + 1]
    BY <2>2 DEF TypeOK
  <2>3. CASE step' = step
    BY <2>3 DEF TypeOK
  <2> QED
    BY <2>1, <2>2, <2>3
<1>4. todo' \in [Txns -> SUBSET (RunTids \X Nat)]
  <2>0. PICK D \in SUBSET deps[t] : \E w \in [D -> Waits] :
             todo' = [todo EXCEPT ![t] = {<<d, w[d]>> : d \in D}]
    BY DEF StartWait
  <2>1. PICK w \in [D -> Waits] :
             todo' = [todo EXCEPT ![t] = {<<d, w[d]>> : d \in D}]
    BY <2>0
  <2>2. ASSUME NEW d \in D
        PROVE  d \in RunTids /\ w[d] \in Nat
    <3>1. d \in RunTids
      BY DEF TypeOK
    <3>2. w[d] \in Waits
      OBVIOUS
    <3>3. Waits \subseteq Nat
      BY WaitsAssumption, SMT DEF WAIT_DEP_COMMIT
    <3> QED
      BY <3>1, <3>2, <3>3
  <2>3. {<<d, w[d]>> : d \in D} \in SUBSET (RunTids \X Nat)
    BY <2>2
  <2> QED
    BY <2>1, <2>3 DEF TypeOK
<1>5. \A u \in Txns : PieceInSets(u)'
  BY <1>1 DEF TypeOK, PieceInSets
<1> QED
  BY <1>1, <1>2, <1>3, <1>4, <1>5 DEF TypeOK, clock

LEMMA WaitOneType ==
    ASSUME TypeOK, NEW t \in Txns, WaitOne(t)
    PROVE  TypeOK'
<1>1. UNCHANGED <<pc, run, state, prog, pos, base, step, rset, wset, rstart,
                  wstart, deps, dirty, vdeps, ix, ctid, clock, lock, intent, ver, seq,
                  val, list>>
  BY DEF WaitOne, control, sets, waiting, record, ghost
<1>2. todo' \in [Txns -> SUBSET (RunTids \X Nat)]
  <2>1. PICK x \in todo[t] : todo' = [todo EXCEPT ![t] = todo[t] \ {x}]
    BY DEF TypeOK, WaitOne
  <2>2. todo[t] \ {x} \in SUBSET (RunTids \X Nat)
    BY DEF TypeOK
  <2> QED
    BY <2>1, <2>2 DEF TypeOK
<1>3. \A u \in Txns : PieceInSets(u)'
  BY <1>1 DEF TypeOK, PieceInSets
<1> QED
  BY <1>1, <1>2, <1>3 DEF TypeOK, clock

LEMMA WaitEndType ==
    ASSUME TypeOK, NEW t \in Txns, WaitEnd(t)
    PROVE  TypeOK'
<1>1. UNCHANGED <<run, state, prog, pos, base, step, rset, wset, rstart,
                  wstart, deps, dirty, vdeps, todo, ix, ctid, clock, lock, intent,
                  ver, seq, val, list>>
  BY DEF WaitEnd, control, sets, waiting, record, ghost
<1>2. pc' \in [Txns -> Pcs]
  BY DEF TypeOK, WaitEnd, Goto, Pcs
<1>3. \A u \in Txns : PieceInSets(u)'
  BY <1>1 DEF TypeOK, PieceInSets
<1> QED
  BY <1>1, <1>2, <1>3 DEF TypeOK, clock

LEMMA WaitThrowType ==
    ASSUME TypeOK, NEW t \in Txns, WaitThrow(t)
    PROVE  TypeOK'
<1>1. UNCHANGED <<run, prog, pos, base, step, rset, wset, rstart, wstart, deps,
                  dirty, vdeps, todo, ix, ctid, clock, lock, intent, ver, seq, val,
                  list>>
  BY DEF WaitThrow, control, sets, waiting, record, ghost
<1>2. pc' \in [Txns -> Pcs]
  BY DEF TypeOK, WaitThrow, Goto, Pcs
<1>3. state' \in [Txns -> States]
  BY DEF TypeOK, WaitThrow, States
<1>4. \A u \in Txns : PieceInSets(u)'
  BY <1>1 DEF TypeOK, PieceInSets
<1> QED
  BY <1>1, <1>2, <1>3, <1>4 DEF TypeOK, clock

LEMMA GetType ==
    ASSUME TypeOK, NEW t \in Txns, Get(t)
    PROVE  TypeOK'
<1>1. UNCHANGED <<run, state, prog, base, wset, rstart, wstart, deps, dirty,
                  vdeps, todo, ix, ctid, clock, lock, intent, ver, seq, val, list>>
  BY DEF Get, Accessing, control, sets, waiting, record, ghost
<1>2. pc' \in [Txns -> Pcs]
  BY DEF TypeOK, Get, Accessing, Goto, Pcs
<1>3. pos' \in [Txns -> Nat]
  BY DEF TypeOK, Get, Accessing
<1>4. step' \in [Txns -> Nat]
  BY DEF TypeOK, Get, Accessing
<1>5. rset' \in [Txns -> Seq(ReadRecords)]
  <2>1. pos[t] < Len(prog[t])
    BY DEF Get, Accessing
  <2>2. AddCleanRead(t) \/ AddDirtyRead(t)
    BY DEF Get
  <2>3. PICK r \in ReadRecords : rset' = [rset EXCEPT ![t] = Append(rset[t], r)]
    BY <2>1, <2>2, AddReadType
  <2>4. Append(rset[t], r) \in Seq(ReadRecords)
    BY DEF TypeOK
  <2> QED
    BY <2>3, <2>4 DEF TypeOK
<1>6. \A u \in Txns : PieceInSets(u)'
  <2>1. pos[t] < Len(prog[t])
    BY DEF Get, Accessing
  <2>2. AddCleanRead(t) \/ AddDirtyRead(t)
    BY DEF Get
  <2>3. PICK r \in ReadRecords : rset' = [rset EXCEPT ![t] = Append(rset[t], r)]
    BY <2>1, <2>2, AddReadType
  <2>4. wset' = wset
    BY <1>1
  <2>5. rstart' = rstart /\ wstart' = wstart
    BY <1>1
  <2>6. ASSUME NEW u \in Txns
        PROVE  PieceInSets(u)'
    <3>1. rset[u] \in Seq(ReadRecords) /\ wset[u] \in Seq(WriteRecords)
      BY DEF TypeOK
    <3>2. CASE u = t
      <4>1. rstart[u] <= Len(rset[u]) + 1 /\ wstart[u] <= Len(wset[u]) + 1
        BY DEF TypeOK, PieceInSets
      <4>2. rstart[u] \in Nat /\ wstart[u] \in Nat
        BY DEF TypeOK
      <4>3. Len(rset[u]) \in Nat /\ Len(wset[u]) \in Nat
        BY <3>1
      <4>4. Len(rset'[u]) = Len(rset[u]) + 1
        BY <2>3, <3>1, <3>2 DEF TypeOK
      <4>5. Len(wset'[u]) = Len(wset[u])
        BY <2>4, <3>1, <3>2 DEF TypeOK
      <4> QED
        BY <2>5, <4>1, <4>2, <4>3, <4>4, <4>5 DEF PieceInSets
    <3>3. CASE u # t
      <4>1. rset'[u] = rset[u] /\ wset'[u] = wset[u]
        BY <2>3, <2>4, <3>3 DEF TypeOK
      <4> QED
        BY <2>5, <4>1 DEF TypeOK, PieceInSets
    <3> QED
      BY <3>2, <3>3
  <2> QED
    BY <2>6
<1> QED
  BY <1>1, <1>2, <1>3, <1>4, <1>5, <1>6 DEF TypeOK, clock

LEMMA PutType ==
    ASSUME TypeOK, NEW t \in Txns, Put(t)
    PROVE  TypeOK'
<1>1. UNCHANGED <<run, state, prog, base, rset, rstart, wstart, deps, dirty,
                  vdeps, todo, ix, ctid, clock, lock, intent, ver, seq, val, list>>
  BY DEF Put, Accessing, AddWrite, control, sets, waiting, record, ghost
<1>2. pc' \in [Txns -> Pcs]
  BY DEF TypeOK, Put, Accessing, AddWrite, Goto, Pcs
<1>3. pos' \in [Txns -> Nat]
  BY DEF TypeOK, Put, Accessing, AddWrite
<1>4. step' \in [Txns -> Nat]
  BY DEF TypeOK, Put, Accessing, AddWrite
<1>5. wset' \in [Txns -> Seq(WriteRecords)]
  <2>1. WriteRecord(NextKey(t)) \in WriteRecords
    BY NextKeyType DEF Put, Accessing, WriteRecord, WriteRecords
  <2>2. Append(wset[t], WriteRecord(NextKey(t))) \in Seq(WriteRecords)
    BY <2>1 DEF TypeOK
  <2> QED
    BY <2>2 DEF TypeOK, Put, AddWrite
<1>6. \A u \in Txns : PieceInSets(u)'
  <2>1. ASSUME NEW u \in Txns
        PROVE  PieceInSets(u)'
    <3>1. CASE u = t
      <4>1. /\ rset' = rset /\ rstart' = rstart /\ wstart' = wstart
            /\ wset'[t] = Append(wset[t], WriteRecord(NextKey(t)))
        BY DEF TypeOK, Put, Accessing, AddWrite
      <4>2. Len(wset'[t]) = Len(wset[t]) + 1
        BY <4>1 DEF TypeOK
      <4> QED
        BY <3>1, <4>1, <4>2 DEF TypeOK, PieceInSets
    <3>2. CASE u # t
      <4>1. /\ rset'[u] = rset[u] /\ wset'[u] = wset[u]
            /\ rstart'[u] = rstart[u] /\ wstart'[u] = wstart[u]
        BY <3>2 DEF TypeOK, Put, Accessing, AddWrite
      <4> QED
        BY <4>1 DEF TypeOK, PieceInSets
    <3> QED
      BY <3>1, <3>2
  <2> QED
    BY <2>1
<1> QED
  BY <1>1, <1>2, <1>3, <1>4, <1>5, <1>6 DEF TypeOK, clock

LEMMA UpdateType ==
    ASSUME TypeOK, NEW t \in Txns, Update(t)
    PROVE  TypeOK'
<1>1. UNCHANGED <<run, state, prog, base, rstart, wstart, deps, dirty, vdeps,
                  todo, ix, ctid, clock, lock, intent, ver, seq, val, list>>
  BY DEF Update, Accessing, control, sets, waiting, record, ghost
<1>2. pc' \in [Txns -> Pcs]
  BY DEF TypeOK, Update, Accessing, Goto, Pcs
<1>3. pos' \in [Txns -> Nat]
  BY DEF TypeOK, Update, Accessing
<1>4. step' \in [Txns -> Nat]
  BY DEF TypeOK, Update, Accessing
<1>5. rset' \in [Txns -> Seq(ReadRecords)]
  <2>1. pos[t] < Len(prog[t])
    BY DEF Update, Accessing
  <2>2. AddCleanRead(t) \/ AddDirtyRead(t)
    BY DEF Update
  <2>3. PICK r \in ReadRecords : rset' = [rset EXCEPT ![t] = Append(rset[t], r)]
    BY <2>1, <2>2, AddReadType
  <2>4. Append(rset[t], r) \in Seq(ReadRecords)
    BY DEF TypeOK
  <2> QED
    BY <2>3, <2>4 DEF TypeOK
<1>6. wset' \in [Txns -> Seq(WriteRecords)]
  <2>1. WriteRecord(NextKey(t)) \in WriteRecords
    BY NextKeyType DEF Update, Accessing, WriteRecord, WriteRecords
  <2>2. Append(wset[t], WriteRecord(NextKey(t))) \in Seq(WriteRecords)
    BY <2>1 DEF TypeOK
  <2> QED
    BY <2>2 DEF TypeOK, Update, AddWrite
<1>7. \A u \in Txns : PieceInSets(u)'
  <2>1. pos[t] < Len(prog[t])
    BY DEF Update, Accessing
  <2>2. AddCleanRead(t) \/ AddDirtyRead(t)
    BY DEF Update
  <2>3. PICK r \in ReadRecords : rset' = [rset EXCEPT ![t] = Append(rset[t], r)]
    BY <2>1, <2>2, AddReadType
  <2>4. wset' = [wset EXCEPT ![t] = Append(wset[t], WriteRecord(NextKey(t)))]
    BY DEF Update, AddWrite
  <2>5. rstart' = rstart /\ wstart' = wstart
    BY <1>1
  <2>6. ASSUME NEW u \in Txns
        PROVE  PieceInSets(u)'
    <3>1. rset[u] \in Seq(ReadRecords) /\ wset[u] \in Seq(WriteRecords)
      BY DEF TypeOK
    <3>2. CASE u = t
      <4>1. rstart[u] <= Len(rset[u]) + 1 /\ wstart[u] <= Len(wset[u]) + 1
        BY DEF TypeOK, PieceInSets
      <4>2. rstart[u] \in Nat /\ wstart[u] \in Nat
        BY DEF TypeOK
      <4>3. Len(rset[u]) \in Nat /\ Len(wset[u]) \in Nat
        BY <3>1
      <4>4. Len(rset'[u]) = Len(rset[u]) + 1
        BY <2>3, <3>1, <3>2 DEF TypeOK
      <4>5. Len(wset'[u]) = Len(wset[u]) + 1
        BY <2>4, <3>1, <3>2 DEF TypeOK
      <4> QED
        BY <2>5, <4>1, <4>2, <4>3, <4>4, <4>5 DEF PieceInSets
    <3>3. CASE u # t
      <4>1. rset'[u] = rset[u] /\ wset'[u] = wset[u]
        BY <2>3, <2>4, <3>3 DEF TypeOK
      <4> QED
        BY <2>5, <4>1 DEF TypeOK, PieceInSets
    <3> QED
      BY <3>2, <3>3
  <2> QED
    BY <2>6
<1> QED
  BY <1>1, <1>2, <1>3, <1>4, <1>5, <1>6, <1>7 DEF TypeOK, clock

LEMMA NoPieceEndType ==
    ASSUME TypeOK, NEW t \in Txns, NoPieceEnd(t)
    PROVE  TypeOK'
<1>1. UNCHANGED <<run, state, prog, pos, base, step, rset, wset, rstart,
                  wstart, deps, dirty, vdeps, todo, ix, ctid, clock, lock, intent,
                  ver, seq, val, list>>
  BY DEF NoPieceEnd, control, sets, waiting, record, ghost
<1>2. pc' \in [Txns -> Pcs]
  BY DEF TypeOK, NoPieceEnd, Goto, Pcs
<1>3. \A u \in Txns : PieceInSets(u)'
  BY <1>1 DEF TypeOK, PieceInSets
<1> QED
  BY <1>1, <1>2, <1>3 DEF TypeOK, clock

LEMMA PieceEndType ==
    ASSUME TypeOK, NEW t \in Txns, PieceEnd(t)
    PROVE  TypeOK'
<1>1. UNCHANGED <<run, state, prog, pos, base, step, rset, wset, rstart,
                  wstart, deps, dirty, vdeps, todo, ix, ctid, clock, lock, intent,
                  ver, seq, val, list>>
  BY DEF PieceEnd, control, sets, waiting, record, ghost
<1>2. pc' \in [Txns -> Pcs]
  BY DEF TypeOK, PieceEnd, Goto, Pcs
<1>3. \A u \in Txns : PieceInSets(u)'
  BY <1>1 DEF TypeOK, PieceInSets
<1> QED
  BY <1>1, <1>2, <1>3 DEF TypeOK, clock

LEMMA UserAbortType ==
    ASSUME TypeOK, NEW t \in Txns, UserAbort(t)
    PROVE  TypeOK'
<1>1. UNCHANGED <<run, state, prog, pos, base, step, rset, wset, rstart,
                  wstart, deps, dirty, vdeps, todo, ix, ctid, clock, lock, intent,
                  ver, seq, val, list>>
  BY DEF UserAbort, control, sets, waiting, record, ghost
<1>2. pc' \in [Txns -> Pcs]
  BY DEF TypeOK, UserAbort, Goto, Pcs
<1>3. \A u \in Txns : PieceInSets(u)'
  BY <1>1 DEF TypeOK, PieceInSets
<1> QED
  BY <1>1, <1>2, <1>3 DEF TypeOK, clock

-----------------------------------------------------------------------------
(* expose_uncommitted and its rollback.                                    *)

LEMMA ExposeLockType ==
    ASSUME TypeOK, NEW t \in Txns, ExposeLock(t)
    PROVE  TypeOK'
<1>1. UNCHANGED <<pc, run, state, prog, pos, base, step, rset, wset, rstart,
                  wstart, deps, dirty, vdeps, todo, ix, ctid, clock, intent, ver, seq,
                  val, list>>
  BY DEF ExposeLock, control, sets, waiting, record, ghost
<1>2. lock' \in [Keys -> Txns \cup {NoTxn}]
  BY DEF TypeOK, ExposeLock
<1>3. \A u \in Txns : PieceInSets(u)'
  BY <1>1 DEF TypeOK, PieceInSets
<1> QED
  BY <1>1, <1>2, <1>3 DEF TypeOK, clock

LEMMA CheckRmwType ==
    ASSUME TypeOK, NEW t \in Txns, CheckRmw(t)
    PROVE  TypeOK'
<1>1. UNCHANGED <<run, state, prog, pos, base, step, rstart, wstart, deps,
                  dirty, vdeps, todo, ctid, clock, lock, intent, ver, seq, val, list>>
  BY DEF CheckRmw, control, sets, waiting, record, ghost
<1>2. pc' \in [Txns -> Pcs]
  BY DEF TypeOK, CheckRmw, Goto, Pcs
<1>3. wset' \in [Txns -> Seq(WriteRecords)]
  <2>1. PICK w \in Seq(WriteRecords) : wset' = [wset EXCEPT ![t] = w]
    BY CheckRmwSets
  <2> QED
    BY <2>1 DEF TypeOK
<1>4. rset' \in [Txns -> Seq(ReadRecords)]
  <2>1. PICK r \in Seq(ReadRecords) : rset' = [rset EXCEPT ![t] = r]
    BY CheckRmwSets
  <2> QED
    BY <2>1 DEF TypeOK
<1>5. ix' \in [Txns -> Nat \ {0}]
  <2>1. rstart[t] \in Nat /\ ix' = [ix EXCEPT ![t] = rstart[t]]
    BY DEF TypeOK, CheckRmw
  <2> QED
    BY <2>1 DEF TypeOK
<1>6. \A u \in Txns : PieceInSets(u)'
  <2>1. PICK w \in Seq(WriteRecords), r \in Seq(ReadRecords) :
          /\ wset' = [wset EXCEPT ![t] = w] /\ Len(w) = Len(wset[t])
          /\ rset' = [rset EXCEPT ![t] = r] /\ Len(r) = Len(rset[t])
    BY CheckRmwSets
  <2>2. \A u \in Txns : Len(wset'[u]) = Len(wset[u]) /\ Len(rset'[u]) = Len(rset[u])
    BY <2>1 DEF TypeOK
  <2> QED
    BY <1>1, <2>2 DEF TypeOK, PieceInSets
<1> QED
  BY <1>1, <1>2, <1>3, <1>4, <1>5, <1>6 DEF TypeOK, clock

LEMMA ExposeReadType ==
    ASSUME TypeOK, NEW t \in Txns, ExposeRead(t)
    PROVE  TypeOK'
<1>1. UNCHANGED <<pc, run, state, prog, pos, base, step, rset, wset, rstart,
                  wstart, vdeps, todo, ctid, clock, lock, intent, ver, seq, val>>
  BY DEF ExposeRead, control, sets, waiting, record, ghost
<1>2. deps' \in [Txns -> SUBSET RunTids]
  <2> DEFINE k == rset[t][ix[t]].key
  <2>1. k \in Keys
    BY ReadIndex DEF ExposeRead
  <2>2. deps' = deps \/ deps' = [deps EXCEPT ![t] = deps[t] \cup ReadDeps(t, k)]
    BY DEF ExposeRead
  <2>3. ReadDeps(t, k) \subseteq RunTids
    BY <2>1, ReadDepsType
  <2> HIDE DEF k
  <2>4. deps[t] \cup ReadDeps(t, k) \in SUBSET RunTids
    BY <2>3 DEF TypeOK
  <2> QED
    BY <2>2, <2>4 DEF TypeOK
<1>3. dirty' \in [Txns -> SUBSET RunTids]
  <2> DEFINE k == rset[t][ix[t]].key
  <2>1. k \in Keys
    BY ReadIndex DEF ExposeRead
  <2>2. dirty' = dirty \/ dirty' = [dirty EXCEPT ![t] = dirty[t] \cup ReadDeps(t, k)]
    BY DEF ExposeRead
  <2>3. ReadDeps(t, k) \subseteq RunTids
    BY <2>1, ReadDepsType
  <2> HIDE DEF k
  <2>4. dirty[t] \cup ReadDeps(t, k) \in SUBSET RunTids
    BY <2>3 DEF TypeOK
  <2> QED
    BY <2>2, <2>4 DEF TypeOK
<1>4. list' \in [Keys -> Seq(Entries)]
  <2> DEFINE k == rset[t][ix[t]].key
  <2>1. k \in Keys
    BY ReadIndex DEF ExposeRead
  <2>2. list' = list \/ list' = [list EXCEPT ![k] = Append(list[k], ReadEntry(t, ix[t]))]
    BY DEF ExposeRead
  <2>3. ReadEntry(t, ix[t]) \in Entries
    BY DEF TypeOK, ReadEntry, Entries, Tid, RunTids
  <2> HIDE DEF k
  <2>4. Append(list[k], ReadEntry(t, ix[t])) \in Seq(Entries)
    BY <2>1, <2>3 DEF TypeOK
  <2> QED
    BY <2>1, <2>2, <2>4 DEF TypeOK
<1>5. ix' \in [Txns -> Nat \ {0}]
  BY DEF TypeOK, ExposeRead
<1>6. \A u \in Txns : PieceInSets(u)'
  BY <1>1 DEF TypeOK, PieceInSets
<1> QED
  BY <1>1, <1>2, <1>3, <1>4, <1>5, <1>6 DEF TypeOK, clock

LEMMA ReadsExposedType ==
    ASSUME TypeOK, NEW t \in Txns, ReadsExposed(t)
    PROVE  TypeOK'
<1>1. UNCHANGED <<run, state, prog, pos, base, step, rset, wset, rstart,
                  wstart, deps, dirty, vdeps, todo, ctid, clock, lock, intent, ver,
                  seq, val, list>>
  BY DEF ReadsExposed, control, sets, waiting, record, ghost
<1>2. pc' \in [Txns -> Pcs]
  BY DEF TypeOK, ReadsExposed, Goto, Pcs
<1>3. ix' \in [Txns -> Nat \ {0}]
  BY DEF TypeOK, ReadsExposed
<1>4. \A u \in Txns : PieceInSets(u)'
  BY <1>1 DEF TypeOK, PieceInSets
<1> QED
  BY <1>1, <1>2, <1>3, <1>4 DEF TypeOK, clock

LEMMA ExposeWriteType ==
    ASSUME TypeOK, NEW t \in Txns, ExposeWrite(t)
    PROVE  TypeOK'
<1>1. UNCHANGED <<pc, run, state, prog, pos, base, step, rset, wset, rstart,
                  wstart, dirty, vdeps, todo, ctid, clock, lock, intent, ver, seq,
                  val>>
  BY DEF ExposeWrite, control, sets, waiting, record, ghost
<1>2. deps' \in [Txns -> SUBSET RunTids]
  <2> DEFINE k == wset[t][ix[t]].key
             D == Foreign(t, {list[k][j].tid : j \in LatestDependents(k)})
  <2>1. k \in Keys
    BY WriteIndex DEF ExposeWrite
  <2>2. D \subseteq RunTids
    BY <2>1, WriteDepsType
  <2>3. deps' = [deps EXCEPT ![t] = deps[t] \cup D]
    BY DEF ExposeWrite
  <2> HIDE DEF D
  <2>4. deps[t] \cup D \in SUBSET RunTids
    BY <2>2 DEF TypeOK
  <2> QED
    BY <2>3, <2>4 DEF TypeOK
<1>3. list' \in [Keys -> Seq(Entries)]
  <2> DEFINE k == wset[t][ix[t]].key
  <2>1. k \in Keys
    BY WriteIndex DEF ExposeWrite
  <2>2. list' = [list EXCEPT ![k] = Append(list[k], WriteEntry(t, ix[t]))]
    BY DEF ExposeWrite
  <2>3. WriteEntry(t, ix[t]) \in Entries
    BY DEF TypeOK, WriteEntry, Entries, Tid, RunTids
  <2> HIDE DEF k
  <2>4. Append(list[k], WriteEntry(t, ix[t])) \in Seq(Entries)
    BY <2>1, <2>3 DEF TypeOK
  <2> QED
    BY <2>1, <2>2, <2>4 DEF TypeOK
<1>4. ix' \in [Txns -> Nat \ {0}]
  BY DEF TypeOK, ExposeWrite
<1>5. \A u \in Txns : PieceInSets(u)'
  BY <1>1 DEF TypeOK, PieceInSets
<1> QED
  BY <1>1, <1>2, <1>3, <1>4, <1>5 DEF TypeOK, clock

LEMMA ExposeDoneType ==
    ASSUME TypeOK, NEW t \in Txns, ExposeDone(t)
    PROVE  TypeOK'
<1>1. UNCHANGED <<run, state, prog, pos, step, rset, wset, deps, dirty, todo,
                  ix, ctid, clock, ver, seq, val, list>>
  BY DEF ExposeDone, ReleaseAll, control, sets, waiting, record, ghost
<1>2. pc' \in [Txns -> Pcs]
  BY DEF TypeOK, ExposeDone, ReleaseAll, Goto, Pcs
<1>3. lock' \in [Keys -> Txns \cup {NoTxn}]
  BY DEF TypeOK, ExposeDone, ReleaseAll
<1>4. intent' \in [Keys -> BOOLEAN]
  BY DEF TypeOK, ExposeDone, ReleaseAll
<1>5. rstart' \in [Txns -> Nat \ {0}]
  BY DEF TypeOK, ExposeDone, ReleaseAll
<1>6. wstart' \in [Txns -> Nat \ {0}]
  BY DEF TypeOK, ExposeDone, ReleaseAll
<1>7. vdeps' \in [Txns -> SUBSET RunTids]
  BY DEF TypeOK, ExposeDone, ReleaseAll
<1>8. base' \in [Txns -> Nat]
  BY DEF TypeOK, ExposeDone, ReleaseAll
<1>9. \A u \in Txns : PieceInSets(u)'
  <2>1. ASSUME NEW u \in Txns
        PROVE  PieceInSets(u)'
    <3>1. CASE u = t
      <4>1. /\ rset'[t] = rset[t] /\ wset'[t] = wset[t]
            /\ rstart'[t] = Len(rset[t]) + 1 /\ wstart'[t] = Len(wset[t]) + 1
        BY DEF TypeOK, ExposeDone
      <4> QED
        BY <3>1, <4>1 DEF TypeOK, PieceInSets
    <3>2. CASE u # t
      <4>1. /\ rset'[u] = rset[u] /\ wset'[u] = wset[u]
            /\ rstart'[u] = rstart[u] /\ wstart'[u] = wstart[u]
        BY <3>2 DEF TypeOK, ExposeDone
      <4> QED
        BY <4>1 DEF TypeOK, PieceInSets
    <3> QED
      BY <3>1, <3>2
  <2> QED
    BY <2>1
<1> QED
  BY <1>1, <1>2, <1>3, <1>4, <1>5, <1>6, <1>7, <1>8, <1>9 DEF TypeOK, clock

LEMMA ExposeFailType ==
    ASSUME TypeOK, NEW t \in Txns, ExposeFail(t)
    PROVE  TypeOK'
<1>1. UNCHANGED <<run, state, prog, pos, base, step, rset, wset, rstart,
                  wstart, deps, dirty, vdeps, todo, ix, ctid, clock, ver, seq, val,
                  list>>
  BY DEF ExposeFail, ReleaseAll, control, sets, waiting, record, ghost
<1>2. pc' \in [Txns -> Pcs]
  BY DEF TypeOK, ExposeFail, ReleaseAll, Goto, Pcs
<1>3. lock' \in [Keys -> Txns \cup {NoTxn}]
  BY DEF TypeOK, ExposeFail, ReleaseAll
<1>4. intent' \in [Keys -> BOOLEAN]
  BY DEF TypeOK, ExposeFail, ReleaseAll
<1>5. \A u \in Txns : PieceInSets(u)'
  BY <1>1 DEF TypeOK, PieceInSets
<1> QED
  BY <1>1, <1>2, <1>3, <1>4, <1>5 DEF TypeOK, clock

LEMMA UndoOneType ==
    ASSUME TypeOK, NEW t \in Txns, UndoOne(t)
    PROVE  TypeOK'
<1>1. UNCHANGED <<pc, run, state, prog, pos, base, step, rset, wset, rstart,
                  wstart, deps, dirty, vdeps, todo, ix, ctid, clock, lock, intent,
                  ver, seq, val>>
  BY DEF UndoOne, control, sets, waiting, record, ghost
<1>2. list' \in [Keys -> Seq(Entries)]
  <2>1. PICK i \in rstart[t]..Len(rset[t]) :
          list' = [list EXCEPT ![rset[t][i].key] = Unlink(list[rset[t][i].key], ReadEntry(t, i))]
    BY DEF UndoOne
  <2>2. i \in DOMAIN rset[t]
    BY DEF TypeOK, LinkedReads, LinkedWrites
  <2>3. rset[t][i].key \in Keys
    <3>1. rset[t] \in Seq(ReadRecords)
      BY DEF TypeOK
    <3>2. rset[t][i] \in ReadRecords
      BY <2>2, <3>1
    <3> QED
      BY <3>2 DEF ReadRecords
  <2>4. list[rset[t][i].key] \in Seq(Entries)
    BY <2>3 DEF TypeOK
  <2>5. Unlink(list[rset[t][i].key], ReadEntry(t, i)) \in Seq(Entries)
    BY <2>4, UnlinkType
  <2> QED
    BY <2>1, <2>3, <2>5 DEF TypeOK
<1>3. \A u \in Txns : PieceInSets(u)'
  BY <1>1 DEF TypeOK, PieceInSets
<1> QED
  BY <1>1, <1>2, <1>3 DEF TypeOK, clock

LEMMA RetryPieceType ==
    ASSUME TypeOK, NEW t \in Txns, RetryPiece(t)
    PROVE  TypeOK'
<1>1. UNCHANGED <<run, state, prog, base, step, rstart, wstart, vdeps, todo,
                  ix, ctid, clock, lock, intent, ver, seq, val, list>>
  BY DEF RetryPiece, control, sets, waiting, record, ghost
<1>2. pc' \in [Txns -> Pcs]
  BY DEF TypeOK, RetryPiece, Goto, Pcs
<1>3. rset' \in [Txns -> Seq(ReadRecords)]
  <2>1. SubSeq(rset[t], 1, rstart[t] - 1) \in Seq(ReadRecords)
    <3>1. \A i \in 1..(rstart[t] - 1) : rset[t][i] \in ReadRecords
      BY DEF TypeOK, PieceInSets
    <3>2. rstart[t] - 1 \in Int /\ 1 \in Int
      BY DEF TypeOK
    <3> QED
      BY <3>1, <3>2, SubSeqProperties
  <2> QED
    BY <2>1 DEF TypeOK, RetryPiece
<1>4. wset' \in [Txns -> Seq(WriteRecords)]
  <2>1. SubSeq(wset[t], 1, wstart[t] - 1) \in Seq(WriteRecords)
    <3>1. \A i \in 1..(wstart[t] - 1) : wset[t][i] \in WriteRecords
      BY DEF TypeOK, PieceInSets
    <3>2. wstart[t] - 1 \in Int /\ 1 \in Int
      BY DEF TypeOK
    <3> QED
      BY <3>1, <3>2, SubSeqProperties
  <2> QED
    BY <2>1 DEF TypeOK, RetryPiece
<1>5. deps' \in [Txns -> SUBSET RunTids]
  BY DEF TypeOK, RetryPiece
<1>6. dirty' \in [Txns -> SUBSET RunTids]
  BY DEF TypeOK, RetryPiece
<1>7. pos' \in [Txns -> Nat]
  BY DEF TypeOK, RetryPiece
<1>8. \A u \in Txns : PieceInSets(u)'
  <2>1. ASSUME NEW u \in Txns
        PROVE  PieceInSets(u)'
    <3>1. CASE u = t
      <4>1. /\ rstart'[t] = rstart[t] /\ wstart'[t] = wstart[t]
            /\ rset'[t] = SubSeq(rset[t], 1, rstart[t] - 1)
            /\ wset'[t] = SubSeq(wset[t], 1, wstart[t] - 1)
        BY DEF TypeOK, RetryPiece
      <4>2. /\ rset[t] \in Seq(ReadRecords) /\ wset[t] \in Seq(WriteRecords)
            /\ rstart[t] \in Nat \ {0} /\ wstart[t] \in Nat \ {0}
            /\ rstart[t] <= Len(rset[t]) + 1 /\ wstart[t] <= Len(wset[t]) + 1
        BY DEF TypeOK, PieceInSets
      <4>3. Len(rset'[t]) = rstart[t] - 1 /\ Len(wset'[t]) = wstart[t] - 1
        BY <4>1, <4>2, SubSeqProperties
      <4> QED
        BY <3>1, <4>1, <4>2, <4>3 DEF PieceInSets
    <3>2. CASE u # t
      <4>1. /\ rset'[u] = rset[u] /\ wset'[u] = wset[u]
            /\ rstart'[u] = rstart[u] /\ wstart'[u] = wstart[u]
        BY <3>2 DEF TypeOK, RetryPiece
      <4> QED
        BY <4>1 DEF TypeOK, PieceInSets
    <3> QED
      BY <3>1, <3>2
  <2> QED
    BY <2>1
<1> QED
  BY <1>1, <1>2, <1>3, <1>4, <1>5, <1>6, <1>7, <1>8 DEF TypeOK, clock

-----------------------------------------------------------------------------
(* commit.                                                                 *)

LEMMA StartCommitType ==
    ASSUME TypeOK, NEW t \in Txns, StartCommit(t)
    PROVE  TypeOK'
<1>1. UNCHANGED <<run, state, prog, pos, base, step, rset, wset, rstart,
                  wstart, vdeps, ix, ctid, clock, lock, intent, ver, seq, val, list>>
  BY DEF StartCommit, control, sets, waiting, record, ghost
<1>2. pc' \in [Txns -> Pcs]
  BY DEF TypeOK, StartCommit, Goto, Pcs
<1>3. deps' \in [Txns -> SUBSET RunTids]
  <2> DEFINE I == {i \in rstart[t]..Len(rset[t]) : ~rset[t][i].occ}
             D == UNION {ReadDeps(t, rset[t][i].key) : i \in I}
  <2>1. deps' = [deps EXCEPT ![t] = deps[t] \cup D]
    BY DEF StartCommit
  <2>2. D \subseteq RunTids
    BY PieceDepsType
  <2> HIDE DEF D
  <2>3. deps[t] \cup D \in SUBSET RunTids
    BY <2>2 DEF TypeOK
  <2> QED
    BY <2>1, <2>3 DEF TypeOK
<1>4. dirty' \in [Txns -> SUBSET RunTids]
  <2> DEFINE I == {i \in rstart[t]..Len(rset[t]) : ~rset[t][i].occ}
             D == UNION {ReadDeps(t, rset[t][i].key) : i \in I}
  <2>1. dirty' = [dirty EXCEPT ![t] = dirty[t] \cup D]
    BY DEF StartCommit
  <2>2. D \subseteq RunTids
    BY PieceDepsType
  <2> HIDE DEF D
  <2>3. dirty[t] \cup D \in SUBSET RunTids
    BY <2>2 DEF TypeOK
  <2> QED
    BY <2>1, <2>3 DEF TypeOK
<1>5. todo' \in [Txns -> SUBSET (RunTids \X Nat)]
  <2> DEFINE I == {i \in rstart[t]..Len(rset[t]) : ~rset[t][i].occ}
             D == UNION {ReadDeps(t, rset[t][i].key) : i \in I}
  <2>1. todo' = [todo EXCEPT ![t] = (deps[t] \cup D) \X {WAIT_DEP_COMMIT}]
    BY DEF StartCommit
  <2>2. D \subseteq RunTids
    BY PieceDepsType
  <2> HIDE DEF D
  <2>3. (deps[t] \cup D) \X {WAIT_DEP_COMMIT} \in SUBSET (RunTids \X Nat)
    BY <2>2 DEF TypeOK, WAIT_DEP_COMMIT
  <2> QED
    BY <2>1, <2>3 DEF TypeOK
<1>6. \A u \in Txns : PieceInSets(u)'
  BY <1>1 DEF TypeOK, PieceInSets
<1> QED
  BY <1>1, <1>2, <1>3, <1>4, <1>5, <1>6 DEF TypeOK, clock

LEMMA CommitWaitOneType ==
    ASSUME TypeOK, NEW t \in Txns, CommitWaitOne(t)
    PROVE  TypeOK'
<1>1. UNCHANGED <<pc, run, state, prog, pos, base, step, rset, wset, rstart,
                  wstart, deps, dirty, vdeps, ix, ctid, clock, lock, intent, ver, seq,
                  val, list>>
  BY DEF CommitWaitOne, control, sets, waiting, record, ghost
<1>2. todo' \in [Txns -> SUBSET (RunTids \X Nat)]
  <2>1. PICK x \in todo[t] : todo' = [todo EXCEPT ![t] = todo[t] \ {x}]
    BY DEF TypeOK, CommitWaitOne
  <2>2. todo[t] \ {x} \in SUBSET (RunTids \X Nat)
    BY DEF TypeOK
  <2> QED
    BY <2>1, <2>2 DEF TypeOK
<1>3. \A u \in Txns : PieceInSets(u)'
  BY <1>1 DEF TypeOK, PieceInSets
<1> QED
  BY <1>1, <1>2, <1>3 DEF TypeOK, clock

LEMMA CommitWaitFailType ==
    ASSUME TypeOK, NEW t \in Txns, CommitWaitFail(t)
    PROVE  TypeOK'
<1>1. UNCHANGED <<run, state, prog, pos, base, step, rset, wset, rstart,
                  wstart, deps, dirty, vdeps, todo, ix, ctid, clock, lock, intent,
                  ver, seq, val, list>>
  BY DEF CommitWaitFail, control, sets, waiting, record, ghost
<1>2. pc' \in [Txns -> Pcs]
  BY DEF TypeOK, CommitWaitFail, Goto, Pcs
<1>3. \A u \in Txns : PieceInSets(u)'
  BY <1>1 DEF TypeOK, PieceInSets
<1> QED
  BY <1>1, <1>2, <1>3 DEF TypeOK, clock

LEMMA CommitWaitEndType ==
    ASSUME TypeOK, NEW t \in Txns, CommitWaitEnd(t)
    PROVE  TypeOK'
<1>1. UNCHANGED <<run, prog, pos, base, step, rset, wset, rstart, wstart, deps,
                  dirty, vdeps, todo, ix, ctid, clock, lock, intent, ver, seq, val,
                  list>>
  BY DEF CommitWaitEnd, control, sets, waiting, record, ghost
<1>2. pc' \in [Txns -> Pcs]
  BY DEF TypeOK, CommitWaitEnd, Goto, Pcs
<1>3. state' \in [Txns -> States]
  BY DEF TypeOK, CommitWaitEnd, States
<1>4. \A u \in Txns : PieceInSets(u)'
  BY <1>1 DEF TypeOK, PieceInSets
<1> QED
  BY <1>1, <1>2, <1>3, <1>4 DEF TypeOK, clock

LEMMA LockWriteType ==
    ASSUME TypeOK, NEW t \in Txns, LockWrite(t)
    PROVE  TypeOK'
<1>1. UNCHANGED <<pc, run, state, prog, pos, base, step, rset, wset, rstart,
                  wstart, deps, dirty, vdeps, todo, ix, ctid, clock, ver, seq, val,
                  list>>
  BY DEF LockWrite, control, sets, waiting, record, ghost
<1>2. lock' \in [Keys -> Txns \cup {NoTxn}]
  BY DEF TypeOK, LockWrite
<1>3. intent' \in [Keys -> BOOLEAN]
  BY DEF TypeOK, LockWrite
<1>4. \A u \in Txns : PieceInSets(u)'
  BY <1>1 DEF TypeOK, PieceInSets
<1> QED
  BY <1>1, <1>2, <1>3, <1>4 DEF TypeOK, clock

LEMMA WritesLockedType ==
    ASSUME TypeOK, NEW t \in Txns, WritesLocked(t)
    PROVE  TypeOK'
<1>1. UNCHANGED <<run, state, prog, pos, base, step, rset, wset, rstart,
                  wstart, deps, dirty, vdeps, todo, ctid, clock, lock, intent, ver,
                  seq, val, list>>
  BY DEF WritesLocked, control, sets, waiting, record, ghost
<1>2. pc' \in [Txns -> Pcs]
  BY DEF TypeOK, WritesLocked, Goto, Pcs
<1>3. ix' \in [Txns -> Nat \ {0}]
  BY DEF TypeOK, WritesLocked
<1>4. \A u \in Txns : PieceInSets(u)'
  BY <1>1 DEF TypeOK, PieceInSets
<1> QED
  BY <1>1, <1>2, <1>3, <1>4 DEF TypeOK, clock

LEMMA ValidateCleanType ==
    ASSUME TypeOK, NEW t \in Txns, ValidateClean(t)
    PROVE  TypeOK'
<1>1. UNCHANGED <<pc, run, state, prog, pos, base, step, rset, wset, rstart,
                  wstart, deps, dirty, vdeps, todo, ctid, clock, lock, intent, ver,
                  seq, val, list>>
  BY DEF ValidateClean, control, sets, waiting, record, ghost
<1>2. ix' \in [Txns -> Nat \ {0}]
  BY DEF TypeOK, ValidateClean
<1>3. \A u \in Txns : PieceInSets(u)'
  BY <1>1 DEF TypeOK, PieceInSets
<1> QED
  BY <1>1, <1>2, <1>3 DEF TypeOK, clock

LEMMA ValidateDirtyType ==
    ASSUME TypeOK, NEW t \in Txns, ValidateDirty(t)
    PROVE  TypeOK'
<1>1. UNCHANGED <<run, state, prog, pos, base, step, rset, wset, rstart,
                  wstart, deps, dirty, vdeps, todo, ctid, clock, lock, intent, ver,
                  seq, val, list>>
  BY DEF ValidateDirty, control, sets, waiting, record, ghost
<1>2. pc' \in [Txns -> Pcs]
  <2>1. pc[t] \in {"validate", "vver", "vseq", "vint"}
    BY DEF ValidateDirty, DirtyTesting
  <2>2. NextTest(pc[t]) \in Pcs
    BY <2>1 DEF NextTest, Pcs
  <2> QED
    BY <2>2 DEF TypeOK, ValidateDirty, Goto
<1>3. ix' \in [Txns -> Nat \ {0}]
  BY DEF TypeOK, ValidateDirty
<1>4. \A u \in Txns : PieceInSets(u)'
  BY <1>1 DEF TypeOK, PieceInSets
<1> QED
  BY <1>1, <1>2, <1>3, <1>4 DEF TypeOK, clock

LEMMA ValidateFailType ==
    ASSUME TypeOK, NEW t \in Txns, ValidateFail(t)
    PROVE  TypeOK'
<1>1. UNCHANGED <<run, state, prog, pos, base, step, rset, wset, rstart,
                  wstart, deps, dirty, vdeps, todo, ix, ctid, clock, lock, intent,
                  ver, seq, val, list>>
  BY DEF ValidateFail, control, sets, waiting, record, ghost
<1>2. pc' \in [Txns -> Pcs]
  BY DEF TypeOK, ValidateFail, Goto, Pcs
<1>3. \A u \in Txns : PieceInSets(u)'
  BY <1>1 DEF TypeOK, PieceInSets
<1> QED
  BY <1>1, <1>2, <1>3 DEF TypeOK, clock

LEMMA ValidatedType ==
    ASSUME TypeOK, NEW t \in Txns, Validated(t)
    PROVE  TypeOK'
<1>1. UNCHANGED <<run, state, prog, pos, base, step, rset, wset, rstart,
                  wstart, deps, dirty, vdeps, todo, ctid, tick, region, lock,
                  intent, ver, seq, val, list>>
  BY DEF Validated, control, sets, waiting, record, ghost
<1>2. pc' \in [Txns -> Pcs]
  <2>1. CASE wset[t] = <<>>
    <3>1. pc' = [pc EXCEPT ![t] = "install"]
      BY <2>1 DEF Validated, Goto
    <3> QED
      BY <3>1 DEF TypeOK, Pcs
  <2>2. CASE wset[t] # <<>>
    <3>1. pc' = [pc EXCEPT ![t] = "gen"]
      BY <2>2 DEF Validated, Goto
    <3> QED
      BY <3>1 DEF TypeOK, Pcs
  <2> QED
    BY <2>1, <2>2
<1>3. epoch' \in [Txns -> Nat]
  <2>1. CASE wset[t] = <<>>
    BY <2>1 DEF TypeOK, Validated
  <2>2. CASE wset[t] # <<>>
    <3>1. epoch' = [epoch EXCEPT ![t] = tick]
      BY <2>2 DEF Validated
    <3> QED
      BY <3>1 DEF TypeOK
  <2> QED
    BY <2>1, <2>2
<1>4. ret' \in [Txns -> CommitTids]
  <2>1. ctid[t] \in CommitTids /\ MakeTid(NoTxn, 0, tick) \in CommitTids
    BY CommitTidsType DEF TypeOK
  <2> QED
    BY <2>1 DEF TypeOK, Validated
<1>5. ix' \in [Txns -> Nat \ {0}]
  BY DEF TypeOK, Validated
<1>6. \A u \in Txns : PieceInSets(u)'
  BY <1>1 DEF TypeOK, PieceInSets
<1> QED
  BY <1>1, <1>2, <1>3, <1>4, <1>5, <1>6 DEF TypeOK

LEMMA ValidatedIs ==
    ASSUME NEW t \in Txns, Validated(t)
    PROVE  /\ pc[t] = "validate" /\ ix[t] > Len(rset[t])
           /\ pc' = [pc EXCEPT ![t] = IF wset[t] = <<>> THEN "install" ELSE "gen"]
           /\ ix' = [ix EXCEPT ![t] = 1]
           /\ UNCHANGED <<run, state, prog, pos, base, step, sets, waiting, ctid,
                          tick, region, lock, intent, record, list, ghost>>
<1>1. CASE wset[t] = <<>>
  BY <1>1 DEF Validated, Goto
<1>2. CASE wset[t] # <<>>
  BY <1>2 DEF Validated, Goto
<1> QED
  BY <1>1, <1>2

(* What the loop of gen_commit_tid looks at are commit ids.                *)
LEMMA SeenType ==
    ASSUME TypeOK, NEW t \in Txns, ix[t] <= Len(rset[t])
    PROVE  Current(t) \in ReadRecords /\ SeenTid(Current(t)) \in CommitTids
<1>1. Current(t) \in ReadRecords
  BY DEF TypeOK, Current
<1> QED
  BY <1>1 DEF SeenTid, ReadRecords, TypeOK

LEMMA GenReadType ==
    ASSUME TypeOK, NEW t \in Txns, GenRead(t)
    PROVE  TypeOK'
<1>1. UNCHANGED <<pc, run, state, prog, pos, base, step, rset, wset, rstart,
                  wstart, deps, dirty, vdeps, todo, ctid, tick, region, epoch,
                  lock, intent, ver, seq, val, list>>
  BY DEF GenRead, control, sets, waiting, record, ghost
<1>2. ret' \in [Txns -> CommitTids]
  <2>1. SeenTid(Current(t)) \in CommitTids
    BY SeenType DEF GenRead
  <2>2. Later(ret[t], SeenTid(Current(t))) \in CommitTids
    BY <2>1 DEF TypeOK, Later
  <2> QED
    BY <2>2 DEF TypeOK, GenRead
<1>3. ix' \in [Txns -> Nat \ {0}]
  BY DEF TypeOK, GenRead
<1>4. \A u \in Txns : PieceInSets(u)'
  BY <1>1 DEF TypeOK, PieceInSets
<1> QED
  BY <1>1, <1>2, <1>3, <1>4 DEF TypeOK

LEMMA SeedsType ==
    ASSUME TypeOK, NEW t \in Txns
    PROVE  WriteKeys(t, 1) \subseteq Keys /\ Seeds(t) \subseteq CommitTids
<1>1. WriteKeys(t, 1) \subseteq Keys
  <2>1. \A i \in 1..Len(wset[t]) : wset[t][i] \in WriteRecords
    BY DEF TypeOK
  <2> QED
    BY <2>1 DEF WriteKeys, WriteRecords
<1> QED
  BY <1>1 DEF Seeds, TypeOK

(* Both ways of drawing the id.                                            *)
Draw(t) == \E r \in Seeds(t) : DrawTid(t, r)

LEMMA Draws ==
    ASSUME NEW t \in Txns, GenCommitTid(t) \/ GenCommitTidOvertaken(t)
    PROVE  Draw(t)
BY DEF GenCommitTid, GenCommitTidOvertaken, Draw

LEMMA DrawType ==
    ASSUME TypeOK, NEW t \in Txns, Draw(t)
    PROVE  TypeOK'
<1>1. PICK r \in Seeds(t) : DrawTid(t, r)
  BY DEF Draw
<1>2. UNCHANGED <<run, state, prog, pos, base, step, rset, wset, rstart,
                  wstart, deps, dirty, vdeps, todo, tick, region, epoch, lock,
                  intent, ver, seq, val, list>>
  BY <1>1 DEF DrawTid, control, sets, waiting, record, ghost
<1>3. pc' \in [Txns -> Pcs]
  BY <1>1 DEF TypeOK, DrawTid, Goto, Pcs
<1>4. r \in CommitTids
  BY SeedsType
<1>5. ret' \in [Txns -> CommitTids]
  BY <1>1, <1>4 DEF TypeOK, DrawTid
<1>6. ctid' \in [Txns -> CommitTids]
  <2> DEFINE n == NumId(r) + 1
  <2>1. NumId(r) \in Nat
    BY <1>4, TidParts
  <2>2. n \in Nat /\ epoch[t] \in Nat
    BY <2>1 DEF TypeOK
  <2> HIDE DEF n
  <2>3. MakeTid(t, n, epoch[t]) \in CommitTids
    BY <2>2, CommitTidsType
  <2>4. ctid' = [ctid EXCEPT ![t] = MakeTid(t, n, epoch[t])]
    BY <1>1 DEF DrawTid, n
  <2> QED
    BY <2>3, <2>4 DEF TypeOK
<1>7. ix' \in [Txns -> Nat \ {0}]
  BY <1>1 DEF TypeOK, DrawTid
<1>8. \A u \in Txns : PieceInSets(u)'
  BY <1>2 DEF TypeOK, PieceInSets
<1> QED
  BY <1>2, <1>3, <1>5, <1>6, <1>7, <1>8 DEF TypeOK

LEMMA SkipWriteType ==
    ASSUME TypeOK, NEW t \in Txns, SkipWrite(t)
    PROVE  TypeOK'
<1>1. UNCHANGED <<pc, run, state, prog, pos, base, step, rset, wset, rstart,
                  wstart, deps, dirty, vdeps, todo, ctid, clock, lock, intent, ver,
                  seq, val>>
  BY DEF SkipWrite, control, sets, waiting, record, ghost
<1>2. ix' \in [Txns -> Nat \ {0}]
  BY DEF TypeOK, SkipWrite
<1>3. list' \in [Keys -> Seq(Entries)]
  <2> DEFINE k == wset[t][ix[t]].key
  <2>1. list' = [list EXCEPT ![k] = UnlinkWrite(t, ix[t], list[k])]
    BY DEF SkipWrite
  <2>2. k \in Keys
    BY WriteIndex DEF SkipWrite
  <2>3. list[k] \in Seq(Entries)
    BY <2>2 DEF TypeOK
  <2>4. UnlinkWrite(t, ix[t], list[k]) \in Seq(Entries)
    BY <2>3, UnlinkType DEF UnlinkWrite
  <2> HIDE DEF k
  <2> QED
    BY <2>1, <2>2, <2>4 DEF TypeOK
<1>4. \A u \in Txns : PieceInSets(u)'
  BY <1>1 DEF TypeOK, PieceInSets
<1> QED
  BY <1>1, <1>2, <1>3, <1>4 DEF TypeOK, clock

LEMMA InstallWriteType ==
    ASSUME TypeOK, NEW t \in Txns, InstallWrite(t)
    PROVE  TypeOK'
<1>1. UNCHANGED <<run, state, prog, pos, base, step, rset, wset, rstart,
                  wstart, deps, dirty, vdeps, todo, ix, ctid, clock, lock, intent,
                  seq, list>>
  BY DEF InstallWrite, control, sets, waiting, record, ghost
<1>2. pc' \in [Txns -> Pcs]
  BY DEF TypeOK, InstallWrite, Goto, Pcs
<1>3. ver' \in [Keys -> CommitTids]
  <2>1. PICK k \in Keys : ver' = [ver EXCEPT ![k] = ctid[t]]
    <3>1. wset[t][ix[t]] \in WriteRecords
      BY DEF TypeOK, InstallWrite
    <3> QED
      BY <3>1 DEF InstallWrite, WriteRecords
  <2>2. ctid[t] \in CommitTids
    BY TidsType DEF TypeOK
  <2> QED
    BY <2>1, <2>2 DEF TypeOK
<1>4. val' \in [Keys -> Values]
  <2>1. PICK k \in Keys : val' = [val EXCEPT ![k] = [tid |-> Tid(t), ix |-> ix[t]]]
    <3>1. wset[t][ix[t]] \in WriteRecords
      BY DEF TypeOK, InstallWrite
    <3> QED
      BY <3>1 DEF InstallWrite, WriteRecords
  <2>2. [tid |-> Tid(t), ix |-> ix[t]] \in Values
    BY TidsType DEF TypeOK, Tid, RunTids, Values
  <2> QED
    BY <2>1, <2>2 DEF TypeOK
<1>5. \A u \in Txns : PieceInSets(u)'
  BY <1>1 DEF TypeOK, PieceInSets
<1> QED
  BY <1>1, <1>2, <1>3, <1>4, <1>5 DEF TypeOK, clock

LEMMA ReleaseWriteType ==
    ASSUME TypeOK, NEW t \in Txns, ReleaseWrite(t)
    PROVE  TypeOK'
<1>1. UNCHANGED <<run, state, prog, pos, base, step, rset, wset, rstart,
                  wstart, deps, dirty, vdeps, todo, ctid, clock, ver, val>>
  BY DEF ReleaseWrite, control, sets, waiting, record, ghost
<1>2. pc' \in [Txns -> Pcs]
  BY DEF TypeOK, ReleaseWrite, Goto, Pcs
<1>3. ix' \in [Txns -> Nat \ {0}]
  BY DEF TypeOK, ReleaseWrite
<1>4. list' \in [Keys -> Seq(Entries)]
  <2> DEFINE k == wset[t][ix[t]].key
  <2>1. list' = [list EXCEPT ![k] = UnlinkWrite(t, ix[t], list[k])]
    BY DEF ReleaseWrite
  <2>2. k \in Keys
    BY WriteIndex DEF ReleaseWrite
  <2>3. list[k] \in Seq(Entries)
    BY <2>2 DEF TypeOK
  <2>4. UnlinkWrite(t, ix[t], list[k]) \in Seq(Entries)
    BY <2>3, UnlinkType DEF UnlinkWrite
  <2> HIDE DEF k
  <2> QED
    BY <2>1, <2>2, <2>4 DEF TypeOK
<1>5. seq' \in [Keys -> Nat]
  BY DEF TypeOK, ReleaseWrite
<1>6. lock' \in [Keys -> Txns \cup {NoTxn}]
  BY DEF TypeOK, ReleaseWrite
<1>7. intent' \in [Keys -> BOOLEAN]
  BY DEF TypeOK, ReleaseWrite
<1>8. \A u \in Txns : PieceInSets(u)'
  BY <1>1 DEF TypeOK, PieceInSets
<1> QED
  BY <1>1, <1>2, <1>3, <1>4, <1>5, <1>6, <1>7, <1>8 DEF TypeOK, clock

LEMMA InstalledType ==
    ASSUME TypeOK, NEW t \in Txns, Installed(t)
    PROVE  TypeOK'
<1>1. UNCHANGED <<run, state, prog, pos, base, step, rset, wset, rstart,
                  wstart, deps, dirty, vdeps, todo, ix, ctid, clock, lock, intent,
                  ver, seq, val, list>>
  BY DEF Installed, control, sets, waiting, record, ghost
<1>2. pc' \in [Txns -> Pcs]
  BY DEF TypeOK, Installed, Goto, Pcs
<1>3. \A u \in Txns : PieceInSets(u)'
  BY <1>1 DEF TypeOK, PieceInSets
<1> QED
  BY <1>1, <1>2, <1>3 DEF TypeOK, clock

LEMMA UnlinkReadType ==
    ASSUME TypeOK, NEW t \in Txns, UnlinkRead(t)
    PROVE  TypeOK'
<1>1. UNCHANGED <<pc, run, state, prog, pos, base, step, rset, wset, rstart,
                  wstart, deps, dirty, vdeps, todo, ix, ctid, clock, lock, intent,
                  ver, seq, val>>
  BY DEF UnlinkRead, control, sets, waiting, record, ghost
<1>2. list' \in [Keys -> Seq(Entries)]
  <2>1. PICK i \in LinkedReads(t, 1) :
          list' = [list EXCEPT ![rset[t][i].key] = Unlink(list[rset[t][i].key], ReadEntry(t, i))]
    BY DEF UnlinkRead
  <2>2. i \in DOMAIN rset[t]
    BY DEF TypeOK, LinkedReads, LinkedWrites
  <2>3. rset[t][i].key \in Keys
    <3>1. rset[t] \in Seq(ReadRecords)
      BY DEF TypeOK
    <3>2. rset[t][i] \in ReadRecords
      BY <2>2, <3>1
    <3> QED
      BY <3>2 DEF ReadRecords
  <2>4. list[rset[t][i].key] \in Seq(Entries)
    BY <2>3 DEF TypeOK
  <2>5. Unlink(list[rset[t][i].key], ReadEntry(t, i)) \in Seq(Entries)
    BY <2>4, UnlinkType
  <2> QED
    BY <2>1, <2>3, <2>5 DEF TypeOK
<1>3. \A u \in Txns : PieceInSets(u)'
  BY <1>1 DEF TypeOK, PieceInSets
<1> QED
  BY <1>1, <1>2, <1>3 DEF TypeOK, clock

LEMMA FinishType ==
    ASSUME TypeOK, NEW t \in Txns, Finish(t)
    PROVE  TypeOK'
<1>1. UNCHANGED <<run, prog, pos, base, step, rset, wset, rstart, wstart, deps,
                  dirty, vdeps, todo, ix, ctid, tick, epoch,
                  lock, intent, ver, seq, val,
                  list>>
  BY DEF Finish, control, sets, waiting, record, ghost
<1>2. pc' \in [Txns -> Pcs]
  BY DEF TypeOK, Finish, Goto, Pcs
<1>3. state' \in [Txns -> States]
  BY DEF TypeOK, Finish, States
<1>4. \A u \in Txns : PieceInSets(u)'
  BY <1>1 DEF TypeOK, PieceInSets
<1>5. region' \in [Txns -> Nat] /\ ret' \in [Txns -> CommitTids]
  BY CommitTidsType DEF TypeOK, Finish, LeaveRegion, None
<1> QED
  BY <1>1, <1>2, <1>3, <1>4, <1>5 DEF TypeOK

-----------------------------------------------------------------------------
(* chamcc_abort_impl.                                                      *)

LEMMA AbortUnlockType ==
    ASSUME TypeOK, NEW t \in Txns, AbortUnlock(t)
    PROVE  TypeOK'
<1>1. UNCHANGED <<run, state, prog, pos, base, step, rset, wset, rstart,
                  wstart, deps, dirty, vdeps, todo, ix, ctid, clock, ver, seq, val,
                  list>>
  BY DEF AbortUnlock, ReleaseAll, control, sets, waiting, record, ghost
<1>2. pc' \in [Txns -> Pcs]
  BY DEF TypeOK, AbortUnlock, ReleaseAll, Goto, Pcs
<1>3. lock' \in [Keys -> Txns \cup {NoTxn}]
  BY DEF TypeOK, AbortUnlock, ReleaseAll
<1>4. intent' \in [Keys -> BOOLEAN]
  BY DEF TypeOK, AbortUnlock, ReleaseAll
<1>5. \A u \in Txns : PieceInSets(u)'
  BY <1>1 DEF TypeOK, PieceInSets
<1> QED
  BY <1>1, <1>2, <1>3, <1>4, <1>5 DEF TypeOK, clock

LEMMA AbortUnlinkWriteType ==
    ASSUME TypeOK, NEW t \in Txns, AbortUnlinkWrite(t)
    PROVE  TypeOK'
<1>1. UNCHANGED <<pc, run, state, prog, pos, base, step, rset, wset, rstart,
                  wstart, deps, dirty, vdeps, todo, ix, ctid, clock, lock, intent,
                  ver, seq, val>>
  BY DEF AbortUnlinkWrite, control, sets, waiting, record, ghost
<1>2. list' \in [Keys -> Seq(Entries)]
  <2>1. PICK i \in LinkedWrites(t) :
          list' = [list EXCEPT ![wset[t][i].key] = UnlinkWrite(t, i, list[wset[t][i].key])]
    BY DEF AbortUnlinkWrite
  <2>2. i \in DOMAIN wset[t]
    BY DEF TypeOK, LinkedReads, LinkedWrites
  <2>3. wset[t][i].key \in Keys
    <3>1. wset[t] \in Seq(WriteRecords)
      BY DEF TypeOK
    <3>2. wset[t][i] \in WriteRecords
      BY <2>2, <3>1
    <3> QED
      BY <3>2 DEF WriteRecords
  <2>4. list[wset[t][i].key] \in Seq(Entries)
    BY <2>3 DEF TypeOK
  <2>5. UnlinkWrite(t, i, list[wset[t][i].key]) \in Seq(Entries)
    BY <2>4, UnlinkType DEF UnlinkWrite
  <2> QED
    BY <2>1, <2>3, <2>5 DEF TypeOK
<1>3. \A u \in Txns : PieceInSets(u)'
  BY <1>1 DEF TypeOK, PieceInSets
<1> QED
  BY <1>1, <1>2, <1>3 DEF TypeOK, clock

LEMMA AbortedType ==
    ASSUME TypeOK, NEW t \in Txns, Aborted(t)
    PROVE  TypeOK'
<1>1. UNCHANGED <<run, prog, pos, base, step, rset, wset, rstart, wstart, deps,
                  dirty, vdeps, todo, ix, ctid, tick, epoch,
                  ret, lock, intent, ver, seq, val,
                  list>>
  BY DEF Aborted, control, sets, waiting, record, ghost
<1>2. pc' \in [Txns -> Pcs]
  BY DEF TypeOK, Aborted, Goto, Pcs
<1>3. state' \in [Txns -> States]
  BY DEF TypeOK, Aborted, States
<1>4. \A u \in Txns : PieceInSets(u)'
  BY <1>1 DEF TypeOK, PieceInSets
<1>5. region' \in [Txns -> Nat]
  BY DEF TypeOK, Aborted, LeaveRegion, None
<1> QED
  BY <1>1, <1>2, <1>3, <1>4, <1>5 DEF TypeOK
-----------------------------------------------------------------------------
LEMMA ExecuteType ==
    ASSUME TypeOK, NEW t \in Txns, Execute(t)
    PROVE  TypeOK'
BY NewTidType, StartWaitType, WaitOneType, WaitEndType, WaitThrowType,
   GetType, PutType, UpdateType, NoPieceEndType, PieceEndType, UserAbortType DEF Execute

LEMMA ExposeType ==
    ASSUME TypeOK, NEW t \in Txns, Expose(t)
    PROVE  TypeOK'
BY ExposeLockType, CheckRmwType, ExposeReadType, ReadsExposedType,
   ExposeWriteType, ExposeDoneType, ExposeFailType, UndoOneType,
   RetryPieceType DEF Expose

LEMMA CommitType ==
    ASSUME TypeOK, NEW t \in Txns, Commit(t)
    PROVE  TypeOK'
BY StartCommitType, CommitWaitOneType, CommitWaitFailType, CommitWaitEndType,
   LockWriteType, WritesLockedType, ValidateCleanType, ValidateDirtyType,
   ValidateFailType, ValidatedType, GenReadType, Draws, DrawType, SkipWriteType,
   InstallWriteType, ReleaseWriteType, InstalledType, UnlinkReadType, FinishType
   DEF Commit

LEMMA AbortType ==
    ASSUME TypeOK, NEW t \in Txns, Abort(t)
    PROVE  TypeOK'
BY AbortUnlockType, AbortUnlinkWriteType, AbortedType DEF Abort

(* Every step keeps the types.                                             *)
LEMMA NextType == TypeOK /\ [Next]_vars => TypeOK'
<1> SUFFICES ASSUME TypeOK, [Next]_vars
             PROVE  TypeOK'
  OBVIOUS
<1>1. CASE UNCHANGED vars
  <2>1. UNCHANGED <<pc, run, state, prog, pos, base, step, rset, wset, rstart,
                    wstart, deps, dirty, vdeps, todo, ix, ctid, clock, lock, intent,
                    ver, seq, val, list>>
    BY <1>1 DEF vars, control, sets, waiting, record
  <2>2. \A t \in Txns : PieceInSets(t)'
    BY <2>1 DEF TypeOK, PieceInSets
  <2> QED
    BY <2>1, <2>2 DEF TypeOK, clock
<1>2. ASSUME NEW t \in Txns, Begin(t) \/ Execute(t) \/ Expose(t) \/ Commit(t) \/ Abort(t)
      PROVE  TypeOK'
  BY <1>2, BeginType, ExecuteType, ExposeType, CommitType, AbortType
<1>3. CASE Tick
  <2>1. UNCHANGED <<pc, run, state, prog, pos, base, step, rset, wset, rstart,
                    wstart, deps, dirty, vdeps, todo, ix, ctid, region, epoch,
                    ret, lock, intent, ver, seq, val, list>>
    BY <1>3 DEF Tick, control, sets, waiting, record
  <2>2. \A t \in Txns : PieceInSets(t)'
    BY <2>1 DEF TypeOK, PieceInSets
  <2>3. tick' \in Nat
    BY <1>3 DEF TypeOK, Tick
  <2> QED
    BY <2>1, <2>2, <2>3 DEF TypeOK
<1> QED
  BY <1>1, <1>2, <1>3 DEF Next, Stop

(* The state of every transaction object and of every record keeps its     *)
(* type, and the unexposed piece stays within the access sets, however the *)
(* policy, the programs and the schedule go.                               *)
THEOREM TypeCorrect == Spec => []TypeOK
<1>1. Init => TypeOK
  BY InitType
<1>2. TypeOK /\ [Next]_vars => TypeOK'
  BY NextType
<1> QED
  BY <1>1, <1>2, PTL DEF Spec

-----------------------------------------------------------------------------
(* Who holds which lock when.                                              *)

(* The inductive invariant, for each transaction by what it is doing.      *)
Unlocked == {"idle", "ctor", "exec", "wait", "access", "piece", "pwait", "undo",
             "cwait", "cleanup", "aunlink"}
Exposing == {"elock", "eread", "ewrite"}
Validating == {"validate", "vver", "vseq", "vint", "gen"}
Installing == {"install", "release"}

(* Until it has its commit id it holds its whole write set; while it       *)
(* installs, all that is still to be installed.                            *)
ToInstall(t) == {j \in ix[t]..Len(wset[t]) : DoWrite(t, j)}
TxnInv(t) ==
    /\ pc[t] \in Unlocked => Held(t) = {}
    /\ pc[t] \in Exposing =>
          \A k \in Held(t) : ~intent[k] /\ k \in PieceKeys(t)
    /\ pc[t] \in Validating \cup {"clock", "aunlock"} =>
          \A k \in Held(t) : intent[k] /\ k \in WriteKeys(t, 1)
    /\ pc[t] \in Validating => WriteKeys(t, 1) \subseteq Held(t)
    /\ pc[t] \in Installing =>
          /\ \A k \in Held(t) : intent[k] /\ k \in WriteKeys(t, ix[t])
          /\ \A j \in ToInstall(t) : wset[t][j].key \in Held(t)
    /\ pc[t] = "release" => ix[t] \in ToInstall(t)

IntentInv == \A k \in Keys : intent[k] => lock[k] # NoTxn
LockInv == IntentInv /\ \A t \in Txns : TxnInv(t)

(* What the invariants read of u's own state.                              *)
Local(u) == <<pc[u], ix[u], rset[u], wset[u], rstart[u], wstart[u], ctid[u],
              epoch[u], ret[u]>>

(* A step that leaves u and the records it has locked alone.               *)
LEMMA OtherTxn ==
    ASSUME NEW u \in Txns, TxnInv(u), Local(u)' = Local(u),
           \A k \in Keys : lock'[k] = u <=> lock[k] = u,
           \A k \in Held(u) : intent'[k] = intent[k]
    PROVE  TxnInv(u)'
<1>1. Held(u)' = Held(u)
  BY DEF Held
<1>2. /\ pc'[u] = pc[u] /\ ix'[u] = ix[u] /\ rset'[u] = rset[u]
      /\ wset'[u] = wset[u] /\ rstart'[u] = rstart[u]
      /\ wstart'[u] = wstart[u]
  BY DEF Local
<1>3. PieceKeys(u)' = PieceKeys(u) /\ WriteKeys(u, 1)' = WriteKeys(u, 1)
      /\ WriteKeys(u, ix[u])' = WriteKeys(u, ix[u])
  BY <1>2 DEF PieceKeys, ReadKeys, WriteKeys
<1>4. ToInstall(u)' = ToInstall(u)
  BY <1>2 DEF ToInstall, DoWrite
<1> QED
  BY <1>1, <1>2, <1>3, <1>4 DEF TxnInv

(* A step of t that neither has nor takes locks.                           *)
LEMMA UnlockedStep ==
    ASSUME LockInv, NEW t \in Txns, pc[t] \in Unlocked,
           pc'[t] \in Unlocked \cup {"elock", "clock"},
           UNCHANGED <<lock, intent>>,
           \A u \in Txns \ {t} : Local(u)' = Local(u)
    PROVE  LockInv'
<1>1. IntentInv'
  BY DEF LockInv, IntentInv
<1>2. TxnInv(t)'
  <2>1. Held(t)' = {}
    BY DEF LockInv, TxnInv, Held
  <2> QED
    BY <2>1 DEF TxnInv, Unlocked, Exposing, Validating, Installing
<1>3. ASSUME NEW u \in Txns, u # t PROVE TxnInv(u)'
  BY <1>3, OtherTxn DEF LockInv
<1> QED
  BY <1>1, <1>2, <1>3 DEF LockInv

(* The steps of t between its critical sections.                           *)
LEMMA UnlockedSteps ==
    ASSUME TypeOK, LockInv, NEW t \in Txns,
           \/ Begin(t) \/ Execute(t) \/ UndoOne(t) \/ RetryPiece(t)
           \/ StartCommit(t) \/ CommitWaitOne(t) \/ CommitWaitFail(t)
           \/ CommitWaitEnd(t) \/ UnlinkRead(t) \/ Finish(t)
           \/ AbortUnlinkWrite(t) \/ Aborted(t)
    PROVE  LockInv'
<1> DEFINE Quiet ==
      /\ pc[t] \in Unlocked /\ pc'[t] \in Unlocked \cup {"elock", "clock"}
      /\ UNCHANGED <<lock, intent>>
      /\ \A u \in Txns \ {t} : Local(u)' = Local(u)
<1>0. SUFFICES Quiet
  BY UnlockedStep
<1> USE DEF TypeOK, Goto, Unlocked, Local, control, sets, waiting, clock, record, ghost
<1>1. CASE Begin(t)
  BY <1>1 DEF Begin
<1>2. CASE NewTid(t)
  BY <1>2 DEF NewTid
<1>3. CASE StartWait(t)
  BY <1>3 DEF StartWait
<1>4. CASE WaitOne(t)
  BY <1>4 DEF WaitOne
<1>5. CASE WaitEnd(t)
  BY <1>5 DEF WaitEnd
<1>6. CASE WaitThrow(t)
  BY <1>6 DEF WaitThrow
<1>7. CASE Get(t)
  BY <1>7 DEF Get, Accessing, AddCleanRead, AddDirtyRead
<1>8. CASE Put(t)
  BY <1>8 DEF Put, Accessing, AddWrite
<1>9. CASE Update(t)
  BY <1>9 DEF Update, Accessing, AddCleanRead, AddDirtyRead, AddWrite
<1>10. CASE NoPieceEnd(t)
  BY <1>10 DEF NoPieceEnd
<1>11. CASE PieceEnd(t)
  BY <1>11 DEF PieceEnd
<1>12. CASE UserAbort(t)
  BY <1>12 DEF UserAbort
<1>13. CASE UndoOne(t)
  BY <1>13 DEF UndoOne
<1>14. CASE RetryPiece(t)
  BY <1>14 DEF RetryPiece
<1>15. CASE StartCommit(t)
  BY <1>15 DEF StartCommit
<1>16. CASE CommitWaitOne(t)
  BY <1>16 DEF CommitWaitOne
<1>17. CASE CommitWaitFail(t)
  BY <1>17 DEF CommitWaitFail
<1>18. CASE CommitWaitEnd(t)
  BY <1>18 DEF CommitWaitEnd
<1>19. CASE UnlinkRead(t)
  BY <1>19 DEF UnlinkRead
<1>20. CASE Finish(t)
  BY <1>20 DEF Finish
<1>21. CASE AbortUnlinkWrite(t)
  BY <1>21 DEF AbortUnlinkWrite
<1>22. CASE Aborted(t)
  BY <1>22 DEF Aborted
<1> QED
  BY <1>1, <1>2, <1>3, <1>4, <1>5, <1>6, <1>7, <1>8, <1>9, <1>10, <1>11, <1>12, <1>13, <1>14, <1>15, <1>16, <1>17, <1>18, <1>19, <1>20, <1>21, <1>22 DEF Execute

-----------------------------------------------------------------------------
(* The steps of a transaction that holds or takes locks.                   *)

(* It is enough to look at t if the step keeps to t's own locks.           *)
LEMMA LockedStep ==
    ASSUME LockInv, NEW t \in Txns, IntentInv', TxnInv(t)',
           \A u \in Txns \ {t} :
              /\ Local(u)' = Local(u)
              /\ \A k \in Keys : lock'[k] = u <=> lock[k] = u
              /\ \A k \in Held(u) : intent'[k] = intent[k]
    PROVE  LockInv'
<1>1. ASSUME NEW u \in Txns, u # t PROVE TxnInv(u)'
  BY <1>1, OtherTxn DEF LockInv
<1> QED
  BY <1>1 DEF LockInv

LEMMA KeepLocks ==
    ASSUME LockInv, NEW t \in Txns, TxnInv(t)', UNCHANGED <<lock, intent>>,
           \A u \in Txns \ {t} : Local(u)' = Local(u)
    PROVE  LockInv'
<1>1. IntentInv'
  BY DEF LockInv, IntentInv
<1> QED
  BY <1>1, LockedStep

LEMMA ExposeLockLocks ==
    ASSUME TypeOK, LockInv, NEW t \in Txns, ExposeLock(t)
    PROVE  LockInv'
<1>1. PICK k \in Keys : /\ k \in PieceKeys(t) /\ lock[k] = NoTxn
                        /\ lock' = [lock EXCEPT ![k] = t]
  BY DEF ExposeLock, IsFirst
<1>2. /\ pc[t] = "elock" /\ UNCHANGED <<pc, ix, rset, wset, rstart, wstart, ctid, clock>>
      /\ UNCHANGED intent
  BY DEF ExposeLock, control, sets
<1>3. NoTxn \notin Txns
  BY TxnsAssumption DEF NoTxn
<1>4. IntentInv'
  BY <1>1, <1>2, <1>3 DEF LockInv, IntentInv, TypeOK
<1>5. TxnInv(t)'
  <2>1. Held(t)' = Held(t) \cup {k} /\ ~intent[k]
    BY <1>1 DEF Held, TypeOK, LockInv, IntentInv
  <2>2. PieceKeys(t)' = PieceKeys(t)
    BY <1>2 DEF PieceKeys, ReadKeys, WriteKeys
  <2> QED
    BY <1>1, <1>2, <2>1, <2>2
       DEF LockInv, TxnInv, Unlocked, Exposing, Validating, Installing
<1>6. ASSUME NEW u \in Txns \ {t}
      PROVE  /\ Local(u)' = Local(u)
             /\ \A j \in Keys : lock'[j] = u <=> lock[j] = u
             /\ \A j \in Held(u) : intent'[j] = intent[j]
  BY <1>1, <1>2, <1>3 DEF Local, clock, TypeOK
<1> QED
  BY <1>4, <1>5, <1>6, LockedStep

(* check_rmw keeps the length of the sets and the records they name.       *)
LEMMA CheckRmwKeys ==
    ASSUME TypeOK, NEW t \in Txns, CheckRmw(t)
    PROVE  /\ PieceKeys(t)' = PieceKeys(t)
           /\ \A u \in Txns \ {t} : rset'[u] = rset[u] /\ wset'[u] = wset[u]
<1>1. /\ wset[t] \in Seq(WriteRecords) /\ rset[t] \in Seq(ReadRecords)
      /\ wstart[t] \in Nat \ {0} /\ rstart[t] \in Nat \ {0}
  BY DEF TypeOK
<1>2. /\ rstart' = rstart /\ wstart' = wstart
      /\ \E w, r : wset' = [wset EXCEPT ![t] = w] /\ rset' = [rset EXCEPT ![t] = r]
  BY DEF CheckRmw
<1>3. Len(wset'[t]) = Len(wset[t]) /\ Len(rset'[t]) = Len(rset[t])
  <2>1. PICK w \in Seq(WriteRecords), r \in Seq(ReadRecords) :
          /\ wset' = [wset EXCEPT ![t] = w] /\ Len(w) = Len(wset[t])
          /\ rset' = [rset EXCEPT ![t] = r] /\ Len(r) = Len(rset[t])
    BY CheckRmwSets
  <2> QED
    BY <2>1 DEF TypeOK
<1>4. ASSUME NEW i \in DOMAIN wset[t] PROVE wset'[t][i].key = wset[t][i].key
  <2>1. wset[t][i] \in WriteRecords
    BY <1>1
  <2>2. wset'[t][i] = IF i < wstart[t] THEN wset[t][i]
             ELSE [wset[t][i] EXCEPT !.re = FirstRead(t, wset[t][i].key)]
    BY DEF CheckRmw, TypeOK
  <2> QED
    BY <2>1, <2>2 DEF WriteRecords
<1>5. ASSUME NEW i \in DOMAIN rset[t] PROVE rset'[t][i].key = rset[t][i].key
  <2>1. rset[t][i] \in ReadRecords
    BY <1>1
  <2>2. rset'[t][i] \in {rset[t][i], [rset[t][i] EXCEPT !.ow = TRUE]}
    BY DEF CheckRmw, TypeOK
  <2> QED
    BY <2>1, <2>2 DEF ReadRecords
<1>6. ReadKeys(t, rstart[t])' = ReadKeys(t, rstart[t])
  <2>1. \A i \in rstart[t]..Len(rset[t]) : i \in DOMAIN rset[t]
    BY <1>1
  <2> QED
    BY <1>2, <1>3, <1>5, <2>1 DEF ReadKeys
<1>7. WriteKeys(t, wstart[t])' = WriteKeys(t, wstart[t])
  <2>1. \A i \in wstart[t]..Len(wset[t]) : i \in DOMAIN wset[t]
    BY <1>1
  <2> QED
    BY <1>2, <1>3, <1>4, <2>1 DEF WriteKeys
<1> QED
  BY <1>2, <1>6, <1>7 DEF PieceKeys

LEMMA CheckRmwLocks ==
    ASSUME TypeOK, LockInv, NEW t \in Txns, CheckRmw(t)
    PROVE  LockInv'
<1>1. /\ pc[t] = "elock" /\ pc'[t] = "eread"
      /\ UNCHANGED <<rstart, wstart, ctid, clock, lock, intent>>
      /\ \A u \in Txns \ {t} : pc'[u] = pc[u] /\ ix'[u] = ix[u]
  BY DEF CheckRmw, Goto, record, TypeOK
<1>2. TxnInv(t)'
  <2>1. Held(t)' = Held(t) /\ PieceKeys(t)' = PieceKeys(t)
    BY <1>1, CheckRmwKeys DEF Held
  <2> QED
    BY <1>1, <2>1 DEF LockInv, TxnInv, Unlocked, Exposing, Validating, Installing
<1> QED
  BY <1>1, <1>2, CheckRmwKeys, KeepLocks DEF Local, clock

(* Steps that leave the locks and, but for ix, the transaction as it is.   *)
LEMMA ExposeOn ==
    ASSUME TypeOK, LockInv, NEW t \in Txns,
           ExposeRead(t) \/ ReadsExposed(t) \/ ExposeWrite(t)
    PROVE  LockInv'
<1> USE DEF TypeOK, Goto, control, sets, waiting, clock, record, ghost
<1>1. /\ pc[t] \in {"eread", "ewrite"} /\ pc'[t] \in {"eread", "ewrite"}
      /\ UNCHANGED <<rset, wset, rstart, wstart, ctid, clock, lock, intent>>
  BY DEF ExposeRead, ReadsExposed, ExposeWrite
<1>2. \A u \in Txns \ {t} : pc'[u] = pc[u] /\ ix'[u] = ix[u]
  BY DEF ExposeRead, ReadsExposed, ExposeWrite
<1>3. TxnInv(t)'
  <2>1. Held(t)' = Held(t) /\ PieceKeys(t)' = PieceKeys(t)
    BY <1>1 DEF Held, PieceKeys, ReadKeys, WriteKeys
  <2> HIDE DEF TypeOK, Goto, control, sets, waiting, clock, record, ghost
  <2> QED
    BY <1>1, <2>1 DEF LockInv, TxnInv, Unlocked, Exposing, Validating, Installing
<1> QED
  BY <1>1, <1>2, <1>3, KeepLocks DEF Local, clock

(* Everything is released.                                                 *)
LEMMA Released ==
    ASSUME TypeOK, LockInv, NEW t \in Txns, ReleaseAll(t), pc'[t] \in Unlocked,
           \A u \in Txns \ {t} : Local(u)' = Local(u)
    PROVE  LockInv'
<1>1. NoTxn \notin Txns
  BY TxnsAssumption DEF NoTxn
<1>2. IntentInv'
  BY DEF ReleaseAll, LockInv, IntentInv
<1>3. TxnInv(t)'
  <2>1. Held(t)' = {}
    BY <1>1 DEF ReleaseAll, Held
  <2> QED
    BY <2>1 DEF TxnInv, Unlocked, Exposing, Validating, Installing
<1>4. ASSUME NEW u \in Txns \ {t}
      PROVE  /\ \A k \in Keys : lock'[k] = u <=> lock[k] = u
             /\ \A k \in Held(u) : intent'[k] = intent[k]
  <2>1. \A k \in Keys : lock'[k] = u <=> lock[k] = u
    BY <1>1 DEF ReleaseAll
  <2>2. ASSUME NEW k \in Held(u) PROVE intent'[k] = intent[k]
    BY <2>2 DEF ReleaseAll, Held, TypeOK
  <2> QED
    BY <2>1, <2>2
<1> QED
  BY <1>2, <1>3, <1>4, LockedStep

LEMMA ReleaseSteps ==
    ASSUME TypeOK, LockInv, NEW t \in Txns,
           ExposeDone(t) \/ ExposeFail(t) \/ AbortUnlock(t)
    PROVE  LockInv'
<1> USE DEF TypeOK, Goto, Unlocked, Local, control, sets, waiting, clock, record, ghost
<1> DEFINE Quiet ==
      /\ ReleaseAll(t) /\ pc'[t] \in Unlocked
      /\ \A u \in Txns \ {t} : Local(u)' = Local(u)
<1>0. SUFFICES Quiet
  BY Released
<1>1. CASE ExposeDone(t)
  BY <1>1 DEF ExposeDone
<1>2. CASE ExposeFail(t)
  BY <1>2 DEF ExposeFail
<1>3. CASE AbortUnlock(t)
  BY <1>3 DEF AbortUnlock
<1> QED
  BY <1>1, <1>2, <1>3

LEMMA LockWriteLocks ==
    ASSUME TypeOK, LockInv, NEW t \in Txns, LockWrite(t)
    PROVE  LockInv'
<1>1. PICK k \in Keys : /\ k \in WriteKeys(t, 1) /\ lock[k] = NoTxn
                        /\ lock' = [lock EXCEPT ![k] = t]
                        /\ intent' = [intent EXCEPT ![k] = TRUE]
  BY DEF LockWrite, IsFirst
<1>2. /\ pc[t] = "clock" /\ UNCHANGED <<pc, ix, rset, wset, rstart, wstart, ctid, clock>>
  BY DEF LockWrite, control, sets
<1>3. NoTxn \notin Txns
  BY TxnsAssumption DEF NoTxn
<1>4. IntentInv'
  BY <1>1, <1>3 DEF LockInv, IntentInv, TypeOK
<1>5. TxnInv(t)'
  <2>1. Held(t)' = Held(t) \cup {k}
    BY <1>1 DEF Held, TypeOK
  <2>2. WriteKeys(t, 1)' = WriteKeys(t, 1)
    BY <1>2 DEF WriteKeys
  <2>3. ASSUME NEW j \in Held(t)' PROVE intent'[j] /\ j \in WriteKeys(t, 1)
    BY <1>1, <1>2, <2>1 DEF LockInv, TxnInv, TypeOK, Held
  <2> QED
    BY <1>2, <2>2, <2>3 DEF TxnInv, Unlocked, Exposing, Validating, Installing
<1>6. ASSUME NEW u \in Txns \ {t}
      PROVE  /\ Local(u)' = Local(u)
             /\ \A j \in Keys : lock'[j] = u <=> lock[j] = u
             /\ \A j \in Held(u) : intent'[j] = intent[j]
  <2>1. Local(u)' = Local(u)
    BY <1>2 DEF Local, clock
  <2>2. \A j \in Keys : lock'[j] = u <=> lock[j] = u
    BY <1>1, <1>3 DEF TypeOK
  <2>3. ASSUME NEW j \in Held(u) PROVE j # k
    BY <1>1, <1>3 DEF Held
  <2> QED
    BY <1>1, <1>2, <2>1, <2>2, <2>3 DEF TypeOK, Held
<1> QED
  BY <1>4, <1>5, <1>6, LockedStep

(* Validation: only ix and, in the end, the commit id change.              *)
LEMMA ValidateOn ==
    ASSUME TypeOK, LockInv, NEW t \in Txns,
           \/ WritesLocked(t) \/ ValidateClean(t)
           \/ ValidateDirty(t) \/ ValidateFail(t)
    PROVE  LockInv'
<1> USE DEF TypeOK, Goto, control, sets, waiting, clock, record, ghost, DirtyTesting,
            NextTest, Validating
<1>1. UNCHANGED <<rset, wset, rstart, wstart, ctid, clock, lock, intent>>
  BY DEF WritesLocked, ValidateClean, ValidateDirty, ValidateFail
<1>2. \A u \in Txns \ {t} : pc'[u] = pc[u] /\ ix'[u] = ix[u]
  BY DEF WritesLocked, ValidateClean, ValidateDirty, ValidateFail
<1>3. \/ pc[t] = "clock" /\ WriteKeys(t, 1) \subseteq Held(t) /\ pc'[t] \in Validating
      \/ pc[t] \in Validating /\ pc'[t] \in Validating \cup {"aunlock"}
  BY DEF WritesLocked, ValidateClean, ValidateDirty, ValidateFail
<1>4. TxnInv(t)'
  <2>1. Held(t)' = Held(t) /\ WriteKeys(t, 1)' = WriteKeys(t, 1)
    BY <1>1 DEF Held, WriteKeys
  <2> HIDE DEF TypeOK, Goto, control, sets, waiting, clock, record, ghost, DirtyTesting, NextTest
  <2> QED
    BY <1>1, <1>3, <2>1 DEF LockInv, TxnInv, Unlocked, Exposing, Installing
<1> QED
  BY <1>1, <1>2, <1>4, KeepLocks DEF Local, clock

(* The end of the validation, the loop over the reads, the drawing of the  *)
(* commit id: the write set stays locked.                                  *)
LEMMA ValidatedLocks ==
    ASSUME TypeOK, LockInv, NEW t \in Txns, Validated(t) \/ GenRead(t) \/ Draw(t)
    PROVE  LockInv'
<1>1. /\ pc[t] \in {"validate", "gen"} /\ pc'[t] \in {"gen", "install"}
      /\ pc'[t] = "install" => ix'[t] = 1
      /\ UNCHANGED <<rset, wset, rstart, wstart, lock, intent>>
      /\ \A u \in Txns \ {t} : Local(u)' = Local(u)
  <2> USE DEF Goto, control, sets, record, TypeOK, Local
  <2>1. CASE Validated(t) /\ wset[t] = <<>>
    BY <2>1 DEF Validated, clock
  <2>2. CASE Validated(t) /\ wset[t] # <<>>
    <3>1. /\ pc[t] = "validate" /\ pc' = [pc EXCEPT ![t] = "gen"]
          /\ epoch' = [epoch EXCEPT ![t] = tick]
          /\ \E r : ret' = [ret EXCEPT ![t] = r]
          /\ ix' = [ix EXCEPT ![t] = 1]
          /\ UNCHANGED <<rset, wset, rstart, wstart, ctid, lock, intent>>
      BY <2>2 DEF Validated
    <3> QED
      BY <3>1
  <2>3. CASE GenRead(t)
    BY <2>3 DEF GenRead
  <2>4. CASE Draw(t)
    BY <2>4 DEF Draw, DrawTid
  <2> QED
    BY <2>1, <2>2, <2>3, <2>4
<1>2. Held(t)' = Held(t) /\ WriteKeys(t, 1)' = WriteKeys(t, 1)
  BY <1>1 DEF Held, WriteKeys
<1>3. \A k \in Held(t) : intent[k] /\ k \in WriteKeys(t, 1)
  BY <1>1 DEF LockInv, TxnInv, Validating
<1>4. WriteKeys(t, 1) \subseteq Held(t)
  BY <1>1 DEF LockInv, TxnInv, Validating
<1>5. TxnInv(t)'
  <2>1. CASE pc'[t] = "gen"
    BY <1>1, <1>2, <1>3, <1>4, <2>1
       DEF TxnInv, Unlocked, Exposing, Validating, Installing
  <2>2. CASE pc'[t] = "install"
    <3>1. ToInstall(t)' \subseteq 1..Len(wset[t])
      BY <1>1, <2>2 DEF ToInstall
    <3>2. WriteKeys(t, ix[t])' = WriteKeys(t, 1)
      BY <1>1, <2>2 DEF WriteKeys
    <3>3. \A j \in ToInstall(t)' : wset'[t][j].key \in Held(t)'
      BY <1>1, <1>2, <1>4, <3>1 DEF WriteKeys
    <3> QED
      BY <1>1, <1>2, <1>3, <2>2, <3>2, <3>3
         DEF TxnInv, Unlocked, Exposing, Validating, Installing
  <2> QED
    BY <1>1, <2>1, <2>2
<1> QED
  BY <1>1, <1>5, KeepLocks

-----------------------------------------------------------------------------
(* Installing.                                                             *)

(* The records of the writes from i on: those from i + 1 on and that of i. *)
LEMMA NextWriteKeys ==
    ASSUME TypeOK, NEW t \in Txns, ix[t] <= Len(wset[t])
    PROVE  /\ WriteKeys(t, ix[t]) = WriteKeys(t, ix[t] + 1) \cup {wset[t][ix[t]].key}
           /\ wset[t][ix[t]].key \in Keys
           /\ ix[t] \in DOMAIN wset[t]
<1>1. ix[t] \in Nat \ {0} /\ wset[t] \in Seq(WriteRecords)
  BY DEF TypeOK
<1>2. ix[t]..Len(wset[t]) = ((ix[t] + 1)..Len(wset[t])) \cup {ix[t]}
  BY <1>1
<1>3. wset[t][ix[t]] \in WriteRecords
  BY <1>1
<1> QED
  BY <1>1, <1>2, <1>3 DEF WriteKeys, WriteRecords

(* A write that is not the record's last leaves its record to a later one. *)
LEMMA SkipWriteLocks ==
    ASSUME TypeOK, LockInv, NEW t \in Txns, SkipWrite(t)
    PROVE  LockInv'
<1>1. /\ pc[t] = "install" /\ ix[t] <= Len(wset[t]) /\ ~DoWrite(t, ix[t])
      /\ ix' = [ix EXCEPT ![t] = @ + 1]
      /\ UNCHANGED <<pc, rset, wset, rstart, wstart, ctid, clock, lock, intent>>
  BY DEF SkipWrite, control, sets, record
<1>2. WriteKeys(t, ix[t]) = WriteKeys(t, ix[t] + 1)
  <2>1. PICK j \in DOMAIN wset[t] : wset[t][j].key = wset[t][ix[t]].key /\ ~(j <= ix[t])
    BY <1>1 DEF DoWrite
  <2>2. j \in (ix[t] + 1)..Len(wset[t])
    BY <2>1 DEF TypeOK
  <2>3. wset[t][ix[t]].key \in WriteKeys(t, ix[t] + 1)
    BY <2>1, <2>2 DEF WriteKeys
  <2> QED
    BY <1>1, <2>3, NextWriteKeys
<1>3. TxnInv(t)'
  <2>1. Held(t)' = Held(t) /\ WriteKeys(t, ix[t])' = WriteKeys(t, ix[t] + 1)
    BY <1>1 DEF Held, WriteKeys, TypeOK
  <2>2. ToInstall(t)' \subseteq ToInstall(t)
    BY <1>1 DEF ToInstall, DoWrite, TypeOK
  <2> QED
    BY <1>1, <1>2, <2>1, <2>2
       DEF LockInv, TxnInv, Unlocked, Exposing, Validating, Installing
<1> QED
  BY <1>1, <1>3, KeepLocks DEF Local, clock, TypeOK

(* The last write of a record is installed only once.                      *)
LEMMA InstallWriteLocks ==
    ASSUME TypeOK, LockInv, NEW t \in Txns, InstallWrite(t)
    PROVE  LockInv'
<1> DEFINE k == wset[t][ix[t]].key
<1>1. /\ pc[t] = "install" /\ pc' = [pc EXCEPT ![t] = "release"]
      /\ ix[t] <= Len(wset[t]) /\ DoWrite(t, ix[t])
      /\ UNCHANGED <<ix, rset, wset, rstart, wstart, ctid, clock, lock, intent>>
  BY DEF InstallWrite, Goto, sets
<1>2. ix[t] \in ToInstall(t) /\ k \in Keys
  <2>1. ix[t] \in ix[t]..Len(wset[t])
    BY <1>1 DEF TypeOK
  <2> QED
    BY <1>1, <2>1, NextWriteKeys DEF ToInstall
<1>3. k \in Held(t)
  BY <1>1, <1>2 DEF LockInv, TxnInv, Installing
<1>4. IntentInv'
  BY <1>1 DEF LockInv, IntentInv
<1>5. TxnInv(t)'
  <2>1. Held(t)' = Held(t) /\ WriteKeys(t, ix[t])' = WriteKeys(t, ix[t])
        /\ ToInstall(t)' = ToInstall(t) /\ pc'[t] = "release"
    BY <1>1 DEF Held, WriteKeys, ToInstall, DoWrite, TypeOK
  <2>3. \A j \in ToInstall(t) : wset[t][j].key \in Held(t)
    BY <1>1 DEF LockInv, TxnInv, Installing
  <2>4. \A j \in Held(t) : intent[j] /\ j \in WriteKeys(t, ix[t])
    BY <1>1 DEF LockInv, TxnInv, Installing
  <2> QED
    BY <1>1, <1>2, <2>1, <2>3, <2>4
       DEF TxnInv, Unlocked, Exposing, Validating, Installing
<1>6. ASSUME NEW u \in Txns \ {t}
      PROVE  /\ Local(u)' = Local(u)
             /\ \A j \in Keys : lock'[j] = u <=> lock[j] = u
             /\ \A j \in Held(u) : intent'[j] = intent[j]
  <2>1. Local(u)' = Local(u)
    BY <1>1 DEF Local, clock, TypeOK
  <2>2. ASSUME NEW j \in Held(u) PROVE j # k
    BY <1>3 DEF Held
  <2> QED
    BY <1>1, <2>1, <2>2 DEF TypeOK, Held
<1> QED
  BY <1>4, <1>5, <1>6, LockedStep

LEMMA ReleaseWriteLocks ==
    ASSUME TypeOK, LockInv, NEW t \in Txns, ReleaseWrite(t)
    PROVE  LockInv'
<1> DEFINE k == wset[t][ix[t]].key
<1>1. /\ pc[t] = "release" /\ pc' = [pc EXCEPT ![t] = "install"]
      /\ ix[t] <= Len(wset[t]) /\ ix' = [ix EXCEPT ![t] = @ + 1]
      /\ lock' = [lock EXCEPT ![k] = NoTxn]
      /\ intent' = [intent EXCEPT ![k] = FALSE]
      /\ UNCHANGED <<rset, wset, rstart, wstart, ctid, clock>>
  BY DEF ReleaseWrite, Goto, sets
<1>2. k \in Held(t) /\ ix[t] \in ToInstall(t) /\ k \in Keys
  BY <1>1, NextWriteKeys DEF LockInv, TxnInv, Installing
<1>3. NoTxn \notin Txns
  BY TxnsAssumption DEF NoTxn
<1>4. IntentInv'
  BY <1>1, <1>2 DEF LockInv, IntentInv, TypeOK
<1>5. TxnInv(t)'
  <2>1. Held(t)' = Held(t) \ {k} /\ pc'[t] = "install"
    BY <1>1, <1>2, <1>3 DEF Held, TypeOK
  <2>2. WriteKeys(t, ix[t])' = WriteKeys(t, ix[t] + 1)
    BY <1>1 DEF WriteKeys, TypeOK
  <2>3. ASSUME NEW j \in Held(t)' PROVE intent'[j] /\ j \in WriteKeys(t, ix[t])'
    <3>1. intent[j] /\ j \in WriteKeys(t, ix[t]) /\ j # k /\ j \in Keys
      BY <1>1, <2>1 DEF LockInv, TxnInv, Installing, Held
    <3>2. intent'[j]
      BY <1>1, <3>1 DEF TypeOK
    <3>3. j \in WriteKeys(t, ix[t] + 1)
      BY <1>1, <3>1, NextWriteKeys
    <3> QED
      BY <2>2, <3>2, <3>3
  <2>4. ASSUME NEW j \in ToInstall(t)'
        PROVE  wset[t][j].key \in Held(t)'
    <3>1. j \in ToInstall(t) /\ j # ix[t]
      BY <1>1 DEF ToInstall, DoWrite, TypeOK
    <3>2. j \in DOMAIN wset[t] /\ j \in Nat /\ ix[t] \in Nat /\ ix[t] \in DOMAIN wset[t]
      BY <1>1, <3>1, NextWriteKeys DEF ToInstall, TypeOK
    <3>3. wset[t][j].key # k
      BY <1>2, <3>1, <3>2 DEF ToInstall, DoWrite
    <3> QED
      BY <1>1, <2>1, <3>1, <3>3 DEF LockInv, TxnInv, Installing
  <2> QED
    BY <1>1, <2>1, <2>3, <2>4
       DEF TxnInv, Unlocked, Exposing, Validating, Installing
<1>6. ASSUME NEW u \in Txns \ {t}
      PROVE  /\ Local(u)' = Local(u)
             /\ \A j \in Keys : lock'[j] = u <=> lock[j] = u
             /\ \A j \in Held(u) : intent'[j] = intent[j]
  <2>1. Local(u)' = Local(u)
    BY <1>1 DEF Local, clock, TypeOK
  <2>2. \A j \in Keys : lock'[j] = u <=> lock[j] = u
    BY <1>1, <1>2, <1>3 DEF TypeOK, Held
  <2>3. ASSUME NEW j \in Held(u) PROVE j # k
    BY <1>2 DEF Held
  <2> QED
    BY <1>1, <2>1, <2>2, <2>3 DEF TypeOK, Held
<1> QED
  BY <1>4, <1>5, <1>6, LockedStep

(* Nothing is left to install, so nothing is locked.                       *)
LEMMA InstalledLocks ==
    ASSUME TypeOK, LockInv, NEW t \in Txns, Installed(t)
    PROVE  LockInv'
<1>1. /\ pc[t] = "install" /\ pc' = [pc EXCEPT ![t] = "cleanup"]
      /\ ix[t] > Len(wset[t])
      /\ UNCHANGED <<ix, rset, wset, rstart, wstart, ctid, clock, lock, intent>>
  BY DEF Installed, Goto, sets, record
<1>2. Held(t)' = {}
  <2>1. WriteKeys(t, ix[t]) = {}
    BY <1>1 DEF WriteKeys, TypeOK
  <2> QED
    BY <1>1, <2>1 DEF LockInv, TxnInv, Installing, Held
<1>3. TxnInv(t)'
  BY <1>1, <1>2 DEF TxnInv, Unlocked, Exposing, Validating, Installing, TypeOK
<1> QED
  BY <1>1, <1>3, KeepLocks DEF Local, clock, TypeOK

-----------------------------------------------------------------------------
LEMMA InitLocks == Init => LockInv
<1> SUFFICES ASSUME Init PROVE LockInv
  OBVIOUS
<1>1. \A t \in Txns : Held(t) = {}
  BY TxnsAssumption DEF Init, Held, NoTxn
<1> QED
  BY <1>1 DEF Init, LockInv, IntentInv, TxnInv, Unlocked, Exposing, Validating,
              Installing

LEMMA NextLocks == TypeOK /\ LockInv /\ [Next]_vars => LockInv'
<1> SUFFICES ASSUME TypeOK, LockInv, [Next]_vars PROVE LockInv'
  OBVIOUS
<1>1. CASE UNCHANGED vars
  <2>1. /\ UNCHANGED <<lock, intent>>
        /\ \A u \in Txns : Local(u)' = Local(u)
    BY <1>1 DEF vars, control, sets, clock, Local
  <2>2. IntentInv'
    BY <2>1 DEF LockInv, IntentInv
  <2> QED
    BY <2>1, <2>2, OtherTxn DEF LockInv
<1>2. ASSUME NEW t \in Txns,
             Begin(t) \/ Execute(t) \/ Expose(t) \/ Commit(t) \/ Abort(t)
      PROVE  LockInv'
  <2>1. CASE Begin(t) \/ Execute(t)
    BY <2>1, UnlockedSteps
  <2>2. CASE Expose(t)
    BY <2>2, UnlockedSteps, ExposeLockLocks, CheckRmwLocks, ExposeOn,
       ReleaseSteps DEF Expose
  <2>3. CASE Commit(t)
    BY <2>3, UnlockedSteps, LockWriteLocks, ValidateOn, ValidatedLocks, Draws,
       SkipWriteLocks, InstallWriteLocks, ReleaseWriteLocks, InstalledLocks
       DEF Commit
  <2>4. CASE Abort(t)
    BY <2>4, UnlockedSteps, ReleaseSteps DEF Abort
  <2> QED
    BY <1>2, <2>1, <2>2, <2>3, <2>4
<1>3. CASE Tick
  <2>1. /\ UNCHANGED <<lock, intent>>
        /\ \A u \in Txns : Local(u)' = Local(u)
    BY <1>3 DEF Tick, control, sets, Local
  <2>2. IntentInv'
    BY <2>1 DEF LockInv, IntentInv
  <2> QED
    BY <2>1, <2>2, OtherTxn DEF LockInv
<1> QED
  BY <1>1, <1>2, <1>3 DEF Next, Stop

(* The invariant itself.                                                   *)
THEOREM LocksCorrect == Spec => []LockInv
<1>1. Init => LockInv
  BY InitLocks
<1>2. TypeOK /\ LockInv /\ [Next]_vars => LockInv'
  BY NextLocks
<1> QED
  BY <1>1, <1>2, TypeCorrect, PTL DEF Spec

(* A lock is held only by a transaction that exposes its piece or commits, *)
(* and a write intent only by one that commits: nobody waits or ends with  *)
(* a record locked.                                                        *)
THEOREM LockSafety == Spec => []LockDiscipline
<1>1. TypeOK /\ LockInv => LockDiscipline
  <2> SUFFICES ASSUME TypeOK, LockInv, NEW k \in Keys
               PROVE  LockDiscipline!(k)
    BY DEF LockDiscipline
  <2>1. intent[k] => lock[k] # NoTxn
    BY DEF LockInv, IntentInv
  <2>2. ASSUME lock[k] # NoTxn
        PROVE  LET t == lock[k] IN
            IF intent[k]
            THEN /\ pc[t] \in {"clock", "validate", "vver", "vseq", "vint",
                               "gen", "install", "release", "aunlock"}
                 /\ k \in WriteKeys(t, 1)
            ELSE pc[t] \in {"elock", "eread", "ewrite"} /\ k \in PieceKeys(t)
    <3> DEFINE t == lock[k]
    <3>1. t \in Txns /\ k \in Held(t)
      BY <2>2 DEF TypeOK, Held
    <3>2. pc[t] \in Unlocked \cup Exposing \cup Validating \cup Installing
                    \cup {"clock", "aunlock"}
      BY <3>1 DEF TypeOK, Pcs, Unlocked, Exposing, Validating, Installing
    <3>3. TxnInv(t)
      BY <3>1 DEF LockInv
    <3>4. pc[t] \notin Unlocked
      BY <3>1, <3>3 DEF TxnInv
    <3>5. WriteKeys(t, ix[t]) \subseteq WriteKeys(t, 1)
      BY <3>1 DEF TypeOK, WriteKeys
    <3> HIDE DEF t
    <3>6. CASE pc[t] \in Exposing
      BY <3>1, <3>3, <3>6 DEF TxnInv, Exposing, t
    <3>7. CASE pc[t] \in Validating \cup Installing \cup {"clock", "aunlock"}
      BY <3>1, <3>3, <3>5, <3>7 DEF TxnInv, Validating, Installing, t
    <3> QED
      BY <3>2, <3>4, <3>6, <3>7
  <2> QED
    BY <2>1, <2>2
<1> QED
  BY <1>1, TypeCorrect, LocksCorrect, PTL

-----------------------------------------------------------------------------
(* Lists without repetition.                                               *)
Once(l) == \A i, j \in DOMAIN l : l[i] = l[j] => i = j
Elements(l) == {l[i] : i \in DOMAIN l}

LEMMA AppendOnce ==
    ASSUME NEW S, NEW l \in Seq(S), NEW e \in S, Once(l), e \notin Elements(l)
    PROVE  Once(Append(l, e)) /\ Elements(Append(l, e)) = Elements(l) \cup {e}
<1> DEFINE m == Append(l, e)
<1>1. /\ Len(m) = Len(l) + 1 /\ m[Len(l) + 1] = e /\ \A i \in 1..Len(l) : m[i] = l[i]
      /\ DOMAIN m = 1..(Len(l) + 1) /\ DOMAIN l = 1..Len(l) /\ Len(l) \in Nat
  OBVIOUS
<1> HIDE DEF m
<1>2. Once(m)
  BY <1>1 DEF Once, Elements
<1>3. Elements(m) = Elements(l) \cup {e}
  BY <1>1 DEF Elements
<1> QED
  BY <1>2, <1>3 DEF m

(* Unlink takes its entry out and leaves the others.                       *)
LEMMA UnlinkOnce ==
    ASSUME NEW S, NEW l \in Seq(S), NEW e, Once(l)
    PROVE  Once(Unlink(l, e)) /\ Elements(Unlink(l, e)) = Elements(l) \ {e}
<1> DEFINE At == {j \in DOMAIN l : l[j] = e}
           m == Unlink(l, e)
<1>1. CASE At = {}
  BY <1>1 DEF Unlink, Elements
<1>2. CASE At # {}
  <2> DEFINE n == CHOOSE j \in At : TRUE
  <2>1. n \in 1..Len(l) /\ l[n] = e /\ Len(l) \in Nat /\ DOMAIN l = 1..Len(l)
    BY <1>2
  <2>2. m = SubSeq(l, 1, n - 1) \o SubSeq(l, n + 1, Len(l))
    BY <1>2 DEF Unlink, RemoveAt
  <2> HIDE DEF n, m
  <2> DEFINE a == SubSeq(l, 1, n - 1)
             b == SubSeq(l, n + 1, Len(l))
  <2>3. a \in Seq(S) /\ Len(a) = n - 1 /\ \A i \in 1..(n - 1) : a[i] = l[i]
    <3>1. \A i \in 1..(n - 1) : l[i] \in S
      BY <2>1
    <3> QED
      BY <2>1, <3>1, SubSeqProperties
  <2>4. /\ b \in Seq(S) /\ Len(b) = Len(l) - n
        /\ \A i \in 1..(Len(l) - n) : b[i] = l[n + i]
    <3>1. \A i \in (n + 1)..Len(l) : l[i] \in S
      BY <2>1
    <3>2. /\ b \in Seq(S) /\ Len(b) = IF n + 1 <= Len(l) THEN Len(l) - (n + 1) + 1 ELSE 0
          /\ \A i \in 1..(Len(l) - (n + 1) + 1) : b[i] = l[(n + 1) + i - 1]
      BY <2>1, <3>1, SubSeqProperties
    <3> HIDE DEF b
    <3>3. Len(b) = Len(l) - n
      <4>1. Len(b) = IF n + 1 <= Len(l) THEN Len(l) - (n + 1) + 1 ELSE 0
        BY <3>2
      <4>2. CASE n + 1 <= Len(l)
        BY <2>1, <4>1, <4>2
      <4>3. CASE n = Len(l)
        BY <2>1, <4>1, <4>3
      <4>4. n \in 1..Len(l) /\ Len(l) \in Nat
        BY <2>1
      <4>5. n + 1 <= Len(l) \/ n = Len(l)
        BY <4>4
      <4> QED
        BY <4>2, <4>3, <4>5
    <3>4. ASSUME NEW i \in 1..(Len(l) - n) PROVE b[i] = l[n + i]
      <4>1. i \in 1..(Len(l) - (n + 1) + 1) /\ (n + 1) + i - 1 = n + i
        BY <2>1
      <4> QED
        BY <3>2, <4>1
    <3> QED
      BY <3>2, <3>3, <3>4
  <2>5. /\ Len(m) = Len(l) - 1 /\ DOMAIN m = 1..(Len(l) - 1)
        /\ \A i \in 1..(n - 1) : m[i] = l[i]
        /\ \A i \in n..(Len(l) - 1) : m[i] = l[i + 1]
    <3> HIDE DEF a, b
    <3>1. /\ m \in Seq(S) /\ Len(m) = Len(a) + Len(b)
          /\ \A i \in 1..(Len(a) + Len(b)) :
                m[i] = IF i <= Len(a) THEN a[i] ELSE b[i - Len(a)]
      BY <2>2, <2>3, <2>4, ConcatProperties DEF a, b
    <3>2. Len(m) = Len(l) - 1 /\ DOMAIN m = 1..(Len(l) - 1)
      BY <2>1, <2>3, <2>4, <3>1
    <3>3. ASSUME NEW i \in 1..(n - 1) PROVE m[i] = l[i]
      <4>1. i \in 1..(Len(a) + Len(b)) /\ i <= Len(a)
        BY <2>1, <2>3, <2>4
      <4> QED
        BY <2>3, <3>1, <4>1
    <3>4. ASSUME NEW i \in n..(Len(l) - 1) PROVE m[i] = l[i + 1]
      <4>1. /\ i \in 1..(Len(a) + Len(b)) /\ ~(i <= Len(a))
            /\ i - Len(a) \in 1..(Len(l) - n) /\ n + (i - Len(a)) = i + 1
        BY <2>1, <2>3, <2>4
      <4> QED
        BY <2>4, <3>1, <4>1
    <3> QED
      BY <3>2, <3>3, <3>4
  <2>6. Once(m)
    <3> SUFFICES ASSUME NEW i \in DOMAIN m, NEW j \in DOMAIN m, m[i] = m[j] PROVE i = j
      BY DEF Once
    <3>1. \A x \in 1..(Len(l) - 1) : m[x] = l[IF x < n THEN x ELSE x + 1]
      BY <2>1, <2>5
    <3>2. /\ (IF i < n THEN i ELSE i + 1) \in DOMAIN l
          /\ (IF j < n THEN j ELSE j + 1) \in DOMAIN l
          /\ i \in Nat /\ j \in Nat
      BY <2>1, <2>5
    <3>3. (IF i < n THEN i ELSE i + 1) = (IF j < n THEN j ELSE j + 1)
      BY <2>5, <3>1, <3>2 DEF Once
    <3> QED
      BY <2>1, <3>2, <3>3
  <2>7. ASSUME NEW x PROVE x \in Elements(m) <=> x \in Elements(l) /\ x # e
    <3>1. ASSUME x \in Elements(m) PROVE x \in Elements(l) /\ x # e
      <4>1. PICK i \in 1..(Len(l) - 1) : m[i] = x
        BY <2>5, <3>1 DEF Elements
      <4>2. CASE i < n
        <5>1. i \in DOMAIN l /\ x = l[i] /\ i # n
          BY <2>1, <2>5, <4>1, <4>2
        <5> QED
          BY <2>1, <5>1 DEF Once, Elements
      <4>3. CASE ~(i < n)
        <5>1. i + 1 \in DOMAIN l /\ x = l[i + 1] /\ i + 1 # n
          BY <2>1, <2>5, <4>1, <4>3
        <5> QED
          BY <2>1, <5>1 DEF Once, Elements
      <4> QED
        BY <4>2, <4>3
    <3>2. ASSUME x \in Elements(l), x # e PROVE x \in Elements(m)
      <4>1. PICK j \in DOMAIN l : x = l[j] /\ j # n
        BY <2>1, <3>2 DEF Elements
      <4>2. CASE j < n
        BY <2>1, <2>5, <4>1, <4>2 DEF Elements
      <4>3. CASE j > n
        <5>1. j - 1 \in n..(Len(l) - 1) /\ (j - 1) + 1 = j /\ j - 1 \in DOMAIN m
          BY <2>1, <2>5, <4>1, <4>3
        <5>2. m[j - 1] = x
          BY <2>5, <4>1, <5>1
        <5> QED
          BY <5>1, <5>2 DEF Elements
      <4> QED
        BY <2>1, <4>1, <4>2, <4>3
    <3> QED
      BY <3>1, <3>2
  <2> QED
    BY <2>6, <2>7 DEF m
<1> QED
  BY <1>1, <1>2

-----------------------------------------------------------------------------
(* A step of t changes no other transaction.                               *)
StepOf(t) == Begin(t) \/ Execute(t) \/ Expose(t) \/ Commit(t) \/ Abort(t)
Still(u) == Local(u)' = Local(u) /\ run'[u] = run[u] /\ state'[u] = state[u]

LEMMA OthersStay ==
    ASSUME TypeOK, NEW t \in Txns, StepOf(t)
    PROVE  \A u \in Txns \ {t} : Still(u)
<1> USE DEF TypeOK, Goto, Local, Still, control, sets, waiting, clock, record, ghost
<1>1. CASE Begin(t)
  BY <1>1 DEF Begin
<1>2. CASE NewTid(t)
  BY <1>2 DEF NewTid
<1>3. CASE StartWait(t)
  BY <1>3 DEF StartWait
<1>4. CASE WaitOne(t)
  BY <1>4 DEF WaitOne
<1>5. CASE WaitEnd(t)
  BY <1>5 DEF WaitEnd
<1>6. CASE WaitThrow(t)
  BY <1>6 DEF WaitThrow
<1>7. CASE Get(t)
  BY <1>7 DEF Get, Accessing, AddCleanRead, AddDirtyRead
<1>8. CASE Put(t)
  BY <1>8 DEF Put, Accessing, AddWrite
<1>9. CASE Update(t)
  BY <1>9 DEF Update, Accessing, AddCleanRead, AddDirtyRead, AddWrite
<1>10. CASE NoPieceEnd(t)
  BY <1>10 DEF NoPieceEnd
<1>11. CASE PieceEnd(t)
  BY <1>11 DEF PieceEnd
<1>12. CASE UserAbort(t)
  BY <1>12 DEF UserAbort
<1>13. CASE ExposeLock(t)
  BY <1>13 DEF ExposeLock
<1>14. CASE CheckRmw(t)
  BY <1>14 DEF CheckRmw
<1>15. CASE ExposeRead(t)
  BY <1>15 DEF ExposeRead
<1>16. CASE ReadsExposed(t)
  BY <1>16 DEF ReadsExposed
<1>17. CASE ExposeWrite(t)
  BY <1>17 DEF ExposeWrite
<1>18. CASE ExposeDone(t)
  BY <1>18 DEF ExposeDone
<1>19. CASE ExposeFail(t)
  BY <1>19 DEF ExposeFail
<1>20. CASE UndoOne(t)
  BY <1>20 DEF UndoOne
<1>21. CASE RetryPiece(t)
  BY <1>21 DEF RetryPiece
<1>22. CASE StartCommit(t)
  BY <1>22 DEF StartCommit
<1>23. CASE CommitWaitOne(t)
  BY <1>23 DEF CommitWaitOne
<1>24. CASE CommitWaitFail(t)
  BY <1>24 DEF CommitWaitFail
<1>25. CASE CommitWaitEnd(t)
  BY <1>25 DEF CommitWaitEnd
<1>26. CASE LockWrite(t)
  BY <1>26 DEF LockWrite
<1>27. CASE WritesLocked(t)
  BY <1>27 DEF WritesLocked
<1>28. CASE ValidateClean(t)
  BY <1>28 DEF ValidateClean
<1>29. CASE ValidateDirty(t)
  BY <1>29 DEF ValidateDirty
<1>30. CASE ValidateFail(t)
  BY <1>30 DEF ValidateFail
<1>31. CASE Validated(t)
  <2>1. epoch' = epoch \/ epoch' = [epoch EXCEPT ![t] = tick]
    BY <1>31 DEF Validated
  <2>2. ret' = ret \/ \E r : ret' = [ret EXCEPT ![t] = r]
    <3>1. CASE wset[t] = <<>>
      BY <1>31, <3>1 DEF Validated
    <3>2. CASE wset[t] # <<>>
      BY <1>31, <3>2 DEF Validated
    <3> QED
      BY <3>1, <3>2
  <2>3. ASSUME NEW u \in Txns \ {t} PROVE epoch'[u] = epoch[u] /\ ret'[u] = ret[u]
    BY <2>1, <2>2
  <2>4. ASSUME NEW u \in Txns \ {t} PROVE pc'[u] = pc[u] /\ ix'[u] = ix[u]
    BY <1>31, ValidatedIs
  <2> QED
    BY <1>31, <2>3, <2>4, ValidatedIs
<1>32. CASE SkipWrite(t)
  BY <1>32 DEF SkipWrite
<1>33. CASE InstallWrite(t)
  BY <1>33 DEF InstallWrite
<1>34. CASE ReleaseWrite(t)
  BY <1>34 DEF ReleaseWrite
<1>35. CASE Installed(t)
  BY <1>35 DEF Installed
<1>36. CASE UnlinkRead(t)
  BY <1>36 DEF UnlinkRead
<1>37. CASE Finish(t)
  BY <1>37 DEF Finish
<1>38. CASE AbortUnlock(t)
  BY <1>38 DEF AbortUnlock
<1>39. CASE AbortUnlinkWrite(t)
  BY <1>39 DEF AbortUnlinkWrite
<1>40. CASE Aborted(t)
  BY <1>40 DEF Aborted
<1>41. CASE GenRead(t)
  BY <1>41 DEF GenRead
<1>42. CASE Draw(t)
  BY <1>42 DEF Draw, DrawTid
<1> QED
  BY <1>1, <1>2, <1>3, <1>4, <1>5, <1>6, <1>7, <1>8, <1>9, <1>10, <1>11, <1>12, <1>13, <1>14, <1>15, <1>16, <1>17, <1>18, <1>19, <1>20, <1>21, <1>22, <1>23, <1>24, <1>25, <1>26, <1>27, <1>28, <1>29, <1>30, <1>31, <1>32, <1>33, <1>34, <1>35, <1>36, <1>37, <1>38, <1>39, <1>40, <1>41, <1>42, Draws
     DEF StepOf, Execute, Expose, Commit, Abort
-----------------------------------------------------------------------------
(* What an access list holds.                                              *)

(* While u is here, the piece under construction is not exposed.           *)
Building == {"exec", "wait", "access", "piece", "pwait", "elock"}

(* u has exposed its reads (writes) below these; of its writes, those from *)
(* WriteFrom(u) on are still linked.                                       *)
ReadTop(u) ==
    IF pc[u] \in Building THEN rstart[u]
    ELSE IF pc[u] = "eread" THEN ix[u] ELSE Len(rset[u]) + 1
WriteTop(u) ==
    IF pc[u] \in Building \cup {"eread", "undo"} THEN wstart[u]
    ELSE IF pc[u] = "ewrite" THEN ix[u] ELSE Len(wset[u]) + 1
WriteFrom(u) ==
    IF pc[u] \in Installing THEN ix[u]
    ELSE IF pc[u] = "cleanup" THEN Len(wset[u]) + 1 ELSE 1

ReadOut(u, k, i) == i \in 1..Len(rset[u]) /\ rset[u][i].key = k /\ i < ReadTop(u)
WriteOut(u, k, i) == i \in 1..Len(wset[u]) /\ wset[u][i].key = k /\ i < WriteTop(u)
EntryOf(k, e) ==
    LET u == e.tid[1] IN
    /\ e.tid = Tid(u) /\ pc[u] \notin {"idle", "ctor"}
    /\ e.kind = "r" => ReadOut(u, k, e.ix)
    /\ e.kind = "w" => WriteOut(u, k, e.ix) /\ e.ix >= WriteFrom(u)
EntryInv ==
    \A k \in Keys : Once(list[k]) /\ \A e \in Elements(list[k]) : EntryOf(k, e)

LEMMA ElementType ==
    ASSUME TypeOK, NEW k \in Keys, NEW e \in Elements(list[k])
    PROVE  /\ e \in Entries /\ e.tid[1] \in Txns /\ e.tid[2] \in Nat
           /\ e.tid = <<e.tid[1], e.tid[2]>> /\ e.ix \in Nat /\ e.kind \in {"r", "w"}
<1>1. list[k] \in Seq(Entries)
  BY DEF TypeOK
<1>2. e \in Entries
  BY <1>1 DEF Elements
<1> QED
  BY <1>2 DEF Entries, RunTids

(* It is enough to look at the entries of the transaction that steps.      *)
LEMMA EntryStep ==
    ASSUME TypeOK, TypeOK', EntryInv, NEW t \in Txns, StepOf(t),
           \A k \in Keys : Once(list'[k]),
           \A k \in Keys : \A e \in Elements(list'[k]) :
              IF e.tid[1] = t THEN EntryOf(k, e)' ELSE e \in Elements(list[k])
    PROVE  EntryInv'
<1>1. ASSUME NEW k \in Keys, NEW e \in Elements(list'[k]) PROVE EntryOf(k, e)'
  <2>1. CASE e.tid[1] # t
    <3> DEFINE u == e.tid[1]
    <3>1. e \in Elements(list[k])
      BY <2>1
    <3>2. u \in Txns \ {t} /\ EntryOf(k, e)
      BY <2>1, <3>1, ElementType DEF EntryInv
    <3>3. Still(u)
      BY <3>2, OthersStay
    <3>4. /\ pc'[u] = pc[u] /\ run'[u] = run[u] /\ rset'[u] = rset[u] /\ wset'[u] = wset[u]
          /\ rstart'[u] = rstart[u] /\ wstart'[u] = wstart[u] /\ ix'[u] = ix[u]
      BY <3>3 DEF Still, Local
    <3> QED
      BY <3>2, <3>4 DEF EntryOf, ReadOut, WriteOut, ReadTop, WriteTop, WriteFrom, Tid
  <2> QED
    BY <2>1
<1> QED
  BY <1>1 DEF EntryInv

(* Steps that change no list.                                              *)
LEMMA ListsStay ==
    ASSUME TypeOK, TypeOK', EntryInv, NEW t \in Txns, StepOf(t), UNCHANGED list,
           \A k \in Keys, e \in Entries :
              e \in Elements(list[k]) /\ e.tid[1] = t /\ EntryOf(k, e) => EntryOf(k, e)'
    PROVE  EntryInv'
<1>1. ASSUME NEW k \in Keys, NEW e \in Elements(list'[k])
      PROVE  IF e.tid[1] = t THEN EntryOf(k, e)' ELSE e \in Elements(list[k])
  BY ElementType DEF EntryInv
<1>2. \A k \in Keys : Once(list'[k])
  BY DEF EntryInv
<1> QED
  BY <1>1, <1>2, EntryStep

(* Steps of t that change neither lists nor sets: what it has exposed      *)
(* stays exposed.                                                          *)
Onward(t) ==
    /\ run'[t] = run[t] /\ pc'[t] \notin {"idle", "ctor"}
    /\ ReadTop(t)' >= ReadTop(t) \/ ReadTop(t)' > Len(rset[t])
    /\ WriteTop(t)' >= WriteTop(t) \/ WriteTop(t)' > Len(wset[t])
    /\ WriteFrom(t)' <= WriteFrom(t) \/ WriteFrom(t)' = 1

LEMMA TopTypes ==
    ASSUME TypeOK, NEW t \in Txns
    PROVE  /\ ReadTop(t) \in Nat /\ WriteTop(t) \in Nat /\ WriteFrom(t) \in Nat
           /\ Len(rset[t]) \in Nat /\ Len(wset[t]) \in Nat
BY DEF TypeOK, ReadTop, WriteTop, WriteFrom

LEMMA OnwardEntries ==
    ASSUME TypeOK, TypeOK', EntryInv, NEW t \in Txns, StepOf(t), UNCHANGED list,
           rset'[t] = rset[t], wset'[t] = wset[t], Onward(t)
    PROVE  EntryInv'
<1>1. ASSUME NEW k \in Keys, NEW e \in Entries, e.tid[1] = t, EntryOf(k, e)
      PROVE  EntryOf(k, e)'
  <2>1. e.ix \in Nat
    BY DEF Entries
  <2>2. /\ ReadTop(t) \in Nat /\ WriteTop(t) \in Nat /\ WriteFrom(t) \in Nat
        /\ Len(rset[t]) \in Nat /\ Len(wset[t]) \in Nat
    BY TopTypes
  <2>6. /\ rstart'[t] \in Nat /\ wstart'[t] \in Nat /\ ix'[t] \in Nat
        /\ Len(rset'[t]) \in Nat /\ Len(wset'[t]) \in Nat
    BY <2>2 DEF TypeOK
  <2>7. ReadTop(t)' \in Nat /\ WriteTop(t)' \in Nat /\ WriteFrom(t)' \in Nat
    BY <2>6 DEF ReadTop, WriteTop, WriteFrom
  <2>3. e.tid = Tid(t)' /\ pc'[t] \notin {"idle", "ctor"}
    BY <1>1 DEF EntryOf, Onward, Tid
  <2>4. e.kind = "r" => ReadOut(t, k, e.ix)'
    BY <1>1, <2>1, <2>2, <2>7 DEF EntryOf, Onward, ReadOut
  <2>5. e.kind = "w" => WriteOut(t, k, e.ix)' /\ e.ix >= WriteFrom(t)'
    BY <1>1, <2>1, <2>2, <2>7 DEF EntryOf, Onward, WriteOut
  <2> QED
    BY <1>1, <2>3, <2>4, <2>5 DEF EntryOf
<1> QED
  BY <1>1, ListsStay

LEMMA PlainOnward ==
    ASSUME TypeOK, TypeOK', NEW t \in Txns,
           \/ StartWait(t) \/ WaitOne(t) \/ WaitEnd(t) \/ WaitThrow(t) \/ NoPieceEnd(t)
           \/ PieceEnd(t) \/ UserAbort(t) \/ ExposeLock(t) \/ ReadsExposed(t) \/ ExposeDone(t)
           \/ ExposeFail(t) \/ StartCommit(t) \/ CommitWaitOne(t) \/ CommitWaitFail(t) \/ CommitWaitEnd(t)
           \/ LockWrite(t) \/ WritesLocked(t) \/ ValidateClean(t) \/ ValidateDirty(t) \/ ValidateFail(t)
           \/ Validated(t) \/ GenRead(t) \/ Draw(t) \/ InstallWrite(t) \/ Installed(t)
           \/ AbortUnlock(t)
    PROVE  /\ UNCHANGED list /\ rset'[t] = rset[t] /\ wset'[t] = wset[t]
           /\ Onward(t)
<1>0. /\ pc \in [Txns -> Pcs] /\ ix \in [Txns -> Nat \ {0}]
      /\ rstart \in [Txns -> Nat \ {0}] /\ wstart \in [Txns -> Nat \ {0}]
      /\ Len(rset[t]) \in Nat /\ Len(wset[t]) \in Nat
      /\ rstart[t] <= Len(rset[t]) + 1 /\ wstart[t] <= Len(wset[t]) + 1
  <2>1. rset[t] \in Seq(ReadRecords) /\ wset[t] \in Seq(WriteRecords) /\ PieceInSets(t)
    BY DEF TypeOK
  <2>2. /\ pc \in [Txns -> Pcs] /\ ix \in [Txns -> Nat \ {0}]
        /\ rstart \in [Txns -> Nat \ {0}] /\ wstart \in [Txns -> Nat \ {0}]
    BY DEF TypeOK
  <2> QED
    BY <2>1, <2>2 DEF PieceInSets
<1> USE <1>0 DEF Goto, Onward, ReadTop, WriteTop, WriteFrom, Building, Installing,
            control, sets, waiting, record, ghost
<1>3. CASE StartWait(t)
  <2>1. /\ pc[t] \in {"exec", "piece"} /\ pc' \in {[pc EXCEPT ![t] = "wait"], [pc EXCEPT ![t] = "pwait"]}
        /\ UNCHANGED <<run, rset, wset, rstart, wstart, ix, list>>
    BY <1>3 DEF StartWait
  <2> QED
    BY <2>1
<1>4. CASE WaitOne(t)
  BY <1>4 DEF WaitOne
<1>5. CASE WaitEnd(t)
  BY <1>5 DEF WaitEnd
<1>6. CASE WaitThrow(t)
  BY <1>6 DEF WaitThrow
<1>7. CASE NoPieceEnd(t)
  BY <1>7 DEF NoPieceEnd
<1>8. CASE PieceEnd(t)
  BY <1>8 DEF PieceEnd
<1>9. CASE UserAbort(t)
  BY <1>9 DEF UserAbort
<1>10. CASE ExposeLock(t)
  BY <1>10 DEF ExposeLock
<1>11. CASE ReadsExposed(t)
  BY <1>11 DEF ReadsExposed
<1>12. CASE ExposeDone(t)
  BY <1>12 DEF ExposeDone
<1>13. CASE ExposeFail(t)
  BY <1>13 DEF ExposeFail
<1>14. CASE StartCommit(t)
  BY <1>14 DEF StartCommit
<1>15. CASE CommitWaitOne(t)
  BY <1>15 DEF CommitWaitOne
<1>16. CASE CommitWaitFail(t)
  BY <1>16 DEF CommitWaitFail
<1>17. CASE CommitWaitEnd(t)
  BY <1>17 DEF CommitWaitEnd
<1>18. CASE LockWrite(t)
  BY <1>18 DEF LockWrite
<1>19. CASE WritesLocked(t)
  BY <1>19 DEF WritesLocked
<1>20. CASE ValidateClean(t)
  BY <1>20 DEF ValidateClean
<1>21. CASE ValidateDirty(t)
  <2>1. /\ pc[t] \in Tests /\ pc' = [pc EXCEPT ![t] = NextTest(pc[t])]
        /\ UNCHANGED <<run, rset, wset, rstart, wstart, list>>
    BY <1>21 DEF ValidateDirty, DirtyTesting, Tests
  <2>2. NextTest(pc[t]) \in Tests
    BY <2>1 DEF NextTest, Tests
  <2>3. pc'[t] \in Tests
    BY <2>1, <2>2
  <2>4. pc[t] \in Tests /\ UNCHANGED <<run, rset, wset, rstart, wstart, list>>
    BY <2>1
  <2>5. ReadTop(t) = Len(rset[t]) + 1 /\ WriteTop(t) = Len(wset[t]) + 1 /\ WriteFrom(t) = 1
    BY <2>4 DEF Tests
  <2>6. ReadTop(t)' = Len(rset[t]) + 1 /\ WriteTop(t)' = Len(wset[t]) + 1 /\ WriteFrom(t)' = 1
    BY <2>3, <2>4 DEF Tests
  <2>7. pc'[t] \notin {"idle", "ctor"} /\ run'[t] = run[t]
    BY <2>3, <2>4 DEF Tests
  <2> HIDE DEF ReadTop, WriteTop, WriteFrom
  <2> QED
    BY <2>4, <2>5, <2>6, <2>7
<1>22. CASE ValidateFail(t)
  BY <1>22 DEF ValidateFail
<1>23. CASE Validated(t)
  <2>1. /\ pc[t] = "validate" /\ pc'[t] \in {"gen", "install"} /\ ix'[t] = 1
        /\ UNCHANGED <<run, rset, wset, rstart, wstart, list>>
    BY <1>23, ValidatedIs
  <2> QED
    BY <2>1
<1>24. CASE InstallWrite(t)
  BY <1>24 DEF InstallWrite
<1>25. CASE Installed(t)
  BY <1>25 DEF Installed
<1>26. CASE AbortUnlock(t)
  BY <1>26 DEF AbortUnlock
<1>27. CASE GenRead(t)
  BY <1>27 DEF GenRead
<1>28. CASE Draw(t)
  BY <1>28 DEF Draw, DrawTid
<1> QED
  BY <1>27, <1>28, <1>3, <1>4, <1>5, <1>6, <1>7, <1>8, <1>9, <1>10, <1>11, <1>12, <1>13, <1>14, <1>15, <1>16, <1>17, <1>18, <1>19, <1>20, <1>21, <1>22, <1>23, <1>24, <1>25, <1>26

LEMMA PlainEntries ==
    ASSUME TypeOK, TypeOK', EntryInv, NEW t \in Txns,
           \/ StartWait(t) \/ WaitOne(t) \/ WaitEnd(t) \/ WaitThrow(t) \/ NoPieceEnd(t)
           \/ PieceEnd(t) \/ UserAbort(t) \/ ExposeLock(t) \/ ReadsExposed(t) \/ ExposeDone(t)
           \/ ExposeFail(t) \/ StartCommit(t) \/ CommitWaitOne(t) \/ CommitWaitFail(t) \/ CommitWaitEnd(t)
           \/ LockWrite(t) \/ WritesLocked(t) \/ ValidateClean(t) \/ ValidateDirty(t) \/ ValidateFail(t)
           \/ Validated(t) \/ GenRead(t) \/ Draw(t) \/ InstallWrite(t) \/ Installed(t)
           \/ AbortUnlock(t)
    PROVE  EntryInv'
<1>1. Draw(t) => GenCommitTid(t) \/ GenCommitTidOvertaken(t)
  BY DEF Draw, GenCommitTid, GenCommitTidOvertaken
<1>2. StepOf(t)
  BY <1>1 DEF StepOf, Execute, Expose, Commit, Abort
<1> QED
  BY <1>2, PlainOnward, OnwardEntries

LEMMA EntryIs ==
    ASSUME TypeOK, NEW t \in Txns, NEW k \in Keys, NEW e \in Elements(list[k]), e.tid = Tid(t)
    PROVE  /\ e.kind = "r" => e = ReadEntry(t, e.ix) /\ Linked(k, ReadEntry(t, e.ix))
           /\ e.kind = "w" => e = WriteEntry(t, e.ix) /\ Linked(k, WriteEntry(t, e.ix))
<1>1. e \in Entries
  BY ElementType
<1>2. e.kind = "r" => e = ReadEntry(t, e.ix)
  BY <1>1 DEF Entries, ReadEntry
<1>3. e.kind = "w" => e = WriteEntry(t, e.ix)
  BY <1>1 DEF Entries, WriteEntry
<1>4. Linked(k, e)
  BY DEF Elements, Linked
<1> QED
  BY <1>2, <1>3, <1>4

(* A transaction that starts or ends has no entry.                         *)
LEMMA NoEntries ==
    ASSUME TypeOK, TypeOK', EntryInv, NEW t \in Txns,
           Begin(t) \/ NewTid(t) \/ Finish(t) \/ Aborted(t)
    PROVE  EntryInv'
<1>1. ASSUME NEW k \in Keys, NEW e \in Elements(list[k]), e.tid[1] = t PROVE FALSE
  <2>1. e \in Entries /\ EntryOf(k, e) /\ e.tid = Tid(t) /\ e.ix \in Nat /\ e.kind \in {"r", "w"}
    BY <1>1, ElementType DEF EntryInv, EntryOf
  <2>2. pc[t] \in {"cleanup", "aunlink"}
    BY <1>1, <2>1 DEF EntryOf, Begin, NewTid, Finish, Aborted
  <2>3. LinkedReads(t, 1) = {} /\ (pc[t] = "aunlink" => LinkedWrites(t) = {})
    BY <2>2 DEF Begin, NewTid, Finish, Aborted
  <2>4. CASE e.kind = "r"
    <3>1. e.ix \in 1..Len(rset[t]) /\ rset[t][e.ix].key = k
      BY <1>1, <2>1, <2>4 DEF EntryOf, ReadOut
    <3>2. Linked(k, ReadEntry(t, e.ix))
      BY <2>1, <2>4, EntryIs
    <3> QED
      BY <2>3, <3>1, <3>2 DEF LinkedReads
  <2>5. CASE e.kind = "w"
    <3>1. e.ix \in 1..Len(wset[t]) /\ wset[t][e.ix].key = k /\ e.ix >= WriteFrom(t)
      BY <1>1, <2>1, <2>5 DEF EntryOf, WriteOut
    <3>2. Len(wset[t]) \in Nat /\ wset[t] \in Seq(WriteRecords)
      BY DEF TypeOK
    <3>3. CASE pc[t] = "cleanup"
      BY <3>1, <3>2, <3>3 DEF WriteFrom, Installing
    <3>4. CASE pc[t] = "aunlink"
      <4>1. Linked(k, WriteEntry(t, e.ix)) /\ e.ix \in DOMAIN wset[t]
        BY <2>1, <2>5, <3>1, <3>2, EntryIs
      <4> QED
        BY <2>3, <3>1, <3>4, <4>1 DEF LinkedWrites
    <3> QED
      BY <2>2, <3>3, <3>4
  <2> QED
    BY <2>1, <2>4, <2>5
<1>2. UNCHANGED list
  BY DEF Begin, NewTid, Finish, Aborted
<1>3. StepOf(t)
  BY DEF StepOf, Execute, Commit, Abort
<1> QED
  BY <1>1, <1>2, <1>3, ListsStay

(* Accesses extend the sets.                                               *)
LEMMA ExtendEntries ==
    ASSUME TypeOK, TypeOK', EntryInv, NEW t \in Txns, Get(t) \/ Put(t) \/ Update(t)
    PROVE  EntryInv'
<1>1. /\ pc[t] \in {"exec", "access"} /\ pc'[t] = "piece"
      /\ UNCHANGED <<list, rstart, wstart, run>>
  BY DEF Get, Put, Update, Accessing, Goto, TypeOK
<1>2. pos[t] < Len(prog[t])
  BY DEF Get, Put, Update, Accessing
<1>3. \/ rset'[t] = rset[t]
      \/ \E r \in ReadRecords : rset'[t] = Append(rset[t], r)
  <2>1. CASE Put(t)
    BY <2>1 DEF Put
  <2>2. CASE Get(t) \/ Update(t)
    <3>1. PICK r \in ReadRecords : rset' = [rset EXCEPT ![t] = Append(rset[t], r)]
      BY <1>2, <2>2, AddReadType DEF Get, Update
    <3> QED
      BY <3>1 DEF TypeOK
  <2> QED
    BY <2>1, <2>2
<1>4. \/ wset'[t] = wset[t]
      \/ \E w : wset'[t] = Append(wset[t], w)
  BY ZenonT(40) DEF Get, Put, Update, AddWrite, TypeOK
<1>5. rset[t] \in Seq(ReadRecords) /\ wset[t] \in Seq(WriteRecords)
  BY DEF TypeOK
<1>6. \A i \in 1..Len(rset[t]) : i \in 1..Len(rset'[t]) /\ rset'[t][i] = rset[t][i]
  BY <1>3, <1>5
<1>7. \A i \in 1..Len(wset[t]) : i \in 1..Len(wset'[t]) /\ wset'[t][i] = wset[t][i]
  BY <1>4, <1>5
<1>8. ASSUME NEW k \in Keys, NEW e \in Entries, e.tid[1] = t, EntryOf(k, e)
      PROVE  EntryOf(k, e)'
  BY <1>1, <1>6, <1>7, <1>8
     DEF EntryOf, ReadOut, WriteOut, ReadTop, WriteTop, WriteFrom, Building, Installing, Tid
<1>9. StepOf(t)
  BY DEF StepOf, Execute
<1> QED
  BY <1>1, <1>8, <1>9, ListsStay

(* check_rmw changes only the flags of the reads and writes.                *)
LEMMA CheckRmwSame ==
    ASSUME TypeOK, NEW t \in Txns, CheckRmw(t)
    PROVE  /\ Len(rset'[t]) = Len(rset[t]) /\ Len(wset'[t]) = Len(wset[t])
           /\ \A i \in DOMAIN rset[t] :
                 /\ rset'[t][i].key = rset[t][i].key /\ rset'[t][i].occ = rset[t][i].occ
                 /\ rset'[t][i].dep = rset[t][i].dep /\ rset'[t][i].dseq = rset[t][i].dseq
                 /\ rset'[t][i].val = rset[t][i].val /\ rset'[t][i].clean = rset[t][i].clean
           /\ \A i \in DOMAIN wset[t] : wset'[t][i].key = wset[t][i].key
<1>1. wset[t] \in Seq(WriteRecords) /\ rset[t] \in Seq(ReadRecords)
  BY DEF TypeOK
<1>2. Len(wset'[t]) = Len(wset[t]) /\ Len(rset'[t]) = Len(rset[t])
  <2>1. PICK w \in Seq(WriteRecords), r \in Seq(ReadRecords) :
          /\ wset' = [wset EXCEPT ![t] = w] /\ Len(w) = Len(wset[t])
          /\ rset' = [rset EXCEPT ![t] = r] /\ Len(r) = Len(rset[t])
    BY CheckRmwSets
  <2> QED
    BY <2>1 DEF TypeOK
<1>3. ASSUME NEW i \in DOMAIN wset[t] PROVE wset'[t][i].key = wset[t][i].key
  <2>1. wset[t][i] \in WriteRecords
    BY <1>1
  <2>2. wset'[t][i] = IF i < wstart[t] THEN wset[t][i]
             ELSE [wset[t][i] EXCEPT !.re = FirstRead(t, wset[t][i].key)]
    BY DEF CheckRmw, TypeOK
  <2> QED
    BY <2>1, <2>2 DEF WriteRecords
<1>4. ASSUME NEW i \in DOMAIN rset[t]
      PROVE  /\ rset'[t][i].key = rset[t][i].key /\ rset'[t][i].occ = rset[t][i].occ
             /\ rset'[t][i].dep = rset[t][i].dep /\ rset'[t][i].dseq = rset[t][i].dseq
             /\ rset'[t][i].val = rset[t][i].val /\ rset'[t][i].clean = rset[t][i].clean
  <2>1. rset[t][i] \in ReadRecords
    BY <1>1
  <2>2. rset'[t][i] \in {rset[t][i], [rset[t][i] EXCEPT !.ow = TRUE]}
    BY DEF CheckRmw, TypeOK
  <2> QED
    BY <2>1, <2>2 DEF ReadRecords
<1> QED
  BY <1>2, <1>3, <1>4

LEMMA CheckRmwEntries ==
    ASSUME TypeOK, TypeOK', EntryInv, NEW t \in Txns, CheckRmw(t)
    PROVE  EntryInv'
<1>1. /\ pc[t] = "elock" /\ pc'[t] = "eread" /\ ix'[t] = rstart[t]
      /\ UNCHANGED <<list, rstart, wstart, run>>
  BY DEF CheckRmw, Goto, TypeOK
<1>2. rset[t] \in Seq(ReadRecords) /\ wset[t] \in Seq(WriteRecords)
  BY DEF TypeOK
<1>3. \A i \in 1..Len(rset[t]) : i \in 1..Len(rset'[t]) /\ rset'[t][i].key = rset[t][i].key
  BY <1>2, CheckRmwSame
<1>4. \A i \in 1..Len(wset[t]) : i \in 1..Len(wset'[t]) /\ wset'[t][i].key = wset[t][i].key
  BY <1>2, CheckRmwSame
<1>5. ASSUME NEW k \in Keys, NEW e \in Entries, e.tid[1] = t, EntryOf(k, e)
      PROVE  EntryOf(k, e)'
  BY <1>1, <1>3, <1>4, <1>5
     DEF EntryOf, ReadOut, WriteOut, ReadTop, WriteTop, WriteFrom, Building, Installing, Tid
<1>6. StepOf(t)
  BY DEF StepOf, Expose
<1> QED
  BY <1>1, <1>5, <1>6, ListsStay

(* The rollback shortens the sets to what is exposed.                      *)
LEMMA RetryEntries ==
    ASSUME TypeOK, TypeOK', EntryInv, NEW t \in Txns, RetryPiece(t)
    PROVE  EntryInv'
<1>1. /\ pc[t] = "undo" /\ pc'[t] = "exec" /\ LinkedReads(t, rstart[t]) = {}
      /\ UNCHANGED <<list, rstart, wstart, run>>
      /\ rset'[t] = SubSeq(rset[t], 1, rstart[t] - 1)
      /\ wset'[t] = SubSeq(wset[t], 1, wstart[t] - 1)
  BY DEF RetryPiece, Goto, TypeOK
<1>2. /\ rset[t] \in Seq(ReadRecords) /\ wset[t] \in Seq(WriteRecords)
      /\ rstart[t] \in 1..(Len(rset[t]) + 1) /\ wstart[t] \in 1..(Len(wset[t]) + 1)
  <2>1. /\ rset[t] \in Seq(ReadRecords) /\ wset[t] \in Seq(WriteRecords)
        /\ rstart[t] \in Nat \ {0} /\ wstart[t] \in Nat \ {0}
        /\ rstart[t] <= Len(rset[t]) + 1 /\ wstart[t] <= Len(wset[t]) + 1
    BY DEF TypeOK, PieceInSets
  <2> QED
    BY <2>1
<1>3. \A i \in 1..(rstart[t] - 1) : i \in 1..Len(rset'[t]) /\ rset'[t][i] = rset[t][i]
  BY <1>1, <1>2
<1>4. \A i \in 1..(wstart[t] - 1) : i \in 1..Len(wset'[t]) /\ wset'[t][i] = wset[t][i]
  BY <1>1, <1>2
<1>5. ASSUME NEW k \in Keys, NEW e \in Entries, e \in Elements(list[k]), e.tid[1] = t, EntryOf(k, e)
      PROVE  EntryOf(k, e)'
  <2>1. /\ e.tid = Tid(t) /\ e.tid = Tid(t)' /\ e.ix \in Nat /\ rstart[t] \in Nat
        /\ wstart[t] \in Nat /\ e.kind \in {"r", "w"}
    BY <1>1, <1>2, <1>5 DEF EntryOf, Entries, Tid
  <2>2. ASSUME e.kind = "r" PROVE ReadOut(t, k, e.ix)'
    <3>1. e.ix \in 1..Len(rset[t]) /\ rset[t][e.ix].key = k /\ Linked(k, ReadEntry(t, e.ix))
      BY <1>5, <2>1, <2>2, EntryIs DEF EntryOf, ReadOut
    <3>2. ~(e.ix \in rstart[t]..Len(rset[t]))
      BY <1>1, <3>1 DEF LinkedReads
    <3>3. e.ix \in 1..(rstart[t] - 1)
      BY <1>2, <2>1, <3>1, <3>2
    <3> QED
      BY <1>1, <1>3, <2>1, <3>1, <3>3 DEF ReadOut, ReadTop, Building
  <2>3. ASSUME e.kind = "w" PROVE WriteOut(t, k, e.ix)'
    <3>1. e.ix \in 1..Len(wset[t]) /\ wset[t][e.ix].key = k /\ e.ix < wstart[t]
      BY <1>1, <1>5, <2>3 DEF EntryOf, WriteOut, WriteTop
    <3>2. e.ix \in 1..(wstart[t] - 1)
      BY <1>2, <2>1, <3>1
    <3> QED
      BY <1>1, <1>4, <2>1, <3>1, <3>2 DEF WriteOut, WriteTop, Building
  <2>4. WriteFrom(t)' = 1
    BY <1>1 DEF WriteFrom, Installing
  <2>5. e.kind = "w" => e.ix >= 1
    BY <1>5, <2>1, <2>3 DEF EntryOf, WriteOut
  <2> QED
    BY <1>1, <1>5, <2>1, <2>2, <2>3, <2>4, <2>5 DEF EntryOf
<1>6. StepOf(t)
  BY DEF StepOf, Expose
<1> QED
  BY <1>1, <1>5, <1>6, ListsStay


(* Steps that only take entries out.                                       *)
LEMMA ShrinkStep ==
    ASSUME TypeOK, TypeOK', EntryInv, NEW t \in Txns, StepOf(t),
           \A k \in Keys : Once(list'[k]) /\ Elements(list'[k]) \subseteq Elements(list[k]),
           \A k \in Keys : \A e \in Elements(list'[k]) :
              e \in Entries /\ e.tid[1] = t /\ EntryOf(k, e) => EntryOf(k, e)'
    PROVE  EntryInv'
<1>1. ASSUME NEW k \in Keys, NEW e \in Elements(list'[k])
      PROVE  IF e.tid[1] = t THEN EntryOf(k, e)' ELSE e \in Elements(list[k])
  <2>1. e \in Elements(list[k]) /\ EntryOf(k, e)
    BY DEF EntryInv
  <2>2. e \in Entries
    BY <2>1, ElementType
  <2> QED
    BY <2>1, <2>2
<1> QED
  BY <1>1, EntryStep

LEMMA UnlinkedLists ==
    ASSUME TypeOK, EntryInv, NEW k \in Keys, NEW e, list' = [list EXCEPT ![k] = Unlink(@, e)]
    PROVE  \A j \in Keys : /\ Once(list'[j])
                           /\ Elements(list'[j]) = IF j = k THEN Elements(list[j]) \ {e}
                                                   ELSE Elements(list[j])
<1>1. ASSUME NEW j \in Keys
      PROVE  list[j] \in Seq(Entries) /\ Once(list[j])
             /\ list'[j] = IF j = k THEN Unlink(list[j], e) ELSE list[j]
  BY DEF TypeOK, EntryInv
<1>2. ASSUME NEW j \in Keys
      PROVE  /\ Once(Unlink(list[j], e))
             /\ Elements(Unlink(list[j], e)) = Elements(list[j]) \ {e}
  BY <1>1, UnlinkOnce
<1>3. ASSUME NEW j \in Keys, j # k
      PROVE  Once(list'[j]) /\ Elements(list'[j]) = Elements(list[j])
  <2>1. list'[j] = list[j] /\ Once(list[j])
    BY <1>1, <1>3
  <2> QED
    BY <2>1
<1>4. Once(list'[k]) /\ Elements(list'[k]) = Elements(list[k]) \ {e}
  <2>1. list'[k] = Unlink(list[k], e)
    BY <1>1
  <2> QED
    BY <1>2, <2>1
<1> QED
  BY <1>3, <1>4

LEMMA UnlinkedWrites ==
    ASSUME TypeOK, EntryInv, NEW t \in Txns, NEW k \in Keys, NEW i,
           list' = [list EXCEPT ![k] = UnlinkWrite(t, i, @)]
    PROVE  \A j \in Keys :
              /\ Once(list'[j]) /\ Elements(list'[j]) \subseteq Elements(list[j])
              /\ j = k => WriteEntry(t, i) \notin Elements(list'[j])
<1> DEFINE e == WriteEntry(t, i)
           f == ReadEntry(t, wset[t][i].re)
<1>1. ASSUME NEW j \in Keys
      PROVE  list[j] \in Seq(Entries) /\ Once(list[j])
             /\ list'[j] = IF j = k THEN Unlink(Unlink(list[j], e), f) ELSE list[j]
  BY DEF TypeOK, EntryInv, UnlinkWrite
<1>2. ASSUME NEW j \in Keys
      PROVE  /\ Unlink(list[j], e) \in Seq(Entries) /\ Once(Unlink(list[j], e))
             /\ Elements(Unlink(list[j], e)) = Elements(list[j]) \ {e}
  BY <1>1, UnlinkOnce, UnlinkType
<1> HIDE DEF e, f
<1>3. ASSUME NEW j \in Keys
      PROVE  /\ Once(Unlink(Unlink(list[j], e), f))
             /\ Elements(Unlink(Unlink(list[j], e), f)) = (Elements(list[j]) \ {e}) \ {f}
  <2>1. Unlink(list[j], e) \in Seq(Entries) /\ Once(Unlink(list[j], e))
    BY <1>2
  <2> QED
    BY <1>2, <2>1, UnlinkOnce
<1>4. ASSUME NEW j \in Keys
      PROVE  /\ Once(list'[j]) /\ Elements(list'[j]) \subseteq Elements(list[j])
             /\ j = k => e \notin Elements(list'[j])
  BY <1>1, <1>3
<1> QED
  BY <1>4 DEF e

(* The read entries that a rollback or the end of a transaction unlinks,   *)
(* and the entries that an abort unlinks.                                  *)
LEMMA UnlinkEntries ==
    ASSUME TypeOK, TypeOK', EntryInv, NEW t \in Txns,
           UndoOne(t) \/ UnlinkRead(t) \/ AbortUnlinkWrite(t)
    PROVE  EntryInv'
<1>1. UNCHANGED <<pc, run, rset, wset, rstart, wstart, ix>>
  BY DEF UndoOne, UnlinkRead, AbortUnlinkWrite, control, sets
<1>2. ASSUME NEW k \in Keys
      PROVE  Once(list'[k]) /\ Elements(list'[k]) \subseteq Elements(list[k])
  <2>1. rset[t] \in Seq(ReadRecords) /\ wset[t] \in Seq(WriteRecords)
        /\ rstart[t] \in Nat \ {0} /\ Len(rset[t]) \in Nat
    BY DEF TypeOK
  <2>2. ASSUME NEW i \in 1..Len(rset[t]) PROVE rset[t][i].key \in Keys
    <3>1. rset[t][i] \in ReadRecords
      BY <2>1
    <3> QED
      BY <3>1 DEF ReadRecords
  <2>3. ASSUME NEW i \in 1..Len(wset[t]) PROVE wset[t][i].key \in Keys
    <3>1. wset[t][i] \in WriteRecords
      BY <2>1
    <3> QED
      BY <3>1 DEF WriteRecords
  <2>4. CASE UndoOne(t)
    <3>1. PICK i \in rstart[t]..Len(rset[t]) :
            list' = [list EXCEPT ![rset[t][i].key] = Unlink(@, ReadEntry(t, i))]
      BY <2>4 DEF UndoOne
    <3>2. i \in 1..Len(rset[t])
      BY <2>1
    <3>3. rset[t][i].key \in Keys
      BY <2>2, <3>2
    <3>4. \A j \in Keys : /\ Once(list'[j])
                          /\ Elements(list'[j]) =
                                IF j = rset[t][i].key THEN Elements(list[j]) \ {ReadEntry(t, i)}
                                ELSE Elements(list[j])
      BY <3>1, <3>3, UnlinkedLists
    <3> QED
      BY <3>4
  <2>5. CASE UnlinkRead(t)
    <3>1. PICK i \in 1..Len(rset[t]) :
            list' = [list EXCEPT ![rset[t][i].key] = Unlink(@, ReadEntry(t, i))]
      BY <2>5 DEF UnlinkRead, LinkedReads
    <3>2. rset[t][i].key \in Keys
      BY <2>2
    <3>3. \A j \in Keys : /\ Once(list'[j])
                          /\ Elements(list'[j]) =
                                IF j = rset[t][i].key THEN Elements(list[j]) \ {ReadEntry(t, i)}
                                ELSE Elements(list[j])
      BY <3>1, <3>2, UnlinkedLists
    <3> QED
      BY <3>3
  <2>6. CASE AbortUnlinkWrite(t)
    <3>1. PICK i \in DOMAIN wset[t] :
            list' = [list EXCEPT ![wset[t][i].key] = UnlinkWrite(t, i, @)]
      BY <2>6 DEF AbortUnlinkWrite, LinkedWrites
    <3>2. wset[t][i].key \in Keys
      BY <2>1, <2>3
    <3> QED
      BY <3>1, <3>2, UnlinkedWrites
  <2> QED
    BY <2>4, <2>5, <2>6
<1>3. \A k \in Keys : \A e : EntryOf(k, e) /\ e.tid[1] = t => EntryOf(k, e)'
  BY <1>1 DEF EntryOf, ReadOut, WriteOut, ReadTop, WriteTop, WriteFrom, Tid
<1>4. StepOf(t)
  BY DEF StepOf, Expose, Commit, Abort
<1> QED
  BY <1>2, <1>3, <1>4, ShrinkStep

(* Of the writes, that which has its turn is unlinked.                     *)
LEMMA InstallEntries ==
    ASSUME TypeOK, TypeOK', EntryInv, NEW t \in Txns, SkipWrite(t) \/ ReleaseWrite(t)
    PROVE  EntryInv'
<1>1. /\ pc[t] \in Installing /\ pc'[t] = "install" /\ ix'[t] = ix[t] + 1
      /\ ix[t] <= Len(wset[t]) /\ UNCHANGED <<run, rset, wset, rstart, wstart>>
      /\ list' = [list EXCEPT ![wset[t][ix[t]].key] = UnlinkWrite(t, ix[t], @)]
  BY DEF SkipWrite, ReleaseWrite, Goto, TypeOK, control, sets, Installing
<1>2. /\ wset[t][ix[t]].key \in Keys /\ ix[t] \in Nat /\ wset[t] \in Seq(WriteRecords)
      /\ Len(wset[t]) \in Nat /\ rset[t] \in Seq(ReadRecords)
  BY <1>1, WriteIndex DEF TypeOK
<1>3. \A k \in Keys :
        /\ Once(list'[k]) /\ Elements(list'[k]) \subseteq Elements(list[k])
        /\ k = wset[t][ix[t]].key => WriteEntry(t, ix[t]) \notin Elements(list'[k])
  BY <1>1, <1>2, UnlinkedWrites
<1>4. /\ ReadTop(t) = Len(rset[t]) + 1 /\ ReadTop(t)' = Len(rset[t]) + 1
      /\ WriteTop(t) = Len(wset[t]) + 1 /\ WriteTop(t)' = Len(wset[t]) + 1
      /\ WriteFrom(t) = ix[t] /\ WriteFrom(t)' = ix[t] + 1
  BY <1>1 DEF ReadTop, WriteTop, WriteFrom, Installing, Building
<1>5. ASSUME NEW k \in Keys, NEW e \in Elements(list'[k]), e \in Entries, e.tid[1] = t, EntryOf(k, e)
      PROVE  EntryOf(k, e)'
  <2>1. /\ e.tid = Tid(t) /\ e.tid = Tid(t)' /\ pc'[t] \notin {"idle", "ctor"} /\ e.ix \in Nat
    BY <1>1, <1>5 DEF EntryOf, Tid, Entries
  <2>2. e.kind = "r" => ReadOut(t, k, e.ix)'
    BY <1>1, <1>4, <1>5 DEF EntryOf, ReadOut
  <2>3. ASSUME e.kind = "w" PROVE WriteOut(t, k, e.ix)' /\ e.ix >= WriteFrom(t)'
    <3>1. WriteOut(t, k, e.ix) /\ e.ix >= ix[t]
      BY <1>4, <1>5, <2>3 DEF EntryOf
    <3>2. e.ix # ix[t]
      <4>1. SUFFICES ASSUME e.ix = ix[t] PROVE FALSE
        OBVIOUS
      <4>2. k = wset[t][ix[t]].key
        BY <3>1, <4>1 DEF WriteOut
      <4>3. e \in Elements(list[k])
        BY <1>3
      <4>4. e = WriteEntry(t, ix[t])
        BY <2>1, <2>3, <4>1, <4>3, EntryIs
      <4> QED
        BY <1>3, <4>2, <4>4
    <3>3. e.ix >= WriteFrom(t)'
      BY <1>2, <1>4, <2>1, <3>1, <3>2
    <3> QED
      BY <1>1, <1>4, <3>1, <3>3 DEF WriteOut
  <2> QED
    BY <1>5, <2>1, <2>2, <2>3 DEF EntryOf
<1>6. StepOf(t)
  BY DEF StepOf, Commit
<1> QED
  BY <1>3, <1>5, <1>6, ShrinkStep

(* Exposing links the entry of the access whose turn it is.                *)
LEMMA LinkStep ==
    ASSUME TypeOK, TypeOK', EntryInv, NEW t \in Txns, StepOf(t),
           UNCHANGED <<pc, run, rset, wset, rstart, wstart>>,
           pc[t] \in {"eread", "ewrite"}, ix'[t] = ix[t] + 1,
           NEW k \in Keys, NEW e,
           \/ /\ pc[t] = "eread" /\ ix[t] <= Len(rset[t]) /\ k = rset[t][ix[t]].key
              /\ e = ReadEntry(t, ix[t])
           \/ /\ pc[t] = "ewrite" /\ ix[t] <= Len(wset[t]) /\ k = wset[t][ix[t]].key
              /\ e = WriteEntry(t, ix[t]),
           \/ list' = list
           \/ list' = [list EXCEPT ![k] = Append(@, e)]
    PROVE  EntryInv'
<1>1. /\ ix[t] \in Nat \ {0} /\ rset[t] \in Seq(ReadRecords) /\ wset[t] \in Seq(WriteRecords)
      /\ rstart[t] \in Nat /\ wstart[t] \in Nat /\ run[t] \in Nat
  BY DEF TypeOK
<1>2. /\ ReadTop(t) = (IF pc[t] = "eread" THEN ix[t] ELSE Len(rset[t]) + 1)
      /\ WriteTop(t) = (IF pc[t] = "eread" THEN wstart[t] ELSE ix[t]) /\ WriteFrom(t) = 1
  BY DEF ReadTop, WriteTop, WriteFrom, Building, Installing
<1>3. /\ ReadTop(t)' = (IF pc[t] = "eread" THEN ix[t] + 1 ELSE Len(rset[t]) + 1)
      /\ WriteTop(t)' = (IF pc[t] = "eread" THEN wstart[t] ELSE ix[t] + 1) /\ WriteFrom(t)' = 1
  BY DEF ReadTop, WriteTop, WriteFrom, Building, Installing
<1>4. e \in Entries /\ e.tid = Tid(t) /\ e.tid[1] = t /\ e.ix = ix[t]
  BY <1>1 DEF ReadEntry, WriteEntry, Entries, RunTids, Tid
<1>5. e.kind = IF pc[t] = "eread" THEN "r" ELSE "w"
  BY DEF ReadEntry, WriteEntry
<1>6. e \notin Elements(list[k])
  <2>1. SUFFICES ASSUME EntryOf(k, e) PROVE FALSE
    BY DEF EntryInv
  <2>2. CASE pc[t] = "eread"
    BY <1>1, <1>2, <1>4, <1>5, <2>1, <2>2 DEF EntryOf, ReadOut
  <2>3. CASE pc[t] = "ewrite"
    BY <1>1, <1>2, <1>4, <1>5, <2>1, <2>3 DEF EntryOf, WriteOut
  <2> QED
    BY <2>2, <2>3
<1>7. EntryOf(k, e)'
  <2>1. e.tid = Tid(t)' /\ pc'[t] \notin {"idle", "ctor"}
    BY <1>4 DEF Tid
  <2>2. CASE pc[t] = "eread"
    <3>1. ReadOut(t, k, e.ix)'
      BY <1>1, <1>3, <1>4, <2>2 DEF ReadOut
    <3> QED
      BY <1>4, <1>5, <2>1, <2>2, <3>1 DEF EntryOf
  <2>3. CASE pc[t] = "ewrite"
    <3>1. WriteOut(t, k, e.ix)' /\ e.ix >= WriteFrom(t)'
      BY <1>1, <1>3, <1>4, <2>3 DEF WriteOut
    <3> QED
      BY <1>4, <1>5, <2>1, <2>3, <3>1 DEF EntryOf
  <2> QED
    BY <2>2, <2>3
<1>8. ASSUME NEW j \in Keys, NEW x \in Entries, x.tid[1] = t, EntryOf(j, x)
      PROVE  EntryOf(j, x)'
  <2>1. x.tid = Tid(t)' /\ pc'[t] \notin {"idle", "ctor"} /\ x.ix \in Nat
    BY <1>8 DEF EntryOf, Entries, Tid
  <2>2. ASSUME x.kind = "r" PROVE ReadOut(t, j, x.ix)'
    <3>1. ReadOut(t, j, x.ix)
      BY <1>8, <2>2 DEF EntryOf
    <3>2. CASE pc[t] = "eread"
      BY <1>1, <1>2, <1>3, <2>1, <3>1, <3>2 DEF ReadOut
    <3>3. CASE pc[t] = "ewrite"
      BY <1>1, <1>2, <1>3, <2>1, <3>1, <3>3 DEF ReadOut
    <3> QED
      BY <3>2, <3>3
  <2>3. ASSUME x.kind = "w" PROVE WriteOut(t, j, x.ix)' /\ x.ix >= WriteFrom(t)'
    <3>1. WriteOut(t, j, x.ix) /\ x.ix >= WriteFrom(t)
      BY <1>8, <2>3 DEF EntryOf
    <3>2. CASE pc[t] = "eread"
      BY <1>1, <1>2, <1>3, <2>1, <3>1, <3>2 DEF WriteOut
    <3>3. CASE pc[t] = "ewrite"
      BY <1>1, <1>2, <1>3, <2>1, <3>1, <3>3 DEF WriteOut
    <3> QED
      BY <3>2, <3>3
  <2> QED
    BY <1>8, <2>1, <2>2, <2>3 DEF EntryOf
<1>9. ASSUME NEW j \in Keys
      PROVE  /\ Once(list'[j])
             /\ \A x \in Elements(list'[j]) : x \in Elements(list[j]) \/ (j = k /\ x = e)
  <2>1. list[j] \in Seq(Entries) /\ Once(list[j])
    BY DEF TypeOK, EntryInv
  <2>2. list'[j] = list[j] \/ (j = k /\ list'[j] = Append(list[j], e))
    BY ZenonT(40) DEF TypeOK
  <2>3. CASE list'[j] = list[j]
    BY <2>1, <2>3
  <2>4. CASE j = k /\ list'[j] = Append(list[j], e)
    <3>1. Once(Append(list[k], e)) /\ Elements(Append(list[k], e)) = Elements(list[k]) \cup {e}
      BY <1>4, <1>6, <2>1, <2>4, AppendOnce
    <3> QED
      BY <2>4, <3>1
  <2> QED
    BY <2>2, <2>3, <2>4
<1>10. ASSUME NEW j \in Keys, NEW x \in Elements(list'[j])
       PROVE  IF x.tid[1] = t THEN EntryOf(j, x)' ELSE x \in Elements(list[j])
  <2>1. CASE x \in Elements(list[j])
    BY <1>8, <2>1, ElementType DEF EntryInv
  <2>2. CASE j = k /\ x = e
    BY <1>4, <1>7, <2>2
  <2> QED
    BY <1>9, <2>1, <2>2
<1> QED
  BY <1>9, <1>10, EntryStep

LEMMA LinkEntries ==
    ASSUME TypeOK, TypeOK', EntryInv, NEW t \in Txns, ExposeRead(t) \/ ExposeWrite(t)
    PROVE  EntryInv'
<1>1. StepOf(t) /\ UNCHANGED <<pc, run, rset, wset, rstart, wstart>> /\ ix'[t] = ix[t] + 1
  BY ZenonT(40) DEF StepOf, Expose, ExposeRead, ExposeWrite, control, sets, TypeOK
<1>2. CASE ExposeRead(t)
  <2> DEFINE k == rset[t][ix[t]].key
  <2>1. pc[t] = "eread" /\ ix[t] <= Len(rset[t]) /\ k \in Keys
    BY <1>2, ReadIndex DEF ExposeRead
  <2>2. list' = list \/ list' = [list EXCEPT ![k] = Append(@, ReadEntry(t, ix[t]))]
    BY <1>2 DEF ExposeRead
  <2> QED
    BY <1>1, <2>1, <2>2, LinkStep
<1>3. CASE ExposeWrite(t)
  <2> DEFINE k == wset[t][ix[t]].key
  <2>1. pc[t] = "ewrite" /\ ix[t] <= Len(wset[t]) /\ k \in Keys
    BY <1>3, WriteIndex DEF ExposeWrite
  <2>2. list' = [list EXCEPT ![k] = Append(@, WriteEntry(t, ix[t]))]
    BY <1>3 DEF ExposeWrite
  <2> QED
    BY <1>1, <2>1, <2>2, LinkStep
<1> QED
  BY <1>2, <1>3

LEMMA InitEntries == Init => EntryInv
BY DEF Init, EntryInv, Once, Elements

LEMMA NextEntries == TypeOK /\ TypeOK' /\ EntryInv /\ [Next]_vars => EntryInv'
<1> SUFFICES ASSUME TypeOK, TypeOK', EntryInv, [Next]_vars PROVE EntryInv'
  OBVIOUS
<1>1. CASE UNCHANGED vars \/ Tick \/ Stop
  BY <1>1 DEF Tick, Stop, vars, control, sets, EntryInv, EntryOf, ReadOut, WriteOut, ReadTop, WriteTop,
              WriteFrom, Tid
<1>2. ASSUME NEW t \in Txns, StepOf(t) PROVE EntryInv'
  BY <1>2, Draws, PlainEntries, NoEntries, ExtendEntries, CheckRmwEntries, RetryEntries,
     UnlinkEntries, InstallEntries, LinkEntries DEF StepOf, Execute, Expose, Commit, Abort
<1> QED
  BY <1>1, <1>2 DEF Next, StepOf

(* Once every entry is that of a running transaction, linked once.         *)
THEOREM EntriesCorrect == Spec => []EntryInv
<1>1. TypeOK /\ EntryInv /\ [Next]_vars => EntryInv'
  BY NextType, NextEntries
<1> QED
  BY InitEntries, <1>1, TypeCorrect, PTL DEF Spec

(* An access list names only running transactions, by entries of their     *)
(* current sets, each once.                                                *)
THEOREM ListsAlive == Spec => []NoDanglingEntries
<1>1. TypeOK /\ EntryInv => NoDanglingEntries
  <2> SUFFICES ASSUME TypeOK, EntryInv, NEW k \in Keys, NEW j \in DOMAIN list[k]
               PROVE  LET e == list[k][j]
                          t == e.tid[1]
                      IN /\ e.tid = Tid(t) /\ pc[t] \notin {"idle", "ctor"}
                         /\ IF e.kind = "r"
                            THEN e.ix \in DOMAIN rset[t] /\ rset[t][e.ix].key = k
                            ELSE e.ix \in DOMAIN wset[t] /\ wset[t][e.ix].key = k
                         /\ \A i \in DOMAIN list[k] : list[k][i] = e => i = j
    BY DEF NoDanglingEntries
  <2> DEFINE e == list[k][j]
             t == e.tid[1]
  <2>1. e \in Elements(list[k]) /\ Once(list[k]) /\ EntryOf(k, e)
    BY DEF Elements, EntryInv
  <2>2. t \in Txns /\ e.kind \in {"r", "w"}
    BY <2>1, ElementType
  <2>3. DOMAIN rset[t] = 1..Len(rset[t]) /\ DOMAIN wset[t] = 1..Len(wset[t])
    BY <2>2 DEF TypeOK
  <2>4. \A i \in DOMAIN list[k] : list[k][i] = e => i = j
    BY <2>1 DEF Once
  <2> HIDE DEF e
  <2>5. IF e.kind = "r" THEN e.ix \in DOMAIN rset[t] /\ rset[t][e.ix].key = k
        ELSE e.ix \in DOMAIN wset[t] /\ wset[t][e.ix].key = k
    BY <2>1, <2>2, <2>3 DEF EntryOf, ReadOut, WriteOut
  <2>6. e.tid = Tid(t) /\ pc[t] \notin {"idle", "ctor"}
    BY <2>1 DEF EntryOf
  <2> QED
    BY <2>4, <2>5, <2>6 DEF e
<1> QED
  BY <1>1, TypeCorrect, EntriesCorrect, PTL

-----------------------------------------------------------------------------
(* What a transaction that is past its validation has read.                *)

DecidedPcs == {"gen", "install", "release", "cleanup"}

(* A clean read returns a decided value, or one of the reader's own; a     *)
(* dirty one that of the write it depends on.                              *)
ReadOk(t, r) ==
    IF IsClean(r) THEN r.val.tid \in {Tid(t), NoTid} \/ Decided(r.val.tid)
    ELSE r.val = [tid |-> r.dep, ix |-> r.dseq] /\ r.dep[2] # 0
(* The reads whose writers t has found committed.                          *)
Passed(t) ==
    IF pc[t] \in DecidedPcs THEN DOMAIN rset[t]
    ELSE IF pc[t] = "validate" THEN 1..(ix[t] - 1)
    ELSE IF pc[t] \in {"vver", "vseq", "vint"} THEN 1..ix[t] ELSE {}
TxnReads(t) ==
    /\ pc[t] = "ctor" => rset[t] = <<>>
    /\ pc[t] \notin {"idle", "ctor"} => run[t] # 0
    /\ state[t] = "COMMITED" =>
          pc[t] = "idle" /\ (run[t] = 0 \/ \E h \in hist : h.tid = Tid(t))
    /\ \A i \in DOMAIN rset[t] : ReadOk(t, rset[t][i])
    /\ \A i \in DOMAIN rset[t] \cap Passed(t) :
          IsClean(rset[t][i]) \/ Decided(rset[t][i].dep)
ValuesDecided == \A k \in Keys : val[k].tid = NoTid \/ Decided(val[k].tid)
HistoryRead ==
    \A h \in hist : \A r \in h.reads : r.val.tid \in {h.tid, NoTid} \/ Decided(r.val.tid)
ReadInv == ValuesDecided /\ HistoryRead /\ \A t \in Txns : TxnReads(t)

(* What is decided stays so.                                               *)
LEMMA DecidedStays ==
    ASSUME TypeOK, NEW t \in Txns, StepOf(t)
    PROVE  hist \subseteq hist' /\ \A d : Decided(d) => Decided(d)'
<1>1. pc[t] \in DecidedPcs =>
         \/ GenRead(t) \/ Draw(t) \/ SkipWrite(t) \/ InstallWrite(t) \/ ReleaseWrite(t)
         \/ Installed(t) \/ UnlinkRead(t) \/ Finish(t)
  BY Draws DEF StepOf, Execute, Expose, Commit, Abort, DecidedPcs, Begin, NewTid, StartWait, WaitOne, WaitEnd,
         WaitThrow, Get, Put, Update, Accessing, NoPieceEnd, PieceEnd, UserAbort, ExposeLock, CheckRmw,
         ExposeRead, ReadsExposed, ExposeWrite, ExposeDone, ExposeFail, UndoOne, RetryPiece, StartCommit,
         CommitWaitOne, CommitWaitFail, CommitWaitEnd, LockWrite, WritesLocked, ValidateClean,
         ValidateDirty, ValidateFail, DirtyTesting, Validated, AbortUnlock, AbortUnlinkWrite, Aborted
<1>2. pc[t] \in DecidedPcs =>
         /\ run'[t] = run[t]
         /\ pc'[t] \in DecidedPcs \/ \E h \in hist' : h.tid = Tid(t)
  <2> USE DEF DecidedPcs, TypeOK, Goto, control
  <2>1. CASE SkipWrite(t)
    BY <2>1 DEF SkipWrite
  <2>2. CASE InstallWrite(t)
    BY <2>2 DEF InstallWrite
  <2>3. CASE ReleaseWrite(t)
    BY <2>3 DEF ReleaseWrite
  <2>4. CASE Installed(t)
    BY <2>4 DEF Installed
  <2>5. CASE UnlinkRead(t)
    BY <2>5 DEF UnlinkRead
  <2>6. CASE Finish(t)
    <3>1. run' = run /\ [tid |-> Tid(t), reads |-> Reads(t)] \in hist'
      BY <2>6 DEF Finish
    <3> QED
      BY <3>1
  <2>7. CASE GenRead(t)
    BY <2>7 DEF GenRead
  <2>8. CASE Draw(t)
    BY <2>8 DEF Draw, DrawTid
  <2> QED
    BY <1>1, <2>1, <2>2, <2>3, <2>4, <2>5, <2>6, <2>7, <2>8
<1>3. hist \subseteq hist'
  <2>1. CASE Finish(t)
    BY <2>1 DEF Finish
  <2>2. CASE InstallWrite(t)
    BY <2>2 DEF InstallWrite
  <2>3. CASE ~Finish(t) /\ ~InstallWrite(t)
    <3>1. UNCHANGED hist
      BY <2>3 DEF StepOf, Execute, Expose, Commit, Abort, ghost, Begin, NewTid, StartWait, WaitOne, WaitEnd,
         WaitThrow, Get, Put, Update, Accessing, NoPieceEnd, PieceEnd, UserAbort, ExposeLock, CheckRmw,
         ExposeRead, ReadsExposed, ExposeWrite, ExposeDone, ExposeFail, UndoOne, RetryPiece, StartCommit,
         CommitWaitOne, CommitWaitFail, CommitWaitEnd, LockWrite, WritesLocked, ValidateClean,
         ValidateDirty, ValidateFail, Validated, GenRead, GenCommitTid, GenCommitTidOvertaken, DrawTid,
         AbortUnlock, AbortUnlinkWrite, Aborted, SkipWrite, ReleaseWrite, Installed, UnlinkRead
    <3> QED
      BY <3>1
  <2> QED
    BY <2>1, <2>2, <2>3
<1>4. ASSUME NEW d, Decided(d) PROVE Decided(d)'
  <2>1. CASE \E h \in hist : h.tid = d
    BY <1>3, <2>1 DEF Decided
  <2>2. CASE d[1] \in Txns /\ d = Tid(d[1]) /\ pc[d[1]] \in DecidedPcs
    <3>1. CASE d[1] = t
      BY <1>2, <2>2, <3>1 DEF Decided, Tid, DecidedPcs
    <3>2. CASE d[1] # t
      <4>1. Still(d[1])
        BY <2>2, <3>2, OthersStay
      <4> QED
        BY <2>2, <4>1 DEF Still, Local, Decided, Tid, DecidedPcs
    <3> QED
      BY <3>1, <3>2
  <2> QED
    BY <1>4, <2>1, <2>2 DEF Decided, DecidedPcs
<1> QED
  BY <1>3, <1>4

(* It is enough to look at the transaction that steps.                     *)
LEMMA ReadStep ==
    ASSUME TypeOK, ReadInv, NEW t \in Txns, StepOf(t), TxnReads(t)', ValuesDecided', HistoryRead'
    PROVE  ReadInv'
<1>1. hist \subseteq hist' /\ \A d : Decided(d) => Decided(d)'
  BY DecidedStays
<1>2. ASSUME NEW u \in Txns \ {t} PROVE TxnReads(u)'
  <2>1. /\ pc'[u] = pc[u] /\ run'[u] = run[u] /\ state'[u] = state[u] /\ rset'[u] = rset[u]
        /\ ix'[u] = ix[u]
    BY OthersStay DEF Still, Local
  <2>2. TxnReads(u)
    BY DEF ReadInv
  <2>3. Tid(u)' = Tid(u) /\ Passed(u)' = Passed(u)
    BY <2>1 DEF Tid, Passed
  <2>4. ASSUME NEW i \in DOMAIN rset[u] PROVE ReadOk(u, rset[u][i])'
    BY <1>1, <2>1, <2>2, <2>3 DEF TxnReads, ReadOk, IsClean
  <2>5. ASSUME NEW i \in DOMAIN rset[u] \cap Passed(u)
        PROVE IsClean(rset[u][i])' \/ Decided(rset[u][i].dep)'
    BY <1>1, <2>1, <2>2 DEF TxnReads, IsClean
  <2> QED
    BY <1>1, <2>1, <2>2, <2>3, <2>4, <2>5 DEF TxnReads
<1> QED
  BY <1>2 DEF ReadInv

(* The values and the committed transactions stay, more may be decided.    *)
LEMMA HistoryStays ==
    ASSUME TypeOK, ReadInv, NEW t \in Txns, StepOf(t)
    PROVE  (UNCHANGED val => ValuesDecided') /\ (UNCHANGED hist => HistoryRead')
<1>1. \A d : Decided(d) => Decided(d)'
  BY DecidedStays
<1>2. UNCHANGED val => ValuesDecided'
  BY <1>1 DEF ReadInv, ValuesDecided
<1>3. UNCHANGED hist => HistoryRead'
  BY <1>1 DEF ReadInv, HistoryRead
<1> QED
  BY <1>2, <1>3

(* A step that keeps the reads and accepts no more of them.                *)
LEMMA ReadsKept ==
    ASSUME TypeOK, ReadInv, NEW t \in Txns, StepOf(t),
           run'[t] = run[t], rset'[t] = rset[t],
           pc[t] \notin {"idle", "ctor"}, pc'[t] \notin {"idle", "ctor"},
           state'[t] # "COMMITED" \/ state'[t] = state[t],
           \A i \in DOMAIN rset[t] : i \in Passed(t)' =>
              i \in Passed(t) \/ IsClean(rset[t][i]) \/ Decided(rset[t][i].dep)
    PROVE  TxnReads(t)'
<1>1. \A d : Decided(d) => Decided(d)'
  BY DecidedStays
<1>2. TxnReads(t) /\ Tid(t)' = Tid(t)
  BY DEF ReadInv, Tid
<1>3. ASSUME NEW i \in DOMAIN rset[t] PROVE ReadOk(t, rset[t][i])'
  BY <1>1, <1>2 DEF TxnReads, ReadOk, IsClean
<1>4. ASSUME NEW i \in DOMAIN rset[t], i \in Passed(t)'
      PROVE  IsClean(rset[t][i])' \/ Decided(rset[t][i].dep)'
  BY <1>1, <1>2, <1>4 DEF TxnReads, IsClean
<1>5. state'[t] # "COMMITED"
  BY <1>2 DEF TxnReads
<1> QED
  BY <1>2, <1>3, <1>4, <1>5 DEF TxnReads

LEMMA ReadsOn ==
    ASSUME TypeOK, ReadInv, NEW t \in Txns, StepOf(t),
           run'[t] = run[t], rset'[t] = rset[t], UNCHANGED <<val, hist>>,
           pc[t] \notin {"idle", "ctor"}, pc'[t] \notin {"idle", "ctor"},
           state'[t] # "COMMITED" \/ state'[t] = state[t],
           \A i \in DOMAIN rset[t] : i \in Passed(t)' =>
              i \in Passed(t) \/ IsClean(rset[t][i]) \/ Decided(rset[t][i].dep)
    PROVE  ReadInv'
BY ReadsKept, ReadStep, HistoryStays

LEMMA PlainPhases ==
    ASSUME TypeOK, TypeOK', NEW t \in Txns,
           \/ StartWait(t) \/ WaitOne(t) \/ WaitEnd(t) \/ WaitThrow(t) \/ NoPieceEnd(t)
           \/ PieceEnd(t) \/ UserAbort(t) \/ ExposeLock(t) \/ ExposeRead(t) \/ ReadsExposed(t)
           \/ ExposeWrite(t) \/ ExposeDone(t) \/ ExposeFail(t) \/ UndoOne(t) \/ StartCommit(t)
           \/ CommitWaitOne(t) \/ CommitWaitFail(t) \/ CommitWaitEnd(t) \/ LockWrite(t)
           \/ WritesLocked(t) \/ ValidateFail(t) \/ GenRead(t) \/ Draw(t) \/ SkipWrite(t)
           \/ ReleaseWrite(t) \/ Installed(t) \/ UnlinkRead(t) \/ AbortUnlock(t) \/ AbortUnlinkWrite(t)
    PROVE  /\ run'[t] = run[t] /\ rset'[t] = rset[t] /\ wset'[t] = wset[t] /\ UNCHANGED <<val, hist>>
           /\ pc[t] \notin {"idle", "ctor"} /\ pc'[t] \notin {"idle", "ctor"}
           /\ state'[t] # "COMMITED" \/ state'[t] = state[t]
           /\ pc'[t] \in DecidedPcs => pc[t] \in DecidedPcs
           /\ pc'[t] = "validate" => WritesLocked(t) /\ ix'[t] = 1
           /\ pc'[t] \notin {"vver", "vseq", "vint", "release"}
<1> USE DEF TypeOK, Goto, DecidedPcs, control, sets, waiting, record, ghost
<1>3. CASE StartWait(t)
  <2>1. /\ pc[t] \in {"exec", "piece"} /\ pc' \in {[pc EXCEPT ![t] = "wait"], [pc EXCEPT ![t] = "pwait"]}
        /\ UNCHANGED <<run, rset, wset, val, hist, state>>
    BY <1>3 DEF StartWait
  <2> QED
    BY <2>1
<1>4. CASE WaitOne(t)
  BY <1>4 DEF WaitOne
<1>5. CASE WaitEnd(t)
  BY <1>5 DEF WaitEnd
<1>6. CASE WaitThrow(t)
  BY <1>6 DEF WaitThrow
<1>7. CASE NoPieceEnd(t)
  BY <1>7 DEF NoPieceEnd
<1>8. CASE PieceEnd(t)
  BY <1>8 DEF PieceEnd
<1>9. CASE UserAbort(t)
  BY <1>9 DEF UserAbort
<1>10. CASE ExposeLock(t)
  BY <1>10 DEF ExposeLock
<1>11. CASE ReadsExposed(t)
  BY <1>11 DEF ReadsExposed
<1>12. CASE ExposeDone(t)
  BY <1>12 DEF ExposeDone
<1>13. CASE ExposeFail(t)
  BY <1>13 DEF ExposeFail
<1>14. CASE StartCommit(t)
  BY <1>14 DEF StartCommit
<1>15. CASE CommitWaitOne(t)
  BY <1>15 DEF CommitWaitOne
<1>16. CASE CommitWaitFail(t)
  BY <1>16 DEF CommitWaitFail
<1>17. CASE CommitWaitEnd(t)
  BY <1>17 DEF CommitWaitEnd
<1>18. CASE LockWrite(t)
  BY <1>18 DEF LockWrite
<1>19. CASE WritesLocked(t)
  BY <1>19 DEF WritesLocked
<1>20. CASE ExposeRead(t)
  BY <1>20 DEF ExposeRead
<1>21. CASE ExposeWrite(t)
  BY <1>21 DEF ExposeWrite
<1>22. CASE ValidateFail(t)
  <2>1. pc[t] \in {"validate", "vver", "vseq", "vint"}
    BY <1>22 DEF ValidateFail, DirtyTesting
  <2> QED
    BY <1>22, <2>1 DEF ValidateFail
<1>23. CASE UndoOne(t)
  BY <1>23 DEF UndoOne
<1>24. CASE SkipWrite(t)
  BY <1>24 DEF SkipWrite
<1>25. CASE ReleaseWrite(t)
  BY <1>25 DEF ReleaseWrite
<1>26. CASE Installed(t)
  BY <1>26 DEF Installed
<1>27. CASE UnlinkRead(t)
  BY <1>27 DEF UnlinkRead
<1>28. CASE AbortUnlock(t)
  BY <1>28 DEF AbortUnlock
<1>29. CASE AbortUnlinkWrite(t)
  BY <1>29 DEF AbortUnlinkWrite
<1>30. CASE GenRead(t)
  BY <1>30 DEF GenRead
<1>31. CASE Draw(t)
  BY <1>31 DEF Draw, DrawTid
<1> QED
  BY <1>3, <1>4, <1>5, <1>6, <1>7, <1>8, <1>9, <1>10, <1>11, <1>12, <1>13, <1>14, <1>15, <1>16, <1>17,
     <1>18, <1>19, <1>20, <1>21, <1>22, <1>23, <1>24, <1>25, <1>26, <1>27, <1>28, <1>29, <1>30,
     <1>31

LEMMA PlainReads ==
    ASSUME TypeOK, TypeOK', ReadInv, NEW t \in Txns,
           \/ StartWait(t) \/ WaitOne(t) \/ WaitEnd(t) \/ WaitThrow(t) \/ NoPieceEnd(t)
           \/ PieceEnd(t) \/ UserAbort(t) \/ ExposeLock(t) \/ ExposeRead(t) \/ ReadsExposed(t)
           \/ ExposeWrite(t) \/ ExposeDone(t) \/ ExposeFail(t) \/ UndoOne(t) \/ StartCommit(t)
           \/ CommitWaitOne(t) \/ CommitWaitFail(t) \/ CommitWaitEnd(t) \/ LockWrite(t)
           \/ WritesLocked(t) \/ ValidateFail(t) \/ GenRead(t) \/ Draw(t) \/ SkipWrite(t)
           \/ ReleaseWrite(t) \/ Installed(t) \/ UnlinkRead(t) \/ AbortUnlock(t) \/ AbortUnlinkWrite(t)
    PROVE  ReadInv'
<1>1. /\ pc'[t] \in DecidedPcs => pc[t] \in DecidedPcs
      /\ pc'[t] = "validate" => ix'[t] = 1
      /\ pc'[t] \notin {"vver", "vseq", "vint"} /\ rset'[t] = rset[t]
  BY PlainPhases
<1>2. \A i \in DOMAIN rset[t] : i \in Passed(t)' => i \in Passed(t)
  BY <1>1 DEF Passed, DecidedPcs
<1>3. StepOf(t)
  <2>1. Draw(t) => GenCommitTid(t) \/ GenCommitTidOvertaken(t)
    BY DEF Draw, GenCommitTid, GenCommitTidOvertaken
  <2> QED
    BY <2>1 DEF StepOf, Execute, Expose, Commit, Abort
<1> QED
  BY <1>2, <1>3, PlainPhases, ReadsOn

(* A transaction object that is reused.                                    *)
LEMMA ObjectReads ==
    ASSUME TypeOK, TypeOK', ReadInv, NEW t \in Txns, Begin(t) \/ NewTid(t) \/ Aborted(t)
    PROVE  ReadInv'
<1>1. StepOf(t) /\ UNCHANGED <<val, hist>>
  BY DEF StepOf, Execute, Abort, Begin, NewTid, Aborted, record, ghost
<1>2. TxnReads(t)
  BY DEF ReadInv
<1>3. \A d : Decided(d) => Decided(d)'
  BY <1>1, DecidedStays
<1>4. CASE Begin(t)
  <2>1. pc'[t] = "ctor" /\ rset'[t] = <<>> /\ state'[t] = "ACTIVE" /\ pc[t] = "idle"
    BY <1>4 DEF Begin, Goto, TypeOK
  <2>2. TxnReads(t)'
    BY <2>1 DEF TxnReads
  <2> QED
    BY <1>1, <2>2, ReadStep, HistoryStays
<1>5. CASE NewTid(t)
  <2>1. /\ pc'[t] = "exec" /\ rset'[t] = rset[t] /\ state'[t] = state[t] /\ pc[t] = "ctor"
        /\ run'[t] = run[t] + 1 /\ run[t] \in Nat
    BY <1>5 DEF NewTid, Goto, TypeOK, sets
  <2>2. rset[t] = <<>> /\ state[t] # "COMMITED"
    BY <1>2, <2>1 DEF TxnReads
  <2>3. TxnReads(t)'
    BY <2>1, <2>2 DEF TxnReads
  <2> QED
    BY <1>1, <2>3, ReadStep, HistoryStays
<1>6. CASE Aborted(t)
  <2>1. /\ pc'[t] = "idle" /\ rset'[t] = rset[t] /\ state'[t] = "ABRT" /\ run'[t] = run[t]
    BY <1>6 DEF Aborted, Goto, TypeOK, sets
  <2>2. Tid(t)' = Tid(t) /\ Passed(t)' = {}
    BY <2>1 DEF Tid, Passed, DecidedPcs
  <2>3. ASSUME NEW i \in DOMAIN rset[t] PROVE ReadOk(t, rset[t][i])'
    BY <1>2, <1>3, <2>1, <2>2 DEF TxnReads, ReadOk, IsClean
  <2>4. TxnReads(t)'
    BY <2>1, <2>2, <2>3 DEF TxnReads
  <2> QED
    BY <1>1, <2>4, ReadStep, HistoryStays
<1> QED
  BY <1>4, <1>5, <1>6

(* The end: what was decided is history.                                   *)
LEMMA FinishReads ==
    ASSUME TypeOK, TypeOK', ReadInv, NEW t \in Txns, Finish(t)
    PROVE  ReadInv'
<1>1. /\ pc[t] = "cleanup" /\ pc'[t] = "idle" /\ UNCHANGED <<run, rset, val>>
      /\ hist' = hist \cup {[tid |-> Tid(t), reads |-> Reads(t)]}
  BY DEF Finish, Goto, TypeOK, sets, record
<1>2. StepOf(t) /\ TxnReads(t)
  BY DEF StepOf, Commit, ReadInv
<1>3. \A d : Decided(d) => Decided(d)'
  BY <1>2, DecidedStays
<1>4. Tid(t)' = Tid(t) /\ Passed(t)' = {} /\ Passed(t) = DOMAIN rset[t]
  BY <1>1 DEF Tid, Passed, DecidedPcs
<1>5. ASSUME NEW i \in DOMAIN rset[t]
      PROVE  rset[t][i].val.tid \in {Tid(t), NoTid} \/ Decided(rset[t][i].val.tid)
  <2>1. ReadOk(t, rset[t][i]) /\ (IsClean(rset[t][i]) \/ Decided(rset[t][i].dep))
    BY <1>2, <1>4 DEF TxnReads
  <2>2. CASE IsClean(rset[t][i])
    BY <2>1, <2>2 DEF ReadOk
  <2>3. CASE ~IsClean(rset[t][i])
    <3>1. rset[t][i].val.tid = rset[t][i].dep
      BY <2>1, <2>3 DEF ReadOk
    <3> QED
      BY <2>1, <2>3, <3>1
  <2> QED
    BY <2>2, <2>3
<1>6. HistoryRead'
  <2>1. ASSUME NEW h \in hist', NEW r \in h.reads
        PROVE  r.val.tid \in {h.tid, NoTid} \/ Decided(r.val.tid)'
    <3>1. CASE h \in hist
      BY <1>3, <2>1, <3>1 DEF ReadInv, HistoryRead
    <3>2. CASE h = [tid |-> Tid(t), reads |-> Reads(t)]
      <4>1. PICK i \in DOMAIN rset[t] : r = [key |-> rset[t][i].key, val |-> rset[t][i].val]
        BY <2>1, <3>2 DEF Reads
      <4>2. r.val.tid = rset[t][i].val.tid /\ h.tid = Tid(t)
        BY <3>2, <4>1
      <4>3. r.val.tid \in {h.tid, NoTid} \/ Decided(r.val.tid)
        BY <1>5, <4>2
      <4> QED
        BY <1>3, <4>3
    <3> QED
      BY <1>1, <2>1, <3>1, <3>2
  <2> QED
    BY <2>1 DEF HistoryRead
<1>7. TxnReads(t)'
  <2>1. \E h \in hist' : h.tid = Tid(t)
    <3> DEFINE g == [tid |-> Tid(t), reads |-> Reads(t)]
    <3>1. g \in hist' /\ g.tid = Tid(t)
      BY <1>1
    <3> QED
      BY <3>1
  <2>2. ASSUME NEW i \in DOMAIN rset[t] PROVE ReadOk(t, rset[t][i])'
    BY <1>1, <1>2, <1>3, <1>4 DEF TxnReads, ReadOk, IsClean
  <2> QED
    BY <1>1, <1>4, <2>1, <2>2 DEF TxnReads
<1> QED
  BY <1>1, <1>2, <1>6, <1>7, ReadStep, HistoryStays

(* r was read from a linked write of another running transaction.          *)
DepLinked(t, r) ==
    LET u == r.dep[1] IN
    u \in Txns \ {t} /\ r.dep = Tid(u) /\ WriteOut(u, r.key, r.dseq)

(* What an access reads: an installed value, one of its own, or that of a  *)
(* running transaction.                                                    *)
LEMMA NewRead ==
    ASSUME TypeOK, EntryInv, ReadInv, NEW t \in Txns, pos[t] < Len(prog[t]),
           AddCleanRead(t) \/ AddDirtyRead(t)
    PROVE  \E r \in ReadRecords :
              /\ rset' = [rset EXCEPT ![t] = Append(rset[t], r)] /\ ReadOk(t, r)
              /\ IsClean(r) \/ DepLinked(t, r)
              /\ r.clean = ver[r.key]
              /\ IF r.occ THEN r.val = val[r.key] ELSE "dirty" \in AccessModes
<1> DEFINE k == NextKey(t)
<1>0. k \in Keys
  BY NextKeyType
<1>1. PICK r \in ReadRecords : rset' = [rset EXCEPT ![t] = Append(rset[t], r)]
  BY AddReadType
<1>2. rset[t] \in Seq(ReadRecords)
  BY DEF TypeOK
<1>3. ASSUME NEW q, rset' = [rset EXCEPT ![t] = Append(rset[t], q)] PROVE q = r
  <2>1. Append(rset[t], q) = Append(rset[t], r)
    BY <1>1, <1>3 DEF TypeOK
  <2>2. Append(rset[t], q)[Len(rset[t]) + 1] = q /\ Append(rset[t], r)[Len(rset[t]) + 1] = r
    BY <1>2
  <2> QED
    BY <2>1, <2>2
<1>4. val[k].tid = NoTid \/ Decided(val[k].tid)
  BY <1>0 DEF ReadInv, ValuesDecided
<1>5. CASE AddCleanRead(t)
  <2>1. r = [key |-> k, occ |-> TRUE, clean |-> ver[k], dep |-> NoTid,
             dseq |-> 0, val |-> val[k], ow |-> FALSE]
    BY <1>3, <1>5 DEF AddCleanRead
  <2>2. r.occ /\ r.val = val[k] /\ r.key = k /\ r.clean = ver[k]
    BY <2>1
  <2> QED
    BY <1>1, <1>4, <2>2 DEF ReadOk, IsClean
<1>6. CASE AddDirtyRead(t)
  <2> DEFINE j == LatestWrite(k)
             e == list[k][j]
             foreign == j # 0 /\ e.tid[1] # t
  <2>0. "dirty" \in AccessModes
    BY <1>6 DEF AddDirtyRead
  <2>1. r = [key |-> k, occ |-> FALSE, clean |-> ver[k],
             dep |-> IF foreign THEN e.tid ELSE NoTid,
             dseq |-> IF foreign THEN e.ix ELSE 0,
             val |-> DirtyValue(k), ow |-> FALSE]
    BY <1>3, <1>6 DEF AddDirtyRead
  <2>4. r.key = k /\ r.clean = ver[k]
    BY <2>1
  <2>2. CASE j = 0
    <3>1. r.dep = NoTid /\ r.val = val[k] /\ ~r.occ
      BY <2>1, <2>2 DEF DirtyValue
    <3> QED
      BY <1>1, <1>4, <2>0, <2>4, <3>1 DEF ReadOk, IsClean
  <2>3. CASE j # 0
    <3>1. j \in DOMAIN list[k] /\ e \in Elements(list[k])
      BY <1>0, <2>3, LatestWriteType DEF Elements
    <3>2. EntryOf(k, e) /\ e.tid[1] \in Txns /\ DirtyValue(k) = [tid |-> e.tid, ix |-> e.ix]
      BY <1>0, <2>3, <3>1, ElementType DEF EntryInv, DirtyValue
    <3>3. e.tid = Tid(e.tid[1]) /\ run[e.tid[1]] # 0
      BY <3>2 DEF EntryOf, ReadInv, TxnReads
    <3> HIDE DEF e
    <3>4. CASE e.tid[1] = t
      <4>1. r.dep = NoTid /\ r.val.tid = Tid(t) /\ ~r.occ
        BY <2>1, <3>2, <3>3, <3>4
      <4> QED
        BY <1>1, <2>0, <2>4, <4>1 DEF ReadOk, IsClean
    <3>5. CASE e.tid[1] # t
      <4>1. ~r.occ /\ r.dep = e.tid /\ r.val = [tid |-> r.dep, ix |-> r.dseq]
        BY <2>1, <2>3, <3>2, <3>5
      <4>2. r.dep[2] # 0
        BY <3>3, <4>1 DEF Tid
      <4>3. ~IsClean(r)
        BY <4>1, <4>2 DEF IsClean, NoTid
      <4>4. e.kind = "w" /\ r.key = k
        <5>1. LatestWrite(k) \in WritesIn(k)
          BY <2>3 DEF LatestWrite
        <5> QED
          BY <2>1, <5>1 DEF e, WritesIn
      <4>5. WriteOut(e.tid[1], k, e.ix)
        BY <3>2, <4>4 DEF EntryOf
      <4>6. r.dseq = e.ix
        BY <2>1, <2>3, <3>5
      <4>7. DepLinked(t, r)
        BY <3>2, <3>3, <3>5, <4>1, <4>4, <4>5, <4>6 DEF DepLinked
      <4> QED
        BY <1>1, <2>0, <2>4, <4>1, <4>2, <4>3, <4>7 DEF ReadOk
    <3> QED
      BY <3>4, <3>5
  <2> QED
    BY <2>2, <2>3
<1> QED
  BY <1>5, <1>6

LEMMA ExtendReads ==
    ASSUME TypeOK, TypeOK', EntryInv, ReadInv, NEW t \in Txns, Get(t) \/ Put(t) \/ Update(t)
    PROVE  ReadInv'
<1>1. /\ pc[t] \in {"exec", "access"} /\ pc'[t] = "piece" /\ UNCHANGED <<run, state, val, hist>>
      /\ pos[t] < Len(prog[t])
  BY DEF Get, Put, Update, Accessing, Goto, TypeOK, record, ghost
<1>2. StepOf(t) /\ TxnReads(t)
  BY DEF StepOf, Execute, ReadInv
<1>3. \A d : Decided(d) => Decided(d)'
  BY <1>2, DecidedStays
<1>4. Tid(t)' = Tid(t) /\ Passed(t)' = {}
  BY <1>1 DEF Tid, Passed, DecidedPcs
<1>5. rset[t] \in Seq(ReadRecords)
  BY DEF TypeOK
<1>6. \A i \in DOMAIN rset'[t] : ReadOk(t, rset'[t][i])
  <2>1. CASE Put(t)
    BY <1>2, <2>1 DEF Put, TxnReads
  <2>2. CASE Get(t) \/ Update(t)
    <3>1. PICK r \in ReadRecords :
             rset' = [rset EXCEPT ![t] = Append(rset[t], r)] /\ ReadOk(t, r)
      BY <1>1, <2>2, NewRead DEF Get, Update
    <3>2. rset'[t] = Append(rset[t], r)
      BY <3>1 DEF TypeOK
    <3>3. \A i \in DOMAIN rset'[t] : rset'[t][i] = r \/ (i \in DOMAIN rset[t] /\ rset'[t][i] = rset[t][i])
      BY <1>5, <3>2
    <3> QED
      BY <1>2, <3>1, <3>3 DEF TxnReads
  <2> QED
    BY <2>1, <2>2
<1>7. TxnReads(t)'
  <2>1. ASSUME NEW i \in DOMAIN rset'[t] PROVE ReadOk(t, rset[t][i])'
    BY <1>3, <1>4, <1>6 DEF ReadOk, IsClean
  <2>2. pc'[t] # "ctor" /\ state'[t] # "COMMITED" /\ run'[t] # 0
    BY <1>1, <1>2 DEF TxnReads
  <2> QED
    BY <1>4, <2>1, <2>2 DEF TxnReads
<1> QED
  BY <1>1, <1>2, <1>7, ReadStep, HistoryStays

(* check_rmw and a rollback keep a part of what was read.                  *)
LEMMA PieceReads ==
    ASSUME TypeOK, TypeOK', ReadInv, NEW t \in Txns, CheckRmw(t) \/ RetryPiece(t)
    PROVE  ReadInv'
<1>1. /\ pc'[t] \in {"eread", "exec"} /\ pc[t] \in {"elock", "undo"}
      /\ UNCHANGED <<run, state, val, hist>>
  BY DEF CheckRmw, RetryPiece, Goto, TypeOK, record, ghost
<1>2. StepOf(t) /\ TxnReads(t)
  BY DEF StepOf, Expose, ReadInv
<1>3. \A d : Decided(d) => Decided(d)'
  BY <1>2, DecidedStays
<1>4. Tid(t)' = Tid(t) /\ Passed(t)' = {}
  BY <1>1 DEF Tid, Passed, DecidedPcs
<1>5. rset[t] \in Seq(ReadRecords) /\ rset'[t] \in Seq(ReadRecords)
  BY DEF TypeOK
<1>6. ASSUME NEW i \in DOMAIN rset'[t] PROVE ReadOk(t, rset[t][i])'
  <2>1. /\ i \in DOMAIN rset[t] /\ rset'[t][i].occ = rset[t][i].occ /\ rset'[t][i].dep = rset[t][i].dep
        /\ rset'[t][i].dseq = rset[t][i].dseq /\ rset'[t][i].val = rset[t][i].val
    <3>1. CASE CheckRmw(t)
      BY <1>5, <3>1, CheckRmwSame
    <3>2. CASE RetryPiece(t)
      <4>1. /\ rset'[t] = SubSeq(rset[t], 1, rstart[t] - 1) /\ rstart[t] \in Nat \ {0}
            /\ rstart[t] <= Len(rset[t]) + 1
        BY <3>2 DEF RetryPiece, TypeOK, PieceInSets
      <4> QED
        BY <1>5, <4>1
    <3> QED
      BY <3>1, <3>2
  <2>2. ReadOk(t, rset[t][i])
    BY <1>2, <2>1 DEF TxnReads
  <2> QED
    BY <1>3, <1>4, <2>1, <2>2 DEF ReadOk, IsClean
<1>7. TxnReads(t)'
  <2>1. pc'[t] # "ctor" /\ state'[t] # "COMMITED" /\ run'[t] # 0
    BY <1>1, <1>2 DEF TxnReads
  <2> QED
    BY <1>4, <1>6, <2>1 DEF TxnReads
<1> QED
  BY <1>1, <1>2, <1>7, ReadStep, HistoryStays

(* The first test of a dirty read finds its writer committed.              *)
LEMMA ValidateReads ==
    ASSUME TypeOK, TypeOK', ReadInv, NEW t \in Txns,
           ValidateClean(t) \/ ValidateDirty(t) \/ Validated(t)
    PROVE  ReadInv'
<1>0. /\ ix[t] \in Nat \ {0} /\ rset[t] \in Seq(ReadRecords) /\ DOMAIN rset[t] = 1..Len(rset[t])
      /\ Len(rset[t]) \in Nat
  BY DEF TypeOK
<1>1. StepOf(t) /\ UNCHANGED <<run, rset, val, hist, state>> /\ TxnReads(t)
  <2>1. CASE ValidateClean(t) \/ ValidateDirty(t)
    BY <2>1 DEF StepOf, Commit, ValidateClean, ValidateDirty, control, sets, record, ghost, ReadInv
  <2>2. CASE Validated(t)
    BY <2>2, ValidatedIs DEF StepOf, Commit, sets, record, ghost, ReadInv
  <2> QED
    BY <2>1, <2>2
<1>2. CASE ValidateClean(t)
  <2>1. /\ pc[t] = "validate" /\ pc'[t] = "validate" /\ ix'[t] = ix[t] + 1 /\ IsClean(rset[t][ix[t]])
    BY <1>2 DEF ValidateClean, control, TypeOK, Current
  <2>2. Passed(t) = 1..(ix[t] - 1) /\ Passed(t)' = 1..ix[t]
    BY <1>0, <2>1 DEF Passed, DecidedPcs
  <2>3. \A i \in 1..ix[t] : i \in 1..(ix[t] - 1) \/ i = ix[t]
    BY <1>0
  <2> QED
    BY <1>1, <2>1, <2>2, <2>3, ReadsOn
<1>3. CASE ValidateDirty(t)
  <2>1. /\ pc[t] \in {"validate", "vver", "vseq", "vint"} /\ pc'[t] = NextTest(pc[t])
        /\ ix[t] <= Len(rset[t]) /\ ~IsClean(rset[t][ix[t]]) /\ DirtyTest(t, pc[t])
        /\ ix'[t] = IF pc[t] = "vint" THEN ix[t] + 1 ELSE ix[t]
    BY <1>3 DEF ValidateDirty, DirtyTesting, Goto, TypeOK, Current
  <2>2. CASE pc[t] = "validate"
    <3> DEFINE r == rset[t][ix[t]]
    <3>1. pc'[t] = "vver" /\ ix'[t] = ix[t]
      BY <2>1, <2>2 DEF NextTest
    <3>2. IsCommit(r.dep) /\ run[r.dep[1]] = r.dep[2]
      BY <2>1, <2>2 DEF DirtyTest, Current
    <3>3. ix[t] \in DOMAIN rset[t] /\ r \in ReadRecords
      BY <1>0, <2>1
    <3>4. r.dep \in Tids /\ r.dep # NoTid /\ r.dep[2] # 0
      BY <1>1, <2>1, <3>3 DEF ReadRecords, IsClean, TxnReads, ReadOk
    <3> HIDE DEF r
    <3>5. r.dep[1] \in Txns /\ r.dep = Tid(r.dep[1])
      BY <3>2, <3>4 DEF Tids, Tid
    <3>6. state[r.dep[1]] = "COMMITED"
      BY <3>2 DEF IsCommit
    <3>7. Decided(r.dep)
      BY <3>2, <3>4, <3>5, <3>6 DEF ReadInv, TxnReads, Decided
    <3>8. Passed(t) = 1..(ix[t] - 1) /\ Passed(t)' = 1..ix[t]
      BY <1>0, <2>2, <3>1 DEF Passed, DecidedPcs
    <3>9. \A i \in 1..ix[t] : i \in 1..(ix[t] - 1) \/ i = ix[t]
      BY <1>0
    <3> QED
      BY <1>1, <2>2, <3>1, <3>7, <3>8, <3>9, ReadsOn DEF r
  <2>3. CASE pc[t] # "validate"
    <3>1. Passed(t) = 1..ix[t]
      BY <2>1, <2>3 DEF Passed, DecidedPcs
    <3>2. CASE pc[t] = "vint"
      <4>1. pc'[t] = "validate" /\ ix'[t] = ix[t] + 1
        BY <2>1, <3>2 DEF NextTest
      <4>2. Passed(t)' = 1..ix[t]
        BY <1>0, <4>1 DEF Passed, DecidedPcs
      <4> QED
        BY <1>1, <2>1, <3>1, <4>1, <4>2, ReadsOn
    <3>3. CASE pc[t] # "vint"
      <4>1. pc'[t] \in {"vseq", "vint"} /\ ix'[t] = ix[t]
        BY <2>1, <2>3, <3>3 DEF NextTest
      <4>2. Passed(t)' = 1..ix[t]
        BY <4>1 DEF Passed, DecidedPcs
      <4> QED
        BY <1>1, <2>1, <3>1, <4>1, <4>2, ReadsOn
    <3> QED
      BY <3>2, <3>3
  <2> QED
    BY <2>2, <2>3
<1>4. CASE Validated(t)
  <2>1. pc[t] = "validate" /\ pc'[t] \in {"gen", "install"} /\ ix[t] > Len(rset[t])
    BY <1>4, ValidatedIs DEF TypeOK
  <2>2. \A i \in DOMAIN rset[t] : i \in Passed(t)
    BY <1>0, <2>1 DEF Passed, DecidedPcs
  <2> QED
    BY <1>1, <2>1, <2>2, ReadsOn
<1> QED
  BY <1>2, <1>3, <1>4

(* An installed value is decided.                                          *)
LEMMA InstallReads ==
    ASSUME TypeOK, TypeOK', ReadInv, NEW t \in Txns, InstallWrite(t)
    PROVE  ReadInv'
<1> DEFINE k == wset[t][ix[t]].key
<1>1. /\ StepOf(t) /\ UNCHANGED <<run, rset, hist, state>> /\ pc[t] = "install" /\ pc'[t] = "release"
      /\ val' = [val EXCEPT ![k] = [tid |-> Tid(t), ix |-> ix[t]]]
  BY DEF StepOf, Commit, InstallWrite, sets, Goto, TypeOK
<1>2. Passed(t)' = DOMAIN rset[t] /\ Passed(t) = DOMAIN rset[t]
  BY <1>1 DEF Passed, DecidedPcs
<1>3. TxnReads(t)'
  BY <1>1, <1>2, ReadsKept
<1>4. Decided(Tid(t))'
  BY <1>1 DEF Decided, Tid
<1>5. ValuesDecided'
  <2>1. ASSUME NEW j \in Keys PROVE val'[j].tid = NoTid \/ Decided(val[j].tid)'
    <3>1. CASE j = k
      <4>1. val'[j].tid = Tid(t)
        BY <1>1, <3>1 DEF TypeOK
      <4> QED
        BY <1>1, <4>1 DEF Decided, Tid
    <3>2. CASE j # k
      <4>1. val'[j] = val[j] /\ (val[j].tid = NoTid \/ Decided(val[j].tid))
        BY <1>1, <3>2 DEF TypeOK, ReadInv, ValuesDecided
      <4> QED
        BY <1>1, <4>1, DecidedStays
    <3> QED
      BY <3>1, <3>2
  <2> QED
    BY <2>1 DEF ValuesDecided
<1> QED
  BY <1>1, <1>3, <1>5, ReadStep, HistoryStays

LEMMA InitReads == Init => ReadInv
BY DEF Init, ReadInv, ValuesDecided, HistoryRead, TxnReads, Loaded

LEMMA NextReads == TypeOK /\ TypeOK' /\ EntryInv /\ ReadInv /\ [Next]_vars => ReadInv'
<1> SUFFICES ASSUME TypeOK, TypeOK', EntryInv, ReadInv, [Next]_vars PROVE ReadInv'
  OBVIOUS
<1>1. CASE UNCHANGED vars \/ Tick \/ Stop
  <2>1. UNCHANGED <<pc, run, state, ix, rset, val, hist>>
    BY <1>1 DEF Tick, Stop, vars, control, sets, record, ghost
  <2>2. \A d : Decided(d) => Decided(d)'
    BY <2>1 DEF Decided, Tid
  <2>3. ValuesDecided' /\ HistoryRead'
    BY <2>1, <2>2 DEF ReadInv, ValuesDecided, HistoryRead
  <2>4. ASSUME NEW t \in Txns PROVE TxnReads(t)'
    <3>1. TxnReads(t) /\ Tid(t)' = Tid(t) /\ Passed(t)' = Passed(t)
      BY <2>1 DEF ReadInv, Tid, Passed
    <3>2. ASSUME NEW i \in DOMAIN rset[t] PROVE ReadOk(t, rset[t][i])'
      BY <2>1, <2>2, <3>1 DEF TxnReads, ReadOk, IsClean
    <3>3. ASSUME NEW i \in DOMAIN rset[t] \cap Passed(t)
          PROVE  IsClean(rset[t][i])' \/ Decided(rset[t][i].dep)'
      BY <2>1, <2>2, <3>1 DEF TxnReads, IsClean
    <3> QED
      BY <2>1, <3>1, <3>2, <3>3 DEF TxnReads
  <2> QED
    BY <2>3, <2>4 DEF ReadInv
<1>2. ASSUME NEW t \in Txns, StepOf(t) PROVE ReadInv'
  BY <1>2, Draws, PlainReads, ObjectReads, FinishReads, ExtendReads, PieceReads, ValidateReads, InstallReads
     DEF StepOf, Execute, Expose, Commit, Abort
<1> QED
  BY <1>1, <1>2 DEF Next, StepOf

(* What was read, and what is installed, is decided where it must be.      *)
THEOREM ReadsCorrect == Spec => []ReadInv
<1>1. TypeOK /\ EntryInv /\ ReadInv /\ [Next]_vars => ReadInv'
  BY NextType, NextReads
<1> QED
  BY InitReads, <1>1, TypeCorrect, EntriesCorrect, PTL DEF Spec

(* Whoever installs or has committed has read only loaded values, values   *)
(* of its own, and values of transactions that commit.                     *)
THEOREM Recoverable == Spec => []ReadsRecoverable
<1>1. TypeOK /\ ReadInv => ReadsRecoverable
  <2> SUFFICES ASSUME TypeOK, ReadInv PROVE ReadsRecoverable
    OBVIOUS
  <2>1. ASSUME NEW t \in Txns, pc[t] \in DecidedPcs, NEW r \in Reads(t)
        PROVE  r.val.tid \in {Tid(t), NoTid} \/ Decided(r.val.tid)
    <3>1. PICK i \in DOMAIN rset[t] : r = [key |-> rset[t][i].key, val |-> rset[t][i].val]
      BY DEF Reads
    <3>2. r.val = rset[t][i].val
      BY <3>1
    <3>3. ReadOk(t, rset[t][i]) /\ (IsClean(rset[t][i]) \/ Decided(rset[t][i].dep))
      BY <2>1 DEF ReadInv, TxnReads, Passed
    <3>4. CASE IsClean(rset[t][i])
      BY <3>2, <3>3, <3>4 DEF ReadOk
    <3>5. CASE ~IsClean(rset[t][i])
      <4>1. rset[t][i].val.tid = rset[t][i].dep
        BY <3>3, <3>5 DEF ReadOk
      <4> QED
        BY <3>2, <3>3, <3>5, <4>1
    <3> QED
      BY <3>4, <3>5
  <2>2. HistoryRead
    BY DEF ReadInv
  <2> QED
    BY <2>1, <2>2 DEF ReadsRecoverable, HistoryRead, DecidedPcs
<1> QED
  BY <1>1, TypeCorrect, ReadsCorrect, PTL

(* Where the reads of a transaction come from after its step.              *)
LEMMA ReadsFrom ==
    ASSUME TypeOK, TypeOK', EntryInv, ReadInv, NEW t \in Txns, StepOf(t),
           NEW i \in DOMAIN rset'[t]
    PROVE  \E r \in ReadRecords :
              /\ r.key = rset'[t][i].key /\ r.occ = rset'[t][i].occ
              /\ r.dep = rset'[t][i].dep /\ r.dseq = rset'[t][i].dseq
              /\ r.clean = rset'[t][i].clean /\ r.val = rset'[t][i].val
              /\ \/ \E j \in DOMAIN rset[t] : r = rset[t][j]
                 \/ /\ IsClean(r) \/ DepLinked(t, r)
                    /\ r.clean = ver[r.key]
                    /\ IF r.occ THEN r.val = val[r.key] ELSE "dirty" \in AccessModes
<1>1. rset[t] \in Seq(ReadRecords) /\ rset'[t] \in Seq(ReadRecords) /\ rset'[t][i] \in ReadRecords
  <2>1. rset[t] \in Seq(ReadRecords) /\ rset'[t] \in Seq(ReadRecords)
    BY DEF TypeOK
  <2> QED
    BY <2>1
<1>2. CASE rset'[t] = rset[t]
  BY <1>1, <1>2
<1>3. CASE rset'[t] = <<>>
  BY <1>3
<1>4. CASE Get(t) \/ Update(t)
  <2>1. pos[t] < Len(prog[t]) /\ (AddCleanRead(t) \/ AddDirtyRead(t))
    BY <1>4 DEF Get, Update, Accessing
  <2>2. PICK r \in ReadRecords :
          /\ rset' = [rset EXCEPT ![t] = Append(rset[t], r)]
          /\ IsClean(r) \/ DepLinked(t, r)
          /\ r.clean = ver[r.key]
          /\ IF r.occ THEN r.val = val[r.key] ELSE "dirty" \in AccessModes
    BY <2>1, NewRead
  <2>3. rset'[t] = Append(rset[t], r)
    BY <2>2 DEF TypeOK
  <2>4. rset'[t][i] = r \/ (i \in DOMAIN rset[t] /\ rset'[t][i] = rset[t][i])
    BY <1>1, <2>3
  <2> QED
    BY <1>1, <2>2, <2>4
<1>5. CASE CheckRmw(t)
  <2>1. /\ i \in DOMAIN rset[t] /\ rset'[t][i].key = rset[t][i].key /\ rset'[t][i].occ = rset[t][i].occ
        /\ rset'[t][i].dep = rset[t][i].dep /\ rset'[t][i].dseq = rset[t][i].dseq
        /\ rset'[t][i].clean = rset[t][i].clean /\ rset'[t][i].val = rset[t][i].val
    BY <1>1, <1>5, CheckRmwSame
  <2>2. rset[t][i] \in ReadRecords
    BY <1>1, <2>1
  <2> QED
    BY <2>1, <2>2
<1>6. CASE RetryPiece(t)
  <2>1. /\ rset'[t] = SubSeq(rset[t], 1, rstart[t] - 1) /\ rstart[t] \in Nat \ {0}
        /\ rstart[t] <= Len(rset[t]) + 1
    BY <1>6 DEF RetryPiece, TypeOK, PieceInSets
  <2>2. i \in DOMAIN rset[t] /\ rset'[t][i] = rset[t][i]
    BY <1>1, <2>1
  <2> QED
    BY <1>1, <2>2
<1>7. ASSUME \/ NewTid(t) \/ Aborted(t) \/ Finish(t) \/ Put(t)
             \/ ValidateClean(t) \/ ValidateDirty(t) \/ InstallWrite(t)
      PROVE  rset'[t] = rset[t]
  BY <1>7 DEF NewTid, Aborted, Finish, Put, ValidateClean, ValidateDirty, InstallWrite, sets
<1>9. ASSUME Validated(t) PROVE rset'[t] = rset[t]
  BY <1>9, ValidatedIs DEF sets
<1>8. ASSUME Begin(t) PROVE rset'[t] = <<>>
  BY <1>8 DEF Begin, TypeOK
<1> QED
  BY <1>2, <1>3, <1>4, <1>5, <1>6, <1>7, <1>8, <1>9, Draws, PlainPhases
     DEF StepOf, Execute, Expose, Commit, Abort

(* Only the installation of a write changes a version and a value, only    *)
(* its release the sequence number, only gen_commit_tid the commit id and  *)
(* what it is made from.                                                   *)
LEMMA RecordStays ==
    ASSUME TypeOK, NEW t \in Txns, StepOf(t)
    PROVE  /\ ~InstallWrite(t) => UNCHANGED <<ver, val>>
           /\ ~ReleaseWrite(t) => UNCHANGED seq
           /\ ~Draw(t) => UNCHANGED ctid
           /\ ~Validated(t) => UNCHANGED epoch
           /\ ~Validated(t) /\ ~GenRead(t) /\ ~Draw(t) /\ ~Finish(t) => UNCHANGED ret
           /\ UNCHANGED tick
<1>1. CASE Begin(t)
  BY <1>1 DEF Begin, record
<1>2. CASE Execute(t)
  BY <1>2 DEF Execute, record, clock, NewTid, StartWait, WaitOne, WaitEnd, WaitThrow, Get, Put, Update,
         Accessing, NoPieceEnd, PieceEnd, UserAbort
<1>3. CASE Expose(t)
  BY <1>3 DEF Expose, record, clock, ExposeLock, CheckRmw, ExposeRead, ReadsExposed, ExposeWrite,
         ExposeDone, ExposeFail, UndoOne, RetryPiece
<1>4. CASE \/ StartCommit(t) \/ CommitWaitOne(t) \/ CommitWaitFail(t) \/ CommitWaitEnd(t)
           \/ LockWrite(t) \/ WritesLocked(t) \/ ValidateClean(t) \/ ValidateDirty(t) \/ ValidateFail(t)
           \/ SkipWrite(t) \/ Installed(t) \/ UnlinkRead(t) \/ Abort(t)
  BY <1>4 DEF record, clock, StartCommit, CommitWaitOne, CommitWaitFail, CommitWaitEnd, LockWrite,
         WritesLocked, ValidateClean, ValidateDirty, ValidateFail, SkipWrite, Installed, UnlinkRead,
         Abort, AbortUnlock, AbortUnlinkWrite, Aborted
<1>5. CASE Validated(t)
  BY <1>5, ValidatedIs DEF record
<1>6. CASE GenRead(t)
  BY <1>6 DEF GenRead, record
<1>7. CASE Draw(t)
  BY <1>7 DEF Draw, DrawTid, record
<1>8. CASE InstallWrite(t)
  BY <1>8 DEF InstallWrite, clock
<1>9. CASE ReleaseWrite(t)
  BY <1>9 DEF ReleaseWrite, clock
<1>10. CASE Finish(t)
  BY <1>10 DEF Finish, record
<1> QED
  BY <1>1, <1>2, <1>3, <1>4, <1>5, <1>6, <1>7, <1>8, <1>9, <1>10, Draws DEF StepOf, Commit

(* Of the steps outside Plain..., which reach and which keep the phases    *)
(* after the validation.                                                   *)
LEMMA SettledBefore ==
    ASSUME TypeOK, TypeOK', ReadInv, NEW t \in Txns, StepOf(t), ~Validated(t),
           pc'[t] \in DecidedPcs \/ state'[t] = "COMMITED"
    PROVE  pc[t] \in DecidedPcs /\ run'[t] = run[t] /\ wset'[t] = wset[t]
<1>0. state[t] = "COMMITED" => pc[t] = "idle"
  BY DEF ReadInv, TxnReads
<1>1. CASE Begin(t)
  BY <1>1 DEF Begin, Goto, TypeOK, DecidedPcs
<1>2. CASE NewTid(t)
  BY <1>0, <1>2 DEF NewTid, Goto, TypeOK, DecidedPcs
<1>3. CASE Aborted(t)
  BY <1>3 DEF Aborted, Goto, TypeOK, DecidedPcs
<1>4. CASE Get(t) \/ Put(t) \/ Update(t)
  BY <1>0, <1>4 DEF Get, Put, Update, Accessing, Goto, TypeOK, DecidedPcs
<1>5. CASE CheckRmw(t)
  BY <1>0, <1>5 DEF CheckRmw, Goto, TypeOK, DecidedPcs
<1>6. CASE RetryPiece(t)
  BY <1>0, <1>6 DEF RetryPiece, Goto, TypeOK, DecidedPcs
<1>7. CASE ValidateClean(t)
  BY <1>0, <1>7 DEF ValidateClean, control, DecidedPcs
<1>8. CASE ValidateDirty(t)
  <2>1. /\ pc[t] \in {"validate", "vver", "vseq", "vint"} /\ pc'[t] = NextTest(pc[t])
        /\ state' = state
    BY <1>8 DEF ValidateDirty, DirtyTesting, Goto, TypeOK
  <2>2. pc'[t] \in {"validate", "vver", "vseq", "vint"}
    BY <2>1 DEF NextTest
  <2> QED
    BY <1>0, <2>1, <2>2 DEF DecidedPcs
<1>9. CASE Finish(t)
  BY <1>9 DEF Finish, DecidedPcs, sets
<1>10. CASE InstallWrite(t)
  BY <1>10 DEF InstallWrite, DecidedPcs, sets
<1>11. CASE \/ StartWait(t) \/ WaitOne(t) \/ WaitEnd(t) \/ WaitThrow(t) \/ NoPieceEnd(t)
            \/ PieceEnd(t) \/ UserAbort(t) \/ ExposeLock(t) \/ ExposeRead(t) \/ ReadsExposed(t)
            \/ ExposeWrite(t) \/ ExposeDone(t) \/ ExposeFail(t) \/ UndoOne(t) \/ StartCommit(t)
            \/ CommitWaitOne(t) \/ CommitWaitFail(t) \/ CommitWaitEnd(t) \/ LockWrite(t)
            \/ WritesLocked(t) \/ ValidateFail(t) \/ GenRead(t) \/ Draw(t) \/ SkipWrite(t) \/ ReleaseWrite(t)
            \/ Installed(t) \/ UnlinkRead(t) \/ AbortUnlock(t) \/ AbortUnlinkWrite(t)
  BY <1>0, <1>11, PlainPhases
<1> QED
  BY <1>1, <1>2, <1>3, <1>4, <1>5, <1>6, <1>7, <1>8, <1>9, <1>10, <1>11, Draws
     DEF StepOf, Execute, Expose, Commit, Abort

(* What a decided transaction does next.                                   *)
LEMMA DecidedStep ==
    ASSUME NEW t \in Txns, StepOf(t), pc[t] \in DecidedPcs
    PROVE  \/ GenRead(t) \/ Draw(t) \/ SkipWrite(t) \/ InstallWrite(t) \/ ReleaseWrite(t)
           \/ Installed(t) \/ UnlinkRead(t) \/ Finish(t)
  BY Draws DEF StepOf, Execute, Expose, Commit, Abort, DecidedPcs, Begin, NewTid, StartWait, WaitOne, WaitEnd,
         WaitThrow, Get, Put, Update, Accessing, NoPieceEnd, PieceEnd, UserAbort, ExposeLock, CheckRmw,
         ExposeRead, ReadsExposed, ExposeWrite, ExposeDone, ExposeFail, UndoOne, RetryPiece, StartCommit,
         CommitWaitOne, CommitWaitFail, CommitWaitEnd, LockWrite, WritesLocked, ValidateClean,
         ValidateDirty, ValidateFail, DirtyTesting, Validated, AbortUnlock, AbortUnlinkWrite, Aborted

-----------------------------------------------------------------------------
(* The order of versions.                                                  *)

(* The number of an id is of its epoch, unless a dirty read has met an id  *)
(* of a later one.                                                         *)
Met(t) ==
    /\ epoch[t] <= EpochId(ret[t])
    /\ Overtaken(t) => \E i \in DOMAIN rset[t] : ~IsClean(rset[t][i])
(* While t draws its id, and until it replaces it, what it will replace is *)
(* of no later epoch; and below its id, if that was not overtaken.         *)
Drawing(t) ==
    /\ Met(t)
    /\ \A k \in WriteKeys(t, 1) : EpochId(ver[k]) <= epoch[t]
    /\ \A i \in DOMAIN rset[t] :
          IsClean(rset[t][i]) => EpochId(rset[t][i].clean) <= epoch[t]
Replaces(t, k) ==
    /\ EpochId(ver[k]) <= EpochId(ctid[t])
    /\ ~Overtaken(t) => Below(ver[k], ctid[t])
Replacing(t) ==
    \A j \in ToInstall(t) :
        /\ Met(t)
        /\ pc[t] = "install" \/ j # ix[t] => Replaces(t, wset[t][j].key)
(* Nothing is of a tick to come.                                           *)
NotAhead(t) ==
    /\ EpochId(ctid[t]) <= tick /\ epoch[t] <= tick /\ EpochId(ret[t]) <= tick
    /\ \A i \in DOMAIN rset[t] : EpochId(rset[t][i].clean) <= tick
TxnClock(t) ==
    /\ NotAhead(t)
    /\ pc[t] = "gen" => Drawing(t)
    /\ pc[t] \in Installing => Replacing(t)
RecordClock == \A k \in Keys : EpochId(ver[k]) <= tick
ClockInv == RecordClock /\ \A t \in Txns : TxnClock(t)

LEMMA ToInstallType ==
    ASSUME TypeOK, NEW t \in Txns
    PROVE  /\ \A j \in ToInstall(t) : j \in 1..Len(wset[t]) /\ j \in DOMAIN wset[t]
           /\ ix[t] <= Len(wset[t]) => ix[t] \in DOMAIN wset[t]
<1>1. ix[t] \in Nat \ {0} /\ wset[t] \in Seq(WriteRecords)
  BY DEF TypeOK
<1>2. Len(wset[t]) \in Nat /\ DOMAIN wset[t] = 1..Len(wset[t])
  BY <1>1
<1>3. \A j \in ix[t]..Len(wset[t]) : j \in 1..Len(wset[t])
  BY <1>1, <1>2
<1> QED
  BY <1>1, <1>2, <1>3 DEF ToInstall

(* The records that t still has to replace are locked by t.                *)
LEMMA ReplacedHeld ==
    ASSUME TypeOK, LockInv, NEW t \in Txns
    PROVE  /\ pc[t] = "gen" => WriteKeys(t, 1) \subseteq Held(t)
           /\ pc[t] \in Installing => \A j \in ToInstall(t) : wset[t][j].key \in Held(t)
BY DEF LockInv, TxnInv, Validating

(* A step that leaves u and the versions of the records it has locked.     *)
LEMMA ClockOther ==
    ASSUME TypeOK, LockInv, NEW u \in Txns, TxnClock(u), Local(u)' = Local(u),
           tick \in Nat, tick' \in Nat, tick <= tick', \A k \in Held(u) : ver'[k] = ver[k]
    PROVE  TxnClock(u)'
<1>1. /\ pc'[u] = pc[u] /\ ix'[u] = ix[u] /\ rset'[u] = rset[u] /\ wset'[u] = wset[u]
      /\ ctid'[u] = ctid[u] /\ epoch'[u] = epoch[u] /\ ret'[u] = ret[u]
  BY DEF Local
<1>2. rset[u] \in Seq(ReadRecords) /\ epoch[u] \in Nat /\ ctid[u] \in CommitTids /\ ret[u] \in CommitTids
  BY DEF TypeOK
<1>3. NotAhead(u)'
  <2>1. EpochId(ctid[u]) \in Nat /\ EpochId(ret[u]) \in Nat
    BY <1>2, TidParts
  <2>2. \A i \in DOMAIN rset[u] : EpochId(rset[u][i].clean) \in Nat
    <3>1. \A i \in DOMAIN rset[u] : rset[u][i] \in ReadRecords
      BY <1>2
    <3>2. \A i \in DOMAIN rset[u] : rset[u][i].clean \in CommitTids
      BY <3>1 DEF ReadRecords
    <3> QED
      BY <3>2, TidParts
  <2>3. /\ EpochId(ctid[u])' = EpochId(ctid[u]) /\ EpochId(ret[u])' = EpochId(ret[u])
        /\ \A i \in DOMAIN rset[u] : EpochId(rset[u][i].clean)' = EpochId(rset[u][i].clean)
    BY <1>1 DEF EpochId
  <2> QED
    BY <1>1, <1>2, <2>1, <2>2, <2>3 DEF TxnClock, NotAhead
<1>4. Met(u)' = Met(u)
  BY <1>1 DEF Met, Overtaken, EpochId, IsClean
<1>5. ASSUME pc[u] = "gen" PROVE Drawing(u)'
  <2>1. \A k \in WriteKeys(u, 1) : ver'[k] = ver[k]
    BY <1>5, ReplacedHeld
  <2>2. WriteKeys(u, 1)' = WriteKeys(u, 1)
    BY <1>1 DEF WriteKeys
  <2> QED
    BY <1>1, <1>4, <1>5, <2>1, <2>2 DEF TxnClock, Drawing, EpochId, IsClean
<1>6. ASSUME pc[u] \in Installing PROVE Replacing(u)'
  <2>1. ToInstall(u)' = ToInstall(u)
    BY <1>1 DEF ToInstall, DoWrite
  <2>2. ASSUME NEW j \in ToInstall(u) PROVE ver'[wset[u][j].key] = ver[wset[u][j].key]
    BY <1>6, ReplacedHeld
  <2>3. ASSUME NEW j \in ToInstall(u), Replaces(u, wset[u][j].key)
        PROVE  Replaces(u, wset[u][j].key)'
    BY <1>1, <2>2, <2>3 DEF Replaces, Overtaken, EpochId, NumId, Below
  <2> QED
    BY <1>1, <1>4, <1>6, <2>1, <2>3 DEF TxnClock, Replacing
<1> QED
  BY <1>1, <1>3, <1>5, <1>6 DEF TxnClock, Installing

(* It is enough to look at the transaction that steps.                     *)
LEMMA ClockStep ==
    ASSUME TypeOK, TypeOK', LockInv, ClockInv, NEW t \in Txns, StepOf(t), TxnClock(t)'
    PROVE  ClockInv'
<1>0. tick' = tick /\ tick \in Nat
  BY RecordStays DEF TypeOK
<1>1. ASSUME NEW k \in Keys, ver'[k] # ver[k]
      PROVE  InstallWrite(t) /\ k \in Held(t) /\ ver'[k] = ctid[t]
  <2>1. InstallWrite(t)
    BY <1>1, RecordStays
  <2>2. /\ pc[t] = "install" /\ ix[t] <= Len(wset[t]) /\ DoWrite(t, ix[t])
        /\ ver' = [ver EXCEPT ![wset[t][ix[t]].key] = ctid[t]]
    BY <2>1 DEF InstallWrite
  <2>3. k = wset[t][ix[t]].key /\ ver'[k] = ctid[t]
    BY <1>1, <2>2 DEF TypeOK
  <2>4. ix[t] \in ToInstall(t)
    BY <2>2 DEF ToInstall, TypeOK
  <2> QED
    BY <2>1, <2>2, <2>3, <2>4, ReplacedHeld DEF Installing
<1>2. RecordClock'
  <2>1. ASSUME NEW k \in Keys PROVE EpochId(ver'[k]) <= tick
    <3>1. ver'[k] = ver[k] \/ ver'[k] = ctid[t]
      BY <1>1
    <3> QED
      BY <3>1 DEF ClockInv, RecordClock, TxnClock, NotAhead
  <2> QED
    BY <1>0, <2>1 DEF RecordClock, EpochId
<1>3. ASSUME NEW u \in Txns \ {t} PROVE TxnClock(u)'
  <2>1. Local(u)' = Local(u)
    BY OthersStay DEF Still
  <2>2. \A k \in Held(u) : k \in Keys /\ k \notin Held(t)
    BY DEF Held
  <2>3. \A k \in Held(u) : ver'[k] = ver[k]
    BY <1>1, <2>2
  <2>4. TxnClock(u)
    BY DEF ClockInv
  <2> QED
    BY <1>0, <2>1, <2>3, <2>4, ClockOther
<1> QED
  BY <1>2, <1>3 DEF ClockInv

(* What t has read, and when it committed, is of no tick to come.          *)
LEMMA ReadsNotAhead ==
    ASSUME TypeOK, TypeOK', EntryInv, ReadInv, ClockInv, NEW t \in Txns, StepOf(t)
    PROVE  \A i \in DOMAIN rset'[t] : EpochId(rset'[t][i].clean) <= tick
<1> SUFFICES ASSUME NEW i \in DOMAIN rset'[t] PROVE EpochId(rset'[t][i].clean) <= tick
  OBVIOUS
<1>1. PICK r \in ReadRecords :
         /\ r.clean = rset'[t][i].clean
         /\ (\E j \in DOMAIN rset[t] : r = rset[t][j]) \/ r.clean = ver[r.key]
  BY ReadsFrom
<1>2. CASE \E j \in DOMAIN rset[t] : r = rset[t][j]
  BY <1>1, <1>2 DEF ClockInv, TxnClock, NotAhead
<1>3. CASE r.clean = ver[r.key]
  BY <1>1, <1>3 DEF ClockInv, RecordClock, ReadRecords
<1> QED
  BY <1>1, <1>2, <1>3

(* A step outside gen_commit_tid and the installation.                     *)
LEMMA ClockKept ==
    ASSUME TypeOK, TypeOK', LockInv, EntryInv, ReadInv, ClockInv, NEW t \in Txns, StepOf(t),
           ctid'[t] = ctid[t], epoch'[t] = epoch[t],
           ret'[t] = ret[t] \/ ret'[t] = MIN_TID,
           pc'[t] # "gen", pc'[t] \notin Installing \/ ToInstall(t)' = {}
    PROVE  ClockInv'
<1>0. tick' = tick /\ tick \in Nat
  BY RecordStays DEF TypeOK
<1>1. NotAhead(t)'
  <2>1. EpochId(MIN_TID) = 0
    BY DEF MIN_TID, MakeTid, EpochId
  <2>2. EpochId(ret'[t]) <= tick
    BY <1>0, <2>1 DEF ClockInv, TxnClock, NotAhead
  <2>3. EpochId(ctid'[t]) <= tick /\ epoch'[t] <= tick
    BY DEF ClockInv, TxnClock, NotAhead
  <2> QED
    BY <1>0, <2>2, <2>3, ReadsNotAhead DEF NotAhead, EpochId
<1>2. TxnClock(t)'
  BY <1>1 DEF TxnClock, Replacing
<1> QED
  BY <1>2, ClockStep

(* The load of the commit epoch.                                           *)
LEMMA ValidatedClock ==
    ASSUME TypeOK, TypeOK', LockInv, EntryInv, ReadInv, ClockInv, NEW t \in Txns, Validated(t)
    PROVE  ClockInv'
<1>0. StepOf(t) /\ tick \in Nat
  BY DEF StepOf, Commit, TypeOK
<1>1. CASE wset[t] = <<>>
  <2>1. /\ pc' = [pc EXCEPT ![t] = "install"] /\ wset'[t] = <<>>
        /\ UNCHANGED <<ctid, epoch, ret>>
    BY <1>1, ValidatedIs DEF Validated, sets
  <2>2. ToInstall(t)' = {}
    <3>1. ix'[t] \in Nat \ {0}
      BY DEF TypeOK
    <3> QED
      BY <2>1, <3>1 DEF ToInstall, DoWrite
  <2>3. pc'[t] # "gen"
    BY <2>1 DEF TypeOK
  <2> QED
    BY <1>0, <2>1, <2>2, <2>3, ClockKept
<1>2. CASE wset[t] # <<>>
  <2>1. /\ pc'[t] = "gen" /\ UNCHANGED <<ctid, ver, rset, wset, tick>>
        /\ epoch'[t] = tick /\ EpochId(ret'[t]) = tick
    <3>1. pc'[t] = "gen" /\ UNCHANGED <<ctid, ver, rset, wset, tick>>
      BY <1>2, ValidatedIs DEF TypeOK, sets, record
    <3>2. /\ epoch' = [epoch EXCEPT ![t] = tick]
          /\ ret' = [ret EXCEPT ![t] =
                IF EpochId(ctid[t]) = tick THEN ctid[t] ELSE MakeTid(NoTxn, 0, tick)]
      BY <1>2 DEF Validated
    <3>3. EpochId(MakeTid(NoTxn, 0, tick)) = tick
      BY DEF EpochId, MakeTid
    <3> QED
      BY <3>1, <3>2, <3>3 DEF TypeOK
  <2>2. NotAhead(t)'
    BY <1>0, <2>1 DEF ClockInv, TxnClock, NotAhead, EpochId
  <2>3. Drawing(t)'
    <3>1. Met(t)'
      BY <1>0, <2>1 DEF Met, Overtaken, EpochId
    <3>2. WriteKeys(t, 1) \subseteq Keys /\ WriteKeys(t, 1)' = WriteKeys(t, 1)
      BY <2>1, SeedsType DEF WriteKeys
    <3> QED
      BY <2>1, <3>1, <3>2 DEF Drawing, ClockInv, RecordClock, TxnClock, NotAhead, EpochId, IsClean
  <2>4. TxnClock(t)'
    BY <2>1, <2>2, <2>3 DEF TxnClock, Installing
  <2> QED
    BY <1>0, <2>4, ClockStep
<1> QED
  BY <1>1, <1>2

(* A version that was read.                                                *)
LEMMA GenReadClock ==
    ASSUME TypeOK, TypeOK', LockInv, EntryInv, ReadInv, ClockInv, NEW t \in Txns, GenRead(t)
    PROVE  ClockInv'
<1> DEFINE r == Current(t)
           s == SeenTid(r)
<1>0. StepOf(t) /\ tick \in Nat /\ epoch[t] \in Nat
  BY DEF StepOf, Commit, TypeOK
<1>1. /\ pc[t] = "gen" /\ pc'[t] = "gen" /\ UNCHANGED <<ctid, ver, rset, wset, tick, epoch>>
      /\ ret'[t] = Later(ret[t], s) /\ ix[t] <= Len(rset[t])
  BY DEF GenRead, control, sets, record, TypeOK
<1>2. r \in ReadRecords /\ s \in CommitTids /\ ret[t] \in CommitTids
  BY <1>1, SeenType DEF TypeOK
<1>3. /\ EpochId(s) \in Nat /\ EpochId(ret[t]) \in Nat /\ EpochId(ret'[t]) \in Nat
      /\ EpochId(ret[t]) <= EpochId(ret'[t])
      /\ ret'[t] = ret[t] \/ (ret'[t] = s /\ EpochId(ret[t]) <= EpochId(s))
  <2>1. EpochId(s) \in Nat /\ EpochId(ret[t]) \in Nat
    BY <1>2, TidParts
  <2>2. ret'[t] = ret[t] \/ (ret'[t] = s /\ TidLeq(ret[t], s))
    BY <1>1 DEF Later
  <2>3. TidLeq(ret[t], s) => EpochId(ret[t]) <= EpochId(s)
    BY <2>1 DEF TidLeq, Below
  <2> QED
    BY <2>1, <2>2, <2>3
<1>4. ix[t] \in DOMAIN rset[t] /\ r = rset[t][ix[t]]
  <2>1. ix[t] \in Nat \ {0} /\ rset[t] \in Seq(ReadRecords)
    BY DEF TypeOK
  <2> QED
    BY <1>1, <2>1 DEF Current
<1>5. EpochId(s) <= tick
  <2>1. CASE IsClean(r)
    BY <1>4, <2>1 DEF SeenTid, ClockInv, TxnClock, NotAhead
  <2>2. CASE ~IsClean(r)
    BY <1>2, <2>2 DEF SeenTid, ClockInv, RecordClock, ReadRecords
  <2> QED
    BY <2>1, <2>2
<1>6. IsClean(r) => EpochId(s) <= epoch[t]
  BY <1>1, <1>4 DEF SeenTid, ClockInv, TxnClock, Drawing
<1>7. Drawing(t)
  BY <1>1 DEF ClockInv, TxnClock
<1> HIDE DEF r, s
<1>8. Met(t)'
  <2>1. epoch'[t] <= EpochId(ret'[t])
    BY <1>0, <1>1, <1>3, <1>7 DEF Drawing, Met
  <2>2. ASSUME EpochId(ret'[t]) # epoch[t] PROVE \E i \in DOMAIN rset[t] : ~IsClean(rset[t][i])
    <3>1. CASE EpochId(ret[t]) # epoch[t]
      BY <1>7, <3>1 DEF Drawing, Met, Overtaken
    <3>2. CASE EpochId(ret[t]) = epoch[t]
      <4>1. ~IsClean(r)
        BY <1>0, <1>3, <1>6, <2>2, <3>2
      <4> QED
        BY <1>4, <4>1
    <3> QED
      BY <3>1, <3>2
  <2> QED
    BY <1>1, <2>1, <2>2 DEF Met, Overtaken, EpochId, IsClean
<1>9. Drawing(t)'
  <2>1. WriteKeys(t, 1)' = WriteKeys(t, 1)
    BY <1>1 DEF WriteKeys
  <2> QED
    BY <1>1, <1>7, <1>8, <2>1 DEF Drawing, EpochId, IsClean
<1>10. NotAhead(t)'
  <2>1. EpochId(ret'[t]) <= tick
    BY <1>3, <1>5 DEF ClockInv, TxnClock, NotAhead
  <2> QED
    BY <1>1, <2>1 DEF ClockInv, TxnClock, NotAhead, EpochId
<1>11. TxnClock(t)'
  BY <1>1, <1>9, <1>10 DEF TxnClock, Installing
<1> QED
  BY <1>0, <1>11, ClockStep

(* The id.                                                                 *)
LEMMA DrawClock ==
    ASSUME TypeOK, TypeOK', LockInv, EntryInv, ReadInv, ClockInv, NEW t \in Txns, Draw(t)
    PROVE  ClockInv'
<1>1. PICK r \in Seeds(t) : DrawTid(t, r)
  BY DEF Draw
<1>0. StepOf(t) /\ tick \in Nat /\ epoch[t] \in Nat
  <2>1. GenCommitTid(t) \/ GenCommitTidOvertaken(t)
    BY <1>1 DEF GenCommitTid, GenCommitTidOvertaken
  <2> QED
    BY <2>1 DEF StepOf, Commit, TypeOK
<1>2. /\ pc[t] = "gen" /\ pc'[t] = "install" /\ UNCHANGED <<ver, rset, wset, tick, epoch>>
      /\ ret'[t] = r /\ ctid'[t] = MakeTid(t, NumId(r) + 1, epoch[t])
      /\ \A d \in Seeds(t) : TidLeq(d, r)
  BY <1>1 DEF DrawTid, Goto, sets, record, TypeOK
<1>3. EpochId(ctid'[t]) = epoch[t] /\ NumId(ctid'[t]) = NumId(r) + 1
  BY <1>2 DEF MakeTid, EpochId, NumId
<1>4. /\ r \in CommitTids /\ ret[t] \in CommitTids /\ WriteKeys(t, 1) \subseteq Keys
      /\ \A k \in WriteKeys(t, 1) : ver[k] \in CommitTids
  BY SeedsType DEF TypeOK
<1>5. /\ EpochId(r) \in Nat /\ NumId(r) \in Nat /\ EpochId(ret[t]) \in Nat
      /\ \A k \in WriteKeys(t, 1) : EpochId(ver[k]) \in Nat /\ NumId(ver[k]) \in Nat
  BY <1>4, TidParts
<1>6. Drawing(t)
  BY <1>2 DEF ClockInv, TxnClock
<1>7. EpochId(r) = EpochId(ret[t])
  <2>1. TidLeq(ret[t], r)
    BY <1>2 DEF Seeds
  <2>2. EpochId(ret[t]) <= EpochId(r)
    BY <1>5, <2>1 DEF TidLeq, Below
  <2>3. r = ret[t] \/ \E k \in WriteKeys(t, 1) : r = ver[k]
    BY DEF Seeds
  <2>4. r = ret[t] \/ EpochId(r) <= EpochId(ret[t])
    BY <1>0, <1>5, <1>6, <2>3 DEF Drawing, Met
  <2> QED
    BY <1>5, <2>2, <2>4
<1>8. Met(t)'
  BY <1>2, <1>6, <1>7 DEF Drawing, Met, Overtaken, EpochId, IsClean
<1>9. ASSUME NEW k \in WriteKeys(t, 1) PROVE Replaces(t, k)'
  <2>1. EpochId(ver[k]) <= epoch[t]
    BY <1>6 DEF Drawing
  <2>2. ASSUME EpochId(r) = epoch[t]
        PROVE  \/ EpochId(ver[k]) < epoch[t]
               \/ EpochId(ver[k]) = epoch[t] /\ NumId(ver[k]) < NumId(r) + 1
    <3>1. TidLeq(ver[k], r)
      BY <1>2 DEF Seeds
    <3> QED
      BY <1>0, <1>5, <2>1, <2>2, <3>1 DEF TidLeq, Below
  <2>3. EpochId(ver'[k]) <= EpochId(ctid'[t])
    BY <1>2, <1>3, <2>1
  <2>4. EpochId(ret'[t]) = epoch'[t] => Below(ver'[k], ctid'[t])
    BY <1>2, <1>3, <2>2 DEF Below
  <2> QED
    BY <2>3, <2>4 DEF Replaces, Overtaken, EpochId, NumId, Below
<1>10. Replacing(t)'
  <2>1. ASSUME NEW j \in ToInstall(t)' PROVE wset'[t][j].key \in WriteKeys(t, 1)
    <3>1. j \in 1..Len(wset[t])
      <4>1. ix'[t] \in Nat \ {0} /\ Len(wset[t]) \in Nat
        <5>1. wset[t] \in Seq(WriteRecords) /\ ix'[t] \in Nat \ {0}
          BY DEF TypeOK
        <5> QED
          BY <5>1
      <4>2. j \in ix'[t]..Len(wset[t])
        BY <1>2 DEF ToInstall
      <4> QED
        BY <4>1, <4>2
    <3> QED
      BY <1>2, <3>1 DEF WriteKeys
  <2>2. ASSUME NEW j \in ToInstall(t)' PROVE Replaces(t, wset[t][j].key)'
    <3>1. PICK k \in WriteKeys(t, 1) : k = wset'[t][j].key
      BY <2>1
    <3>2. Replaces(t, k)'
      BY <1>9
    <3> QED
      BY <3>1, <3>2 DEF Replaces
  <2> QED
    BY <1>8, <2>2 DEF Replacing
<1>11. NotAhead(t)'
  <2>1. EpochId(ret'[t]) <= tick /\ EpochId(ctid'[t]) <= tick
    BY <1>2, <1>3, <1>7 DEF ClockInv, TxnClock, NotAhead
  <2> QED
    BY <1>2, <2>1 DEF ClockInv, TxnClock, NotAhead, EpochId
<1>12. TxnClock(t)'
  BY <1>2, <1>10, <1>11 DEF TxnClock
<1> QED
  BY <1>0, <1>12, ClockStep

(* One write after the other.                                              *)
LEMMA InstallClock ==
    ASSUME TypeOK, TypeOK', LockInv, EntryInv, ReadInv, ClockInv, NEW t \in Txns,
           SkipWrite(t) \/ InstallWrite(t) \/ ReleaseWrite(t)
    PROVE  ClockInv'
<1>0. StepOf(t) /\ tick \in Nat /\ ix[t] \in Nat /\ wset[t] \in Seq(WriteRecords)
  BY DEF StepOf, Commit, TypeOK
<1>1. /\ pc[t] \in Installing /\ pc'[t] \in Installing
      /\ UNCHANGED <<ctid, rset, wset, tick, epoch, ret>>
  BY DEF SkipWrite, InstallWrite, ReleaseWrite, control, sets, clock, Goto, TypeOK, Installing
<1>2. Replacing(t)
  BY <1>1 DEF ClockInv, TxnClock
<1>3. Met(t)' = Met(t)
  BY <1>1 DEF Met, Overtaken, EpochId, IsClean
<1>4. ASSUME NEW k \in Keys, Replaces(t, k), ver'[k] = ver[k] PROVE Replaces(t, k)'
  BY <1>1, <1>4 DEF Replaces, Overtaken, EpochId, NumId, Below
<1>5. \A j \in ToInstall(t) : wset[t][j].key \in Keys
  <2>1. \A j \in ToInstall(t) : j \in 1..Len(wset[t])
    BY ToInstallType
  <2>2. \A j \in 1..Len(wset[t]) : wset[t][j] \in WriteRecords
    BY <1>0
  <2> QED
    BY <2>1, <2>2 DEF WriteRecords
<1>6. CASE InstallWrite(t)
  <2> DEFINE k == wset[t][ix[t]].key
  <2>1. /\ pc[t] = "install" /\ pc'[t] = "release" /\ ix'[t] = ix[t] /\ ix[t] <= Len(wset[t])
        /\ DoWrite(t, ix[t]) /\ ver' = [ver EXCEPT ![k] = ctid[t]]
    BY <1>6 DEF InstallWrite, Goto, TypeOK
  <2>2. ToInstall(t)' = ToInstall(t)
    BY <1>1, <2>1 DEF ToInstall, DoWrite
  <2>3. ASSUME NEW j \in ToInstall(t), j # ix[t] PROVE ver'[wset[t][j].key] = ver[wset[t][j].key]
    <3>1. wset[t][j].key # k
      <4>1. DoWrite(t, j) /\ j \in ix[t]..Len(wset[t]) /\ ix[t] \in DOMAIN wset[t]
        BY <2>1, ToInstallType DEF ToInstall
      <4>2. j > ix[t] /\ j \in DOMAIN wset[t]
        BY <1>0, <2>3, <4>1
      <4> QED
        BY <1>0, <2>1, <4>2 DEF DoWrite
    <3> QED
      BY <1>5, <2>1, <3>1 DEF TypeOK
  <2>4. Replacing(t)'
    <3>1. ASSUME NEW j \in ToInstall(t), j # ix[t] PROVE Replaces(t, wset[t][j].key)'
      <4>1. PICK i \in Keys : i = wset[t][j].key
        BY <1>5
      <4>2. Replaces(t, i) /\ ver'[i] = ver[i]
        BY <1>2, <2>1, <2>3, <3>1, <4>1 DEF Replacing
      <4>3. Replaces(t, i)'
        BY <1>4, <4>2
      <4> QED
        BY <1>1, <4>1, <4>3 DEF Replaces
    <3> QED
      BY <1>2, <1>3, <2>1, <2>2, <3>1 DEF Replacing
  <2>5. NotAhead(t)'
    BY <1>1 DEF ClockInv, TxnClock, NotAhead, EpochId
  <2>6. TxnClock(t)'
    BY <2>1, <2>4, <2>5 DEF TxnClock
  <2> QED
    BY <1>0, <2>6, ClockStep
<1>7. CASE SkipWrite(t) \/ ReleaseWrite(t)
  <2>1. /\ pc'[t] = "install" /\ ix'[t] = ix[t] + 1 /\ UNCHANGED ver
        /\ pc[t] = "install" \/ pc[t] = "release"
    BY <1>7 DEF SkipWrite, ReleaseWrite, control, record, Goto, TypeOK
  <2>2. ASSUME NEW j \in ToInstall(t)' PROVE j \in ToInstall(t) /\ j # ix[t]
    <3>1. j \in (ix[t] + 1)..Len(wset[t]) /\ DoWrite(t, j)
      BY <1>1, <2>1 DEF ToInstall, DoWrite
    <3> QED
      BY <1>0, <3>1 DEF ToInstall
  <2>3. Replacing(t)'
    <3>1. ASSUME NEW j \in ToInstall(t)' PROVE Replaces(t, wset[t][j].key)'
      <4>1. PICK i \in Keys : i = wset[t][j].key
        BY <1>5, <2>2
      <4>2. Replaces(t, i)
        BY <1>2, <2>2, <4>1 DEF Replacing
      <4>3. Replaces(t, i)'
        BY <1>4, <2>1, <4>2
      <4> QED
        BY <1>1, <4>1, <4>3 DEF Replaces
    <3> QED
      BY <1>2, <1>3, <2>2, <3>1 DEF Replacing
  <2>4. NotAhead(t)'
    BY <1>1 DEF ClockInv, TxnClock, NotAhead, EpochId
  <2>5. TxnClock(t)'
    BY <2>1, <2>3, <2>4 DEF TxnClock
  <2> QED
    BY <1>0, <2>5, ClockStep
<1> QED
  BY <1>6, <1>7

LEMMA InitClock == Init => ClockInv
<1> SUFFICES ASSUME Init PROVE ClockInv
  OBVIOUS
<1>1. EpochId(LoadTid) = 1 /\ EpochId(MIN_TID) = 0
  BY DEF LoadTid, MIN_TID, MakeTid, EpochId
<1>2. RecordClock
  BY <1>1 DEF Init, RecordClock
<1>3. ASSUME NEW t \in Txns PROVE TxnClock(t)
  BY <1>1 DEF Init, TxnClock, NotAhead, Installing
<1> QED
  BY <1>2, <1>3 DEF ClockInv

LEMMA NextClock ==
    TypeOK /\ TypeOK' /\ LockInv /\ EntryInv /\ ReadInv /\ ClockInv /\ [Next]_vars => ClockInv'
<1> SUFFICES ASSUME TypeOK, TypeOK', LockInv, EntryInv, ReadInv, ClockInv, [Next]_vars PROVE ClockInv'
  OBVIOUS
<1>1. CASE UNCHANGED vars \/ Tick \/ Stop
  <2>1. /\ UNCHANGED <<pc, ix, rset, wset, rstart, wstart, ctid, epoch, ret, ver>>
        /\ tick' = tick \/ tick' = tick + 1
    BY <1>1 DEF Tick, Stop, vars, control, sets, clock, record
  <2>2. tick \in Nat /\ tick' \in Nat /\ tick <= tick'
    BY <2>1 DEF TypeOK
  <2>3. RecordClock'
    <3>1. ASSUME NEW k \in Keys PROVE EpochId(ver[k]) <= tick'
      <4>1. EpochId(ver[k]) \in Nat /\ EpochId(ver[k]) <= tick
        BY TidParts DEF TypeOK, ClockInv, RecordClock
      <4> QED
        BY <2>2, <4>1
    <3> QED
      BY <2>1, <3>1 DEF RecordClock, EpochId
  <2>4. ASSUME NEW u \in Txns PROVE TxnClock(u)'
    <3>1. Local(u)' = Local(u)
      BY <2>1 DEF Local
    <3>2. \A k \in Held(u) : ver'[k] = ver[k]
      BY <2>1
    <3>3. TxnClock(u)
      BY DEF ClockInv
    <3> QED
      BY <2>2, <3>1, <3>2, <3>3, ClockOther
  <2> QED
    BY <2>3, <2>4 DEF ClockInv
<1>2. ASSUME NEW t \in Txns, StepOf(t) PROVE ClockInv'
  <2>1. CASE Validated(t)
    BY <2>1, ValidatedClock
  <2>2. CASE GenRead(t)
    BY <2>2, GenReadClock
  <2>3. CASE Draw(t)
    BY <2>3, DrawClock
  <2>4. CASE SkipWrite(t) \/ InstallWrite(t) \/ ReleaseWrite(t)
    BY <2>4, InstallClock
  <2>5. CASE ~(\/ Validated(t) \/ GenRead(t) \/ Draw(t) \/ SkipWrite(t) \/ InstallWrite(t)
               \/ ReleaseWrite(t))
    <3>1. ctid'[t] = ctid[t] /\ epoch'[t] = epoch[t]
      BY <1>2, <2>5, RecordStays
    <3>2. ret'[t] = ret[t] \/ ret'[t] = MIN_TID
      <4>1. CASE Finish(t)
        BY <4>1 DEF Finish, TypeOK
      <4>2. CASE ~Finish(t)
        BY <1>2, <2>5, <4>2, RecordStays
      <4> QED
        BY <4>1, <4>2
    <3>3. pc'[t] \notin {"gen", "install", "release"}
      <4>1. SUFFICES ASSUME pc'[t] \in {"gen", "install", "release"} PROVE FALSE
        OBVIOUS
      <4>2. pc[t] \in DecidedPcs
        BY <1>2, <2>5, <4>1, SettledBefore DEF DecidedPcs
      <4>3. Installed(t) \/ UnlinkRead(t) \/ Finish(t)
        BY <1>2, <2>5, <4>2, DecidedStep
      <4>4. pc'[t] \in {"cleanup", "idle", "aunlink"}
        BY <4>3 DEF Installed, UnlinkRead, Finish, control, Goto, TypeOK
      <4> QED
        BY <4>1, <4>4
    <3> QED
      BY <1>2, <3>1, <3>2, <3>3, ClockKept DEF Installing
  <2> QED
    BY <2>1, <2>2, <2>3, <2>4, <2>5
<1> QED
  BY <1>1, <1>2 DEF Next, StepOf

(* Every commit id is of the epoch it was drawn in or of an earlier one,   *)
(* and below it is what it is about to replace, unless a tick has overtaken*)
(* a transaction with dirty reads.                                         *)
THEOREM ClockCorrect == Spec => []ClockInv
<1>1. TypeOK /\ LockInv /\ EntryInv /\ ReadInv /\ ClockInv /\ [Next]_vars => ClockInv'
  BY NextType, NextClock
<1> QED
  BY InitClock, <1>1, TypeCorrect, LocksCorrect, EntriesCorrect, ReadsCorrect, PTL DEF Spec

(* The order of commit ids is the order in which a record's versions are   *)
(* installed, under its lock and its write intent, but for a transaction   *)
(* with dirty reads that was overtaken by a tick.                          *)
THEOREM VersionOrder == Spec => VersionsIncrease
<1> DEFINE Replaced(k) ==
              LET t == lock[k] IN
              /\ t # NoTxn /\ intent[k]
              /\ EpochId(ver[k]) <= EpochId(ver'[k])
              /\ \/ ~TidLeq(ver'[k], ver[k])
                 \/ /\ Overtaken(t) /\ epoch[t] < tick
                    /\ \E i \in DOMAIN rset[t] : ~IsClean(rset[t][i])
           Increase == \A k \in Keys : <<ver[k], val[k]>>' # <<ver[k], val[k]>> => Replaced(k)
<1>1. TypeOK /\ LockInv /\ ClockInv /\ [Next]_vars => [Increase]_vars
  <2> SUFFICES ASSUME TypeOK, LockInv, ClockInv, Next, NEW k \in Keys,
                      <<ver[k], val[k]>>' # <<ver[k], val[k]>>
               PROVE  Replaced(k)
    OBVIOUS
  <2>1. PICK t \in Txns : StepOf(t)
    BY DEF Next, StepOf, Tick, Stop, vars, record
  <2>2. InstallWrite(t)
    BY <2>1, RecordStays
  <2>3. /\ pc[t] = "install" /\ ix[t] <= Len(wset[t]) /\ DoWrite(t, ix[t])
        /\ ver' = [ver EXCEPT ![wset[t][ix[t]].key] = ctid[t]]
        /\ k = wset[t][ix[t]].key
    BY <2>2 DEF InstallWrite, TypeOK
  <2>4. ver'[k] = ctid[t]
    BY <2>3 DEF TypeOK
  <2>5. ix[t] \in ToInstall(t)
    BY <2>3 DEF ToInstall, TypeOK
  <2>6. lock[k] = t /\ intent[k] /\ t # NoTxn
    <3>1. k \in Held(t) /\ intent[k]
      BY <2>3, <2>5 DEF LockInv, TxnInv, Installing
    <3> QED
      BY <3>1, TxnsAssumption DEF Held, NoTxn
  <2>7. Met(t) /\ Replaces(t, k)
    BY <2>3, <2>5 DEF ClockInv, TxnClock, Installing, Replacing
  <2>8. /\ EpochId(ver[k]) \in Nat /\ NumId(ver[k]) \in Nat /\ EpochId(ctid[t]) \in Nat
        /\ NumId(ctid[t]) \in Nat /\ EpochId(ret[t]) \in Nat /\ epoch[t] \in Nat /\ tick \in Nat
    BY TidParts DEF TypeOK
  <2>9. CASE Overtaken(t)
    <3>1. epoch[t] < tick
      <4>1. EpochId(ret[t]) <= tick
        BY DEF ClockInv, TxnClock, NotAhead
      <4> QED
        BY <2>7, <2>8, <2>9, <4>1 DEF Met, Overtaken
    <3> QED
      BY <2>4, <2>6, <2>7, <2>9, <3>1 DEF Met, Replaces
  <2>10. CASE ~Overtaken(t)
    <3>1. ~TidLeq(ctid[t], ver[k])
      BY <2>7, <2>8, <2>10 DEF Replaces, TidLeq, Below
    <3> QED
      BY <2>4, <2>6, <2>7, <3>1 DEF Replaces
  <2> QED
    BY <2>9, <2>10
<1> QED
  BY <1>1, TypeCorrect, LocksCorrect, ClockCorrect, PTL DEF Spec, VersionsIncrease

-----------------------------------------------------------------------------
(* What the tests of a dirty read say.                                     *)

(* The write that r depends on is one of its writer's, if the writer still *)
(* runs, or has not been followed in its object.                           *)
DepOk(r) ==
    LET u == r.dep[1] IN
    r.dep[2] <= run[u]
    /\ (r.dep = Tid(u) /\ pc[u] # "ctor" => WriteOut(u, r.key, r.dseq))
DepInv ==
    \A t \in Txns : \A i \in DOMAIN rset[t] : IsClean(rset[t][i]) \/ DepOk(rset[t][i])
(* last_txn_seq is the place of the installed value, but while it is being *)
(* set.                                                                    *)
Releasing(w, k) == pc[w] = "release" /\ wset[w][ix[w]].key = k
SeqInv ==
    \A k \in Keys :
        /\ \A w \in Txns : Releasing(w, k) => val[k].ix = ix[w]
        /\ val[k].ix = seq[k] \/ \E w \in Txns : Releasing(w, k)
(* A transaction with writes takes an id of its core; where its write is   *)
(* installed, and the version has its core, the value is its own, of this  *)
(* run.  (The id itself may come again if a tick overtakes it.)            *)
Settled(u) == (pc[u] \in Installing \cup {"cleanup"} \/ state[u] = "COMMITED") /\ wset[u] # <<>>
Done(u, k) ==
    \E j \in DOMAIN wset[u] :
        /\ wset[u][j].key = k /\ DoWrite(u, j)
        /\ \/ state[u] = "COMMITED" \/ pc[u] = "cleanup"
           \/ pc[u] \in Installing /\ (j < ix[u] \/ (j = ix[u] /\ pc[u] = "release"))
VersionsFit(u) ==
    /\ Settled(u) => CoreId(ctid[u]) = u
    /\ \A k \in Keys : Done(u, k) /\ CoreId(ver[k]) = u => val[k].tid = Tid(u)
CoresFit == \A k \in Keys : CoreId(ver[k]) = val[k].tid[1]
TestInv == DepInv /\ SeqInv /\ CoresFit /\ \A u \in Txns : VersionsFit(u)

(* Natural numbers have a least one.                                       *)
LEMMA Smallest ==
    ASSUME NEW T, T \subseteq Nat, T # {}
    PROVE  \E x \in T : \A y \in T : x <= y
<1> DEFINE R == StrictSubsetOrdering(Nat)
           I(n) == {m \in Nat : m < n}
           U == {I(n) : n \in T}
<1>1. \A n \in Nat : IsFiniteSet(I(n))
  <2> TAKE n \in Nat
  <2>1. I(n) = 0..(n - 1) /\ 0 \in Int /\ n - 1 \in Int
    OBVIOUS
  <2>2. IsFiniteSet(0..(n - 1))
    BY <2>1, FS_Interval
  <2> QED
    BY <2>1, <2>2
<1>2. U \subseteq FiniteSubsetsOf(Nat) /\ U # {}
  BY <1>1 DEF FiniteSubsetsOf
<1>3. IsWellFoundedOn(R, FiniteSubsetsOf(Nat))
  BY FS_StrictSubsetOrderingWellFounded
<1> HIDE DEF U, R
<1>4. PICK u \in U : \A v \in U : ~(<<v, u>> \in R)
  BY <1>2, <1>3, WFMin
<1>5. PICK x \in T : u = I(x)
  BY DEF U
<1>6. ASSUME NEW y \in T, ~(x <= y) PROVE FALSE
  <2>1. I(y) \in U
    BY DEF U
  <2>2. x \in Nat /\ y \in Nat /\ y < x
    BY <1>6
  <2>3. y \in I(x) /\ y \notin I(y) /\ I(y) \subseteq I(x) /\ I(x) \subseteq Nat
    BY <2>2
  <2>4. <<I(y), I(x)>> \in R
    BY <2>3 DEF R, StrictSubsetOrdering
  <2> QED
    BY <1>4, <1>5, <2>1, <2>4
<1> QED
  BY <1>6

(* Every record that is written has a last write.                          *)
LEMMA LastWrite ==
    ASSUME TypeOK, NEW t \in Txns, NEW i \in DOMAIN wset[t]
    PROVE  \E j \in DOMAIN wset[t] : wset[t][j].key = wset[t][i].key /\ DoWrite(t, j)
<1> DEFINE n == Len(wset[t])
           S == {j \in DOMAIN wset[t] : wset[t][j].key = wset[t][i].key}
           T == {n - j : j \in S}
<1>1. n \in Nat /\ DOMAIN wset[t] = 1..n
  <2>1. wset[t] \in Seq(WriteRecords)
    BY DEF TypeOK
  <2> QED
    BY <2>1
<1>2. T \subseteq Nat /\ T # {}
  <2>1. \A j \in S : n - j \in Nat
    BY <1>1
  <2>2. n - i \in T
    OBVIOUS
  <2> QED
    BY <2>1, <2>2
<1> HIDE DEF T
<1>3. PICK x \in T : \A y \in T : x <= y
  BY <1>2, Smallest
<1>4. PICK j \in S : x = n - j
  BY DEF T
<1>5. ASSUME NEW m \in S PROVE m <= j
  <2>1. n - m \in T /\ m \in 1..n /\ j \in 1..n
    BY <1>1 DEF T
  <2>2. n - j <= n - m
    BY <1>3, <1>4, <2>1
  <2> QED
    BY <1>1, <2>1, <2>2
<1> QED
  BY <1>4, <1>5 DEF DoWrite

(* What a transaction has exposed stays exposed until it ends.             *)
LEMMA ExposedWritesStay ==
    ASSUME TypeOK, TypeOK', EntryInv, NEW t \in Txns, StepOf(t), ~Begin(t), ~NewTid(t)
    PROVE  /\ run'[t] = run[t]
           /\ \A k \in Keys, i \in Nat : WriteOut(t, k, i) => WriteOut(t, k, i)'
<1>1. /\ wset[t] \in Seq(WriteRecords) /\ wset'[t] \in Seq(WriteRecords) /\ Len(wset[t]) \in Nat
      /\ Len(wset'[t]) \in Nat /\ wstart[t] \in Nat /\ ix[t] \in Nat
      /\ WriteTop(t) \in Nat
  <2>1. WriteTop(t) \in Nat
    BY TopTypes
  <2>2. /\ wset[t] \in Seq(WriteRecords) /\ wset'[t] \in Seq(WriteRecords)
        /\ wstart[t] \in Nat /\ ix[t] \in Nat
    BY DEF TypeOK
  <2> QED
    BY <2>1, <2>2
<1>2. CASE \/ StartWait(t) \/ WaitOne(t) \/ WaitEnd(t) \/ WaitThrow(t) \/ NoPieceEnd(t)
           \/ PieceEnd(t) \/ UserAbort(t) \/ ExposeLock(t) \/ ReadsExposed(t) \/ ExposeDone(t)
           \/ ExposeFail(t) \/ StartCommit(t) \/ CommitWaitOne(t) \/ CommitWaitFail(t) \/ CommitWaitEnd(t)
           \/ LockWrite(t) \/ WritesLocked(t) \/ ValidateClean(t) \/ ValidateDirty(t) \/ ValidateFail(t)
           \/ Validated(t) \/ GenRead(t) \/ Draw(t) \/ InstallWrite(t) \/ Installed(t)
           \/ AbortUnlock(t)
  <2>1. wset'[t] = wset[t] /\ run'[t] = run[t]
        /\ (WriteTop(t)' >= WriteTop(t) \/ WriteTop(t)' > Len(wset[t]))
    BY <1>2, PlainOnward DEF Onward
  <2>2. WriteTop(t)' \in Nat
    BY DEF TypeOK, WriteTop
  <2> QED
    BY <1>1, <2>1, <2>2 DEF WriteOut
<1>3. CASE Finish(t) \/ Aborted(t)
  <2>1. wset'[t] = wset[t] /\ run'[t] = run[t] /\ pc'[t] = "idle"
    BY <1>3 DEF Finish, Aborted, Goto, TypeOK, sets
  <2>2. WriteTop(t)' = Len(wset[t]) + 1
    BY <2>1 DEF WriteTop, Building
  <2> QED
    BY <1>1, <2>1, <2>2 DEF WriteOut
<1>4. CASE Get(t) \/ Put(t) \/ Update(t)
  <2>1. /\ pc[t] \in {"exec", "access"} /\ pc'[t] = "piece" /\ UNCHANGED <<wstart, run>>
    BY <1>4 DEF Get, Put, Update, Accessing, Goto, TypeOK
  <2>2. wset'[t] = wset[t] \/ \E w : wset'[t] = Append(wset[t], w)
    BY <1>4, ZenonT(40) DEF Get, Put, Update, AddWrite, TypeOK
  <2>3. \A i \in 1..Len(wset[t]) : i \in 1..Len(wset'[t]) /\ wset'[t][i] = wset[t][i]
    BY <1>1, <2>2
  <2> QED
    BY <2>1, <2>3 DEF WriteOut, WriteTop, Building
<1>5. CASE CheckRmw(t)
  <2>1. /\ pc[t] = "elock" /\ pc'[t] = "eread" /\ UNCHANGED <<wstart, run>>
    BY <1>5 DEF CheckRmw, Goto, TypeOK
  <2>2. \A i \in 1..Len(wset[t]) : i \in 1..Len(wset'[t]) /\ wset'[t][i].key = wset[t][i].key
    BY <1>1, <1>5, CheckRmwSame
  <2> QED
    BY <2>1, <2>2 DEF WriteOut, WriteTop, Building
<1>6. CASE RetryPiece(t)
  <2>1. /\ pc[t] = "undo" /\ pc'[t] = "exec" /\ UNCHANGED <<wstart, run>>
        /\ wset'[t] = SubSeq(wset[t], 1, wstart[t] - 1) /\ wstart[t] \in 1..(Len(wset[t]) + 1)
    <3>1. wstart[t] \in Nat \ {0} /\ wstart[t] <= Len(wset[t]) + 1
      BY DEF TypeOK, PieceInSets
    <3> QED
      <4>1. /\ pc[t] = "undo" /\ UNCHANGED <<wstart, run>>
            /\ wset' = [wset EXCEPT ![t] = SubSeq(@, 1, wstart[t] - 1)]
            /\ pc' = [pc EXCEPT ![t] = "exec"]
        BY <1>6 DEF RetryPiece, Goto
      <4>2. pc'[t] = "exec" /\ wset'[t] = SubSeq(wset[t], 1, wstart[t] - 1)
        BY <4>1 DEF TypeOK
      <4>3. wstart[t] \in 1..(Len(wset[t]) + 1)
        BY <1>1, <3>1
      <4> QED
        BY <4>1, <4>2, <4>3
  <2>2. \A i \in 1..(wstart[t] - 1) : i \in 1..Len(wset'[t]) /\ wset'[t][i] = wset[t][i]
    BY <1>1, <2>1
  <2>3. WriteTop(t) = wstart[t] /\ WriteTop(t)' = wstart[t]
    BY <2>1 DEF WriteTop, Building
  <2>4. \A i \in Nat : i \in 1..Len(wset[t]) /\ i < wstart[t] => i \in 1..(wstart[t] - 1)
    BY <1>1, <2>1
  <2> QED
    BY <2>1, <2>2, <2>3, <2>4 DEF WriteOut
<1>7. CASE UndoOne(t) \/ UnlinkRead(t) \/ AbortUnlinkWrite(t)
  <2>1. UNCHANGED <<pc, run, wset, wstart, ix>>
    BY <1>7 DEF UndoOne, UnlinkRead, AbortUnlinkWrite, control, sets
  <2> QED
    BY <2>1 DEF WriteOut, WriteTop
<1>8. CASE SkipWrite(t) \/ ReleaseWrite(t)
  <2>1. /\ pc[t] \in Installing /\ pc'[t] = "install" /\ UNCHANGED <<run, wset, wstart>>
    BY <1>8 DEF SkipWrite, ReleaseWrite, Goto, TypeOK, control, sets, Installing
  <2> QED
    BY <2>1 DEF WriteOut, WriteTop, Installing, Building
<1>9. CASE ExposeRead(t) \/ ExposeWrite(t)
  <2>1. /\ UNCHANGED <<pc, run, wset, wstart>> /\ pc[t] \in {"eread", "ewrite"} /\ ix'[t] = ix[t] + 1
    BY <1>9, ZenonT(40) DEF ExposeRead, ExposeWrite, control, sets, TypeOK
  <2>2. WriteTop(t)' \in Nat /\ WriteTop(t)' >= WriteTop(t)
    BY <1>1, <2>1 DEF WriteTop, Building
  <2> QED
    BY <1>1, <2>1, <2>2 DEF WriteOut
<1> QED
  BY <1>2, <1>3, <1>4, <1>5, <1>6, <1>7, <1>8, <1>9, Draws DEF StepOf, Execute, Expose, Commit, Abort

LEMMA DepStays ==
    ASSUME TypeOK, TypeOK', EntryInv, NEW t \in Txns, StepOf(t),
           NEW r \in ReadRecords, ~IsClean(r), DepOk(r)
    PROVE  DepOk(r)'
<1> DEFINE u == r.dep[1]
<1>1. u \in Txns /\ r.dep[2] \in Nat /\ r.key \in Keys /\ r.dseq \in Nat /\ run[u] \in Nat
  BY DEF ReadRecords, Tids, IsClean, TypeOK
<1>2. CASE u # t
  <2>1. Still(u)
    BY <1>1, <1>2, OthersStay
  <2>2. pc'[u] = pc[u] /\ run'[u] = run[u] /\ wset'[u] = wset[u] /\ wstart'[u] = wstart[u] /\ ix'[u] = ix[u]
    BY <2>1 DEF Still, Local
  <2> QED
    BY <2>2 DEF DepOk, WriteOut, WriteTop, Tid
<1>3. CASE u = t /\ Begin(t)
  <2>1. pc'[u] = "ctor" /\ run'[u] = run[u]
    BY <1>3 DEF Begin, Goto, TypeOK
  <2> QED
    BY <2>1 DEF DepOk
<1>4. CASE u = t /\ NewTid(t)
  <2>1. run'[u] = run[u] + 1
    BY <1>4 DEF NewTid, TypeOK
  <2>2. r.dep # Tid(u)'
    BY <1>1, <2>1 DEF DepOk, Tid
  <2> QED
    BY <1>1, <2>1, <2>2 DEF DepOk
<1>5. CASE u = t /\ ~Begin(t) /\ ~NewTid(t)
  <2>1. run'[u] = run[u] /\ (WriteOut(u, r.key, r.dseq) => WriteOut(u, r.key, r.dseq)')
    BY <1>1, <1>5, ExposedWritesStay
  <2>2. pc[u] # "ctor"
    BY <1>5 DEF StepOf, Execute, Expose, Commit, Abort, NewTid, StartWait, WaitOne, WaitEnd,
         WaitThrow, Get, Put, Update, Accessing, NoPieceEnd, PieceEnd, UserAbort, ExposeLock, CheckRmw,
         ExposeRead, ReadsExposed, ExposeWrite, ExposeDone, ExposeFail, UndoOne, RetryPiece, StartCommit,
         CommitWaitOne, CommitWaitFail, CommitWaitEnd, LockWrite, WritesLocked, ValidateClean,
         ValidateDirty, ValidateFail, DirtyTesting, Validated, GenRead, GenCommitTid,
         GenCommitTidOvertaken, DrawTid, AbortUnlock, AbortUnlinkWrite, Aborted,
         SkipWrite, InstallWrite, ReleaseWrite, Installed, UnlinkRead, Finish
  <2> QED
    BY <2>1, <2>2 DEF DepOk, Tid
<1> QED
  BY <1>2, <1>3, <1>4, <1>5

LEMMA NextDeps ==
    ASSUME TypeOK, TypeOK', EntryInv, ReadInv, DepInv, NEW t \in Txns, StepOf(t)
    PROVE  DepInv'
<1>1. ASSUME NEW r \in ReadRecords, DepLinked(t, r) PROVE DepOk(r)'
  <2> DEFINE u == r.dep[1]
  <2>1. u \in Txns \ {t} /\ r.dep = Tid(u) /\ WriteOut(u, r.key, r.dseq)
    BY <1>1 DEF DepLinked
  <2>2. Still(u)
    BY <2>1, OthersStay
  <2>3. pc'[u] = pc[u] /\ run'[u] = run[u] /\ wset'[u] = wset[u] /\ wstart'[u] = wstart[u] /\ ix'[u] = ix[u]
    BY <2>2 DEF Still, Local
  <2>4. r.dep[2] <= run'[u]
    <3>1. r.dep[2] = run[u] /\ run[u] \in Nat
      <4>1. Tid(u)[2] = run[u]
        BY DEF Tid
      <4> QED
        BY <2>1, <4>1 DEF TypeOK
    <3> QED
      BY <2>3, <3>1
  <2>5. WriteOut(u, r.key, r.dseq)'
    BY <2>1, <2>3 DEF WriteOut, WriteTop
  <2> QED
    BY <2>4, <2>5 DEF DepOk
<1>2. ASSUME NEW i \in DOMAIN rset'[t] PROVE IsClean(rset[t][i])' \/ DepOk(rset[t][i])'
  <2>1. PICK r \in ReadRecords :
           /\ r.key = rset'[t][i].key /\ r.occ = rset'[t][i].occ
           /\ r.dep = rset'[t][i].dep /\ r.dseq = rset'[t][i].dseq
           /\ (\E j \in DOMAIN rset[t] : r = rset[t][j]) \/ IsClean(r) \/ DepLinked(t, r)
    BY ReadsFrom
  <2>2. IsClean(r) \/ DepOk(r)'
    BY <1>1, <2>1, DepStays DEF DepInv
  <2> QED
    BY <2>1, <2>2 DEF IsClean, DepOk, WriteOut, WriteTop, Tid
<1>3. ASSUME NEW u \in Txns \ {t}, NEW i \in DOMAIN rset'[u]
      PROVE  IsClean(rset[u][i])' \/ DepOk(rset[u][i])'
  <2>1. rset'[u] = rset[u]
    BY OthersStay DEF Still, Local
  <2>2. rset[u] \in Seq(ReadRecords)
    BY DEF TypeOK
  <2>3. PICK r \in ReadRecords : r = rset[u][i]
    BY <2>1, <2>2
  <2>4. IsClean(r) \/ DepOk(r)
    BY <2>1, <2>3 DEF DepInv
  <2>5. IsClean(r) \/ DepOk(r)'
    BY <2>4, DepStays
  <2>6. r = rset'[u][i]
    BY <2>1, <2>3
  <2> QED
    BY <2>5, <2>6 DEF IsClean, DepOk, WriteOut, WriteTop, Tid
<1> QED
  BY <1>2, <1>3 DEF DepInv

LEMMA ToRelease ==
    ASSUME TypeOK, TypeOK', ReadInv, NEW t \in Txns, StepOf(t), ~InstallWrite(t)
    PROVE  pc'[t] # "release"
<1> SUFFICES ASSUME pc'[t] = "release" PROVE FALSE
  OBVIOUS
<1>1. ~Validated(t) /\ ~Finish(t) /\ ~GenRead(t) /\ ~Draw(t)
  <2>1. ~Validated(t)
    <3>1. SUFFICES ASSUME Validated(t) PROVE FALSE
      OBVIOUS
    <3>2. pc'[t] \in {"gen", "install"}
      <4>1. pc \in [Txns -> Pcs]
        BY DEF TypeOK
      <4>2. pc'[t] = IF wset[t] = <<>> THEN "install" ELSE "gen"
        BY <3>1, <4>1, ValidatedIs
      <4> QED
        BY <4>2
    <3> QED
      BY <3>2
  <2>2. ~Finish(t) /\ ~GenRead(t) /\ ~Draw(t)
    BY DEF Finish, GenRead, Draw, DrawTid, Goto, TypeOK, control
  <2> QED
    BY <2>1, <2>2
<1>2. pc[t] \in DecidedPcs
  BY <1>1, SettledBefore DEF DecidedPcs
<1>3. SkipWrite(t) \/ ReleaseWrite(t) \/ Installed(t) \/ UnlinkRead(t)
  BY <1>1, <1>2, DecidedStep
<1> QED
  BY <1>3, PlainPhases

LEMMA NextSeqs ==
    ASSUME TypeOK, TypeOK', LockInv, ReadInv, SeqInv, NEW t \in Txns, StepOf(t)
    PROVE  SeqInv'
<1>0. ASSUME NEW w \in Txns \ {t}, NEW k \in Keys
      PROVE  Releasing(w, k)' = Releasing(w, k) /\ ix'[w] = ix[w]
  BY OthersStay DEF Still, Local, Releasing
<1>1. CASE InstallWrite(t)
  <2> DEFINE j == wset[t][ix[t]].key
  <2>1. /\ pc[t] = "install" /\ pc'[t] = "release" /\ ix[t] <= Len(wset[t]) /\ DoWrite(t, ix[t])
        /\ val' = [val EXCEPT ![j] = [tid |-> Tid(t), ix |-> ix[t]]]
        /\ UNCHANGED <<seq, ix, wset>>
    BY <1>1 DEF InstallWrite, Goto, TypeOK, sets
  <2>2. lock[j] = t
    <3>1. ix[t] \in ToInstall(t)
      BY <2>1 DEF ToInstall, TypeOK
    <3>2. j \in Held(t)
      BY <2>1, <3>1 DEF LockInv, TxnInv, Installing
    <3> QED
      BY <3>2 DEF Held
  <2>3. ASSUME NEW w \in Txns \ {t} PROVE ~Releasing(w, j)
    <3>1. SUFFICES ASSUME Releasing(w, j) PROVE FALSE
      OBVIOUS
    <3>2. j \in Held(w)
      BY <3>1 DEF Releasing, LockInv, TxnInv, Installing
    <3> QED
      BY <2>2, <3>2 DEF Held
  <2>4. \A k \in Keys : ~Releasing(t, k)
    BY <2>1 DEF Releasing
  <2>5. \A k \in Keys : Releasing(t, k)' <=> k = j
    BY <2>1 DEF Releasing
  <2>6. ASSUME NEW k \in Keys, k = j
        PROVE /\ \A w \in Txns : Releasing(w, k)' => val'[k].ix = ix'[w]
              /\ \E w \in Txns : Releasing(w, k)'
    <3>1. val'[k].ix = ix[t]
      BY <2>1, <2>6 DEF TypeOK
    <3> QED
      BY <1>0, <2>1, <2>3, <2>5, <2>6, <3>1
  <2>7. ASSUME NEW k \in Keys, k # j
        PROVE /\ \A w \in Txns : Releasing(w, k)' => val'[k].ix = ix'[w]
              /\ val'[k].ix = seq'[k] \/ \E w \in Txns : Releasing(w, k)'
    <3>1. val'[k] = val[k] /\ seq'[k] = seq[k]
      BY <2>1, <2>7 DEF TypeOK
    <3> QED
      BY <1>0, <2>4, <2>5, <2>7, <3>1 DEF SeqInv
  <2> QED
    BY <2>6, <2>7 DEF SeqInv
<1>2. CASE ReleaseWrite(t)
  <2> DEFINE j == wset[t][ix[t]].key
  <2>1. /\ pc[t] = "release" /\ pc'[t] = "install"
        /\ seq' = [seq EXCEPT ![j] = ix[t]] /\ UNCHANGED val
    BY <1>2 DEF ReleaseWrite, Goto, TypeOK
  <2>2. ASSUME NEW k \in Keys
        PROVE /\ ~Releasing(t, k)' /\ (Releasing(t, k) <=> k = j)
              /\ seq'[k] = IF k = j THEN ix[t] ELSE seq[k]
    BY <2>1 DEF Releasing, TypeOK
  <2> QED
    BY <1>0, <2>1, <2>2 DEF SeqInv
<1>3. CASE ~InstallWrite(t) /\ ~ReleaseWrite(t)
  <2>1. UNCHANGED <<val, seq>>
    BY <1>3, RecordStays
  <2>2. pc[t] # "release"
    BY <1>3 DEF StepOf, Execute, Expose, Commit, Abort, Begin, NewTid, StartWait, WaitOne, WaitEnd,
         WaitThrow, Get, Put, Update, Accessing, NoPieceEnd, PieceEnd, UserAbort, ExposeLock, CheckRmw,
         ExposeRead, ReadsExposed, ExposeWrite, ExposeDone, ExposeFail, UndoOne, RetryPiece, StartCommit,
         CommitWaitOne, CommitWaitFail, CommitWaitEnd, LockWrite, WritesLocked, ValidateClean,
         ValidateDirty, ValidateFail, DirtyTesting, Validated, GenRead, GenCommitTid,
         GenCommitTidOvertaken, DrawTid, AbortUnlock, AbortUnlinkWrite, Aborted,
         SkipWrite, Installed, UnlinkRead, Finish
  <2>3. pc'[t] # "release"
    BY <1>3, ToRelease
  <2>4. \A k \in Keys : ~Releasing(t, k) /\ ~Releasing(t, k)'
    BY <2>2, <2>3 DEF Releasing
  <2> QED
    BY <1>0, <2>1, <2>4 DEF SeqInv
<1> QED
  BY <1>1, <1>2, <1>3

(* Who has settled after a step had before, or draws its id.               *)
LEMMA SettledStep ==
    ASSUME TypeOK, TypeOK', ReadInv, NEW t \in Txns, StepOf(t), ~Draw(t), Settled(t)'
    PROVE  Settled(t) /\ wset'[t] = wset[t] /\ run'[t] = run[t] /\ UNCHANGED ctid
<1>1. ~Validated(t)
  <2>1. SUFFICES ASSUME Validated(t) PROVE FALSE
    OBVIOUS
  <2>2. /\ pc'[t] = IF wset[t] = <<>> THEN "install" ELSE "gen"
        /\ wset'[t] = wset[t] /\ state' = state /\ pc[t] = "validate"
    BY <2>1, ValidatedIs DEF TypeOK, sets
  <2>3. state[t] # "COMMITED"
    BY <2>2 DEF ReadInv, TxnReads
  <2> QED
    BY <2>2, <2>3 DEF Settled, Installing
<1>2. pc[t] \in DecidedPcs /\ run'[t] = run[t] /\ wset'[t] = wset[t]
  BY <1>1, SettledBefore DEF Settled, Installing, DecidedPcs
<1>3. pc[t] # "gen"
  <2>1. SUFFICES ASSUME pc[t] = "gen" PROVE FALSE
    OBVIOUS
  <2>2. GenRead(t)
    BY <1>2, <2>1, DecidedStep DEF SkipWrite, InstallWrite, ReleaseWrite, Installed, UnlinkRead, Finish
  <2>3. pc'[t] = "gen" /\ state'[t] = state[t] /\ state[t] # "COMMITED"
    BY <2>1, <2>2 DEF GenRead, control, ReadInv, TxnReads
  <2> QED
    BY <2>3 DEF Settled, Installing
<1> QED
  BY <1>2, <1>3, RecordStays DEF Settled, DecidedPcs, Installing

(* What is done after a step was done before, or is installed by it.       *)
LEMMA DoneStep ==
    ASSUME TypeOK, TypeOK', ReadInv, NEW t \in Txns, StepOf(t), NEW k \in Keys, Done(t, k)'
    PROVE  /\ ~Draw(t) /\ run'[t] = run[t]
           /\ Done(t, k) \/ (InstallWrite(t) /\ k = wset[t][ix[t]].key)
<1>0. PICK j \in DOMAIN wset'[t] :
         /\ wset'[t][j].key = k /\ DoWrite(t, j)'
         /\ \/ state'[t] = "COMMITED" \/ pc'[t] = "cleanup"
            \/ pc'[t] \in Installing /\ (j < ix'[t] \/ (j = ix'[t] /\ pc'[t] = "release"))
  BY DEF Done
<1>1. j \in Nat /\ j >= 1 /\ ix[t] \in Nat /\ ix'[t] \in Nat /\ j <= Len(wset'[t]) /\ Len(wset'[t]) \in Nat
  <2>1. wset'[t] \in Seq(WriteRecords) /\ ix[t] \in Nat /\ ix'[t] \in Nat
    BY DEF TypeOK
  <2> QED
    BY <2>1
<1>2. ~Draw(t)
  <2>1. SUFFICES ASSUME Draw(t) PROVE FALSE
    OBVIOUS
  <2>2. pc'[t] = "install" /\ ix'[t] = 1 /\ state'[t] = state[t] /\ pc[t] = "gen"
    BY <2>1 DEF Draw, DrawTid, Goto, TypeOK
  <2>3. state[t] # "COMMITED"
    BY <2>2 DEF ReadInv, TxnReads
  <2> QED
    BY <1>0, <1>1, <2>2, <2>3
<1>3. Settled(t)'
  BY <1>0, <1>1 DEF Settled
<1>4. Settled(t) /\ wset'[t] = wset[t] /\ run'[t] = run[t]
  BY <1>2, <1>3, SettledStep
<1>5. DoWrite(t, j)
  BY <1>0, <1>4 DEF DoWrite
<1>6. pc[t] \in Installing \cup {"cleanup"}
  <2>1. CASE state[t] = "COMMITED"
    <3>1. pc[t] = "idle"
      BY <2>1 DEF ReadInv, TxnReads
    <3>2. Begin(t)
      BY <3>1 DEF StepOf, Execute, Expose, Commit, Abort, NewTid, StartWait, WaitOne, WaitEnd,
         WaitThrow, Get, Put, Update, Accessing, NoPieceEnd, PieceEnd, UserAbort, ExposeLock, CheckRmw,
         ExposeRead, ReadsExposed, ExposeWrite, ExposeDone, ExposeFail, UndoOne, RetryPiece, StartCommit,
         CommitWaitOne, CommitWaitFail, CommitWaitEnd, LockWrite, WritesLocked, ValidateClean,
         ValidateDirty, ValidateFail, DirtyTesting, Validated, GenRead, GenCommitTid,
         GenCommitTidOvertaken, DrawTid, AbortUnlock, AbortUnlinkWrite, Aborted,
         SkipWrite, InstallWrite, ReleaseWrite, Installed, UnlinkRead, Finish
    <3>3. pc'[t] = "ctor" /\ state'[t] = "ACTIVE"
      BY <3>2 DEF Begin, Goto, TypeOK
    <3> QED
      BY <1>3, <3>3 DEF Settled, Installing
  <2> QED
    BY <1>4, <2>1 DEF Settled
<1>7. \/ SkipWrite(t) \/ InstallWrite(t) \/ ReleaseWrite(t) \/ Installed(t) \/ UnlinkRead(t) \/ Finish(t)
  <2>1. ~GenRead(t)
    BY <1>6 DEF GenRead, Installing
  <2> QED
    BY <1>2, <1>6, <2>1, DecidedStep DEF Installing, DecidedPcs
<1>8. CASE SkipWrite(t)
  <2>1. /\ pc[t] = "install" /\ pc'[t] = "install" /\ ix'[t] = ix[t] + 1 /\ ~DoWrite(t, ix[t])
        /\ state'[t] = state[t] /\ state[t] # "COMMITED"
    BY <1>8 DEF SkipWrite, control, TypeOK, ReadInv, TxnReads
  <2>2. j < ix[t]
    BY <1>0, <1>1, <1>5, <2>1 DEF Installing
  <2> QED
    BY <1>0, <1>2, <1>4, <1>5, <2>1, <2>2 DEF Done, Installing
<1>9. CASE InstallWrite(t)
  <2>1. /\ pc[t] = "install" /\ pc'[t] = "release" /\ ix'[t] = ix[t]
        /\ state'[t] = state[t] /\ state[t] # "COMMITED"
    BY <1>9 DEF InstallWrite, Goto, TypeOK, ReadInv, TxnReads
  <2>2. j < ix[t] \/ j = ix[t]
    BY <1>0, <2>1 DEF Installing
  <2> QED
    BY <1>0, <1>2, <1>4, <1>5, <1>9, <2>1, <2>2 DEF Done, Installing
<1>10. CASE ReleaseWrite(t)
  <2>1. /\ pc[t] = "release" /\ pc'[t] = "install" /\ ix'[t] = ix[t] + 1
        /\ state'[t] = state[t] /\ state[t] # "COMMITED"
    BY <1>10 DEF ReleaseWrite, Goto, TypeOK, ReadInv, TxnReads
  <2>2. j < ix[t] \/ j = ix[t]
    BY <1>0, <1>1, <2>1 DEF Installing
  <2> QED
    BY <1>0, <1>2, <1>4, <1>5, <2>1, <2>2 DEF Done, Installing
<1>11. CASE Installed(t)
  <2>1. pc[t] = "install" /\ ix[t] > Len(wset[t]) /\ Len(wset[t]) \in Nat
    BY <1>1, <1>4, <1>11 DEF Installed
  <2>2. j < ix[t]
    BY <1>1, <1>4, <2>1
  <2> QED
    BY <1>0, <1>2, <1>4, <1>5, <2>1, <2>2 DEF Done, Installing
<1>12. CASE UnlinkRead(t) \/ Finish(t)
  <2>1. pc[t] = "cleanup"
    BY <1>6, <1>12 DEF UnlinkRead, Finish, Installing
  <2> QED
    BY <1>0, <1>2, <1>4, <1>5, <2>1 DEF Done
<1> QED
  BY <1>7, <1>8, <1>9, <1>10, <1>11, <1>12

LEMMA NextVersions ==
    ASSUME TypeOK, TypeOK', ReadInv, NEW t \in Txns, StepOf(t), CoresFit,
           \A u \in Txns : VersionsFit(u)
    PROVE  CoresFit' /\ \A u \in Txns : VersionsFit(u)'
<1>0. ASSUME NEW u \in Txns \ {t}
      PROVE  /\ Settled(u)' = Settled(u) /\ Tid(u)' = Tid(u) /\ ctid'[u] = ctid[u]
             /\ \A k \in Keys : Done(u, k)' = Done(u, k)
  <2>1. Still(u)
    BY OthersStay
  <2> QED
    BY <2>1 DEF Still, Local, Settled, Tid, Done, DoWrite
<1>1. Settled(t)' => CoreId(ctid'[t]) = t
  <2>1. CASE Draw(t)
    <3>1. PICK r \in Seeds(t) : ctid' = [ctid EXCEPT ![t] = MakeTid(t, NumId(r) + 1, epoch[t])]
      BY <2>1 DEF Draw, DrawTid
    <3>2. ctid'[t] = MakeTid(t, NumId(r) + 1, epoch[t])
      BY <3>1 DEF TypeOK
    <3> QED
      BY <3>2 DEF MakeTid, CoreId
  <2>2. CASE ~Draw(t)
    BY <2>2, SettledStep DEF VersionsFit
  <2> QED
    BY <2>1, <2>2
<1>2. CASE InstallWrite(t)
  <2> DEFINE j == wset[t][ix[t]].key
  <2>1. /\ pc[t] = "install" /\ ix[t] <= Len(wset[t])
        /\ val' = [val EXCEPT ![j] = [tid |-> Tid(t), ix |-> ix[t]]]
        /\ ver' = [ver EXCEPT ![j] = ctid[t]]
        /\ UNCHANGED <<ctid, run, wset>> /\ pc'[t] = "release"
    BY <1>2 DEF InstallWrite, Goto, TypeOK, sets
  <2>2. wset[t] # <<>>
    <3>1. ix[t] \in Nat \ {0}
      BY DEF TypeOK
    <3> QED
      BY <2>1, <3>1
  <2>3. CoreId(ctid[t]) = t
    BY <2>1, <2>2 DEF VersionsFit, Settled, Installing
  <2>4. ASSUME NEW k \in Keys
        PROVE /\ k = j => ver'[k] = ctid[t] /\ val'[k].tid = Tid(t)
              /\ k # j => ver'[k] = ver[k] /\ val'[k] = val[k]
    BY <2>1 DEF TypeOK
  <2>5. Tid(t)' = Tid(t) /\ Tid(t)[1] = t
    BY <2>1 DEF Tid
  <2>6. CoresFit'
    <3>1. ASSUME NEW k \in Keys PROVE CoreId(ver'[k]) = val'[k].tid[1]
      BY <2>3, <2>4, <2>5 DEF CoresFit
    <3> QED
      BY <3>1 DEF CoresFit, CoreId
  <2>7. VersionsFit(t)'
    <3>1. ASSUME NEW k \in Keys, Done(t, k)', CoreId(ver'[k]) = t PROVE val'[k].tid = Tid(t)
      <4>1. Done(t, k) \/ k = j
        BY <1>2, <3>1, DoneStep
      <4> QED
        BY <2>4, <3>1, <4>1 DEF VersionsFit
    <3> QED
      BY <1>1, <2>5, <3>1 DEF VersionsFit, CoreId
  <2>8. ASSUME NEW u \in Txns \ {t} PROVE VersionsFit(u)'
    <3>1. \A k \in Keys : Done(u, k) /\ CoreId(ver'[k]) = u => val'[k].tid = Tid(u)
      BY <2>3, <2>4 DEF VersionsFit
    <3> QED
      BY <1>0, <3>1 DEF VersionsFit, CoreId
  <2> QED
    BY <2>6, <2>7, <2>8
<1>3. CASE ~InstallWrite(t)
  <2>1. UNCHANGED <<ver, val>>
    BY <1>3, RecordStays
  <2>2. CoresFit'
    BY <2>1 DEF CoresFit, CoreId
  <2>3. VersionsFit(t)'
    <3>1. ASSUME NEW k \in Keys, Done(t, k)' PROVE Done(t, k) /\ Tid(t)' = Tid(t)
      BY <1>3, <3>1, DoneStep DEF Tid
    <3> QED
      BY <1>1, <2>1, <3>1 DEF VersionsFit, CoreId
  <2>4. ASSUME NEW u \in Txns \ {t} PROVE VersionsFit(u)'
    BY <1>0, <2>1 DEF VersionsFit, CoreId
  <2> QED
    BY <2>2, <2>3, <2>4
<1> QED
  BY <1>2, <1>3

LEMMA InitTests == Init => TestInv
<1> SUFFICES ASSUME Init PROVE TestInv
  OBVIOUS
<1>1. DepInv
  BY DEF Init, DepInv
<1>2. SeqInv
  BY DEF Init, SeqInv, Releasing, Loaded
<1>3. ASSUME NEW u \in Txns PROVE VersionsFit(u)
  BY DEF Init, VersionsFit, Settled, Done
<1>4. CoresFit
  BY DEF Init, CoresFit, LoadTid, MakeTid, CoreId, NoTxn, Loaded, NoTid
<1> QED
  BY <1>1, <1>2, <1>3, <1>4 DEF TestInv

LEMMA NextTests ==
    TypeOK /\ TypeOK' /\ LockInv /\ EntryInv /\ ReadInv /\ TestInv /\ [Next]_vars => TestInv'
<1> SUFFICES ASSUME TypeOK, TypeOK', LockInv, EntryInv, ReadInv, TestInv, [Next]_vars PROVE TestInv'
  OBVIOUS
<1>1. CASE UNCHANGED vars \/ Tick \/ Stop
  <2>1. UNCHANGED <<pc, run, state, ix, rset, wset, wstart, val, ver, seq, ctid>>
    BY <1>1 DEF Tick, Stop, vars, control, sets, record
  <2>2. DepInv'
    BY <2>1 DEF TestInv, DepInv, DepOk, WriteOut, WriteTop, Tid, IsClean
  <2>3. SeqInv'
    BY <2>1 DEF TestInv, SeqInv, Releasing
  <2>4. ASSUME NEW u \in Txns PROVE VersionsFit(u)'
    BY <2>1 DEF TestInv, VersionsFit, Settled, Tid, Done, DoWrite
  <2>5. CoresFit'
    BY <2>1 DEF TestInv, CoresFit
  <2> QED
    BY <2>2, <2>3, <2>4, <2>5 DEF TestInv
<1>2. ASSUME NEW t \in Txns, StepOf(t) PROVE TestInv'
  BY <1>2, NextDeps, NextSeqs, NextVersions DEF TestInv
<1> QED
  BY <1>1, <1>2 DEF Next, StepOf

(* Sequence numbers and versions name the write that is installed.         *)
THEOREM TestsCorrect == Spec => []TestInv
<1>1. TypeOK /\ LockInv /\ EntryInv /\ ReadInv /\ TestInv /\ [Next]_vars => TestInv'
  BY NextType, NextTests
<1> QED
  BY InitTests, <1>1, TypeCorrect, LocksCorrect, EntriesCorrect, ReadsCorrect, PTL DEF Spec

(* If all tests of a dirty read held at the same moment, the value read is *)
(* the one installed.                                                      *)
THEOREM TestsRight == Spec => []TestsSuffice
<1>1. TypeOK /\ LockInv /\ ReadInv /\ TestInv => TestsSuffice
  <2> SUFFICES ASSUME TypeOK, LockInv, ReadInv, TestInv, NEW t \in Txns,
                      pc[t] \in Tests, ix[t] <= Len(rset[t]), ~IsClean(Current(t)),
                      \A at \in Tests : DirtyTest(t, at)
               PROVE  Current(t).val = val[Current(t).key]
    BY DEF TestsSuffice
  <2> DEFINE r == Current(t)
             u == r.dep[1]
             k == r.key
  <2>1. ix[t] \in DOMAIN rset[t] /\ r \in ReadRecords
    <3>1. rset[t] \in Seq(ReadRecords) /\ ix[t] \in Nat \ {0}
      BY DEF TypeOK
    <3> QED
      BY <3>1 DEF Current
  <2>2. /\ r.val = [tid |-> r.dep, ix |-> r.dseq] /\ r.dep[2] # 0 /\ DepOk(r)
    BY <2>1 DEF Current, ReadInv, TxnReads, ReadOk, TestInv, DepInv
  <2>3. /\ DirtyTest(t, "validate") /\ DirtyTest(t, "vver") /\ DirtyTest(t, "vseq")
        /\ DirtyTest(t, "vint")
    BY DEF Tests
  <2>4. /\ IsCommit(r.dep) /\ run[u] = r.dep[2] /\ ctid[u] = ver[k] /\ seq[k] = r.dseq
        /\ Mine(t, k) \/ ~intent[k]
    BY <2>3 DEF DirtyTest
  <2>5. r.dep \in Tids /\ r.dep # NoTid /\ k \in Keys
    BY <2>1 DEF ReadRecords, IsClean
  <2> HIDE DEF r
  <2>6. u \in Txns /\ r.dep = Tid(u) /\ state[u] = "COMMITED"
    BY <2>4, <2>5 DEF Tids, Tid, IsCommit
  <2>7. pc[u] = "idle"
    BY <2>6 DEF ReadInv, TxnReads
  <2>8. WriteOut(u, k, r.dseq)
    BY <2>2, <2>6, <2>7 DEF DepOk
  <2>9. Settled(u)
    BY <2>6, <2>8 DEF Settled, WriteOut, TypeOK
  <2>10. val[k].tid = Tid(u)
    <3>1. PICK j \in DOMAIN wset[u] : wset[u][j].key = k /\ DoWrite(u, j)
      <4>1. r.dseq \in DOMAIN wset[u] /\ wset[u][r.dseq].key = k
        <5>1. wset[u] \in Seq(WriteRecords)
          BY <2>6 DEF TypeOK
        <5> QED
          BY <2>8, <5>1 DEF WriteOut
      <4> QED
        BY <2>6, <4>1, LastWrite
    <3>2. Done(u, k)
      BY <2>6, <3>1 DEF Done
    <3> QED
      BY <2>4, <2>5, <2>6, <2>9, <3>2 DEF TestInv, VersionsFit
  <2>11. \A w \in Txns : ~Releasing(w, k)
    <3>1. SUFFICES ASSUME NEW w \in Txns, Releasing(w, k) PROVE FALSE
      OBVIOUS
    <3>2. lock[k] = w /\ intent[k]
      BY <2>5, <3>1 DEF Releasing, LockInv, TxnInv, Installing, Held
    <3>3. w # t
      BY <3>1 DEF Releasing, Tests
    <3>4. k \in Held(t)
      BY <2>4, <3>2 DEF LockInv, TxnInv, Validating, Tests, Mine
    <3> QED
      BY <3>2, <3>3, <3>4 DEF Held
  <2>12. val[k].ix = seq[k]
    BY <2>5, <2>11 DEF TestInv, SeqInv
  <2>13. val[k] = [tid |-> val[k].tid, ix |-> val[k].ix]
    BY <2>5 DEF TypeOK, Values
  <2>14. r.val = val[k]
    BY <2>2, <2>4, <2>6, <2>10, <2>12, <2>13
  <2> QED
    BY <2>14 DEF r
<1> QED
  BY <1>1, TypeCorrect, LocksCorrect, ReadsCorrect, TestsCorrect, PTL

-----------------------------------------------------------------------------
(* A policy that reads clean only: what a transaction has seen.            *)

CleanOnly == AccessModes \subseteq {"clean"}

(* Who has committed does not run.                                         *)
HistIds ==
    \A h \in hist :
        /\ h.tid \in RunTids /\ h.tid[2] <= run[h.tid[1]]
        /\ h.tid = Tid(h.tid[1]) => pc[h.tid[1]] \in {"idle", "ctor"}
(* The installed value is the last of the record's chain.                  *)
ChainInv ==
    /\ chain \in [Keys -> Seq(Values)]
    /\ \A k \in Keys :
          /\ val[k] = IF chain[k] = <<>> THEN Loaded ELSE chain[k][Len(chain[k])]
          /\ \A i \in DOMAIN chain[k] : Decided(chain[k][i].tid)
(* A read version has only been followed by greater ones.                  *)
Seen(r) ==
    /\ r.occ /\ TidLeq(r.clean, ver[r.key])
    /\ ver[r.key] = r.clean => val[r.key] = r.val
    /\ r.val.tid = NoTid \/ Decided(r.val.tid)
SeenInv == \A t \in Txns : \A i \in DOMAIN rset[t] : Seen(rset[t][i])
CleanInv == HistIds /\ ChainInv /\ SeenInv

LEMMA DecidedType ==
    ASSUME TypeOK, HistIds, NEW d, Decided(d)
    PROVE  d \in RunTids /\ d # NoTid
<1>1. d \in RunTids
  <2>1. CASE \E h \in hist : h.tid = d
    BY <2>1 DEF HistIds
  <2>2. CASE d[1] \in Txns /\ d = Tid(d[1])
    <3>1. d = <<d[1], run[d[1]]>> /\ run[d[1]] \in Nat
      BY <2>2 DEF Tid, TypeOK
    <3> QED
      BY <2>2, <3>1 DEF RunTids
  <2> QED
    BY <2>1, <2>2 DEF Decided
<1> QED
  BY <1>1, TxnsAssumption DEF RunTids, NoTid

(* A transaction at rest can only start.                                   *)
LEMMA AtRest ==
    ASSUME NEW t \in Txns, StepOf(t), pc[t] \in {"idle", "ctor"}
    PROVE  Begin(t) \/ NewTid(t)
BY DEF StepOf, Execute, Expose, Commit, Abort, StartWait, WaitOne, WaitEnd,
       WaitThrow, Get, Put, Update, Accessing, NoPieceEnd, PieceEnd, UserAbort, ExposeLock, CheckRmw,
       ExposeRead, ReadsExposed, ExposeWrite, ExposeDone, ExposeFail, UndoOne, RetryPiece, StartCommit,
       CommitWaitOne, CommitWaitFail, CommitWaitEnd, LockWrite, WritesLocked, ValidateClean,
       ValidateDirty, ValidateFail, DirtyTesting, Validated, GenRead, GenCommitTid, GenCommitTidOvertaken, DrawTid, AbortUnlock, AbortUnlinkWrite, Aborted,
       SkipWrite, InstallWrite, ReleaseWrite, Installed, UnlinkRead, Finish

LEMMA GhostStays ==
    ASSUME NEW t \in Txns, StepOf(t)
    PROVE  (~InstallWrite(t) => UNCHANGED chain) /\ (~Finish(t) => UNCHANGED hist)
<1> USE DEF StepOf, Execute, Expose, Commit, Abort, ghost, Begin, NewTid, StartWait, WaitOne, WaitEnd,
         WaitThrow, Get, Put, Update, Accessing, NoPieceEnd, PieceEnd, UserAbort, ExposeLock, CheckRmw,
         ExposeRead, ReadsExposed, ExposeWrite, ExposeDone, ExposeFail, UndoOne, RetryPiece, StartCommit,
         CommitWaitOne, CommitWaitFail, CommitWaitEnd, LockWrite, WritesLocked, ValidateClean,
         ValidateDirty, ValidateFail, Validated, GenRead, GenCommitTid, GenCommitTidOvertaken,
         DrawTid, AbortUnlock, AbortUnlinkWrite, Aborted,
         SkipWrite, ReleaseWrite, Installed, UnlinkRead
<1>1. ASSUME ~InstallWrite(t), ~Finish(t) PROVE UNCHANGED <<chain, hist>>
  BY <1>1
<1>2. ASSUME Finish(t) PROVE UNCHANGED chain
  BY <1>2 DEF Finish
<1>3. ASSUME InstallWrite(t) PROVE UNCHANGED hist
  BY <1>3 DEF InstallWrite
<1> HIDE DEF StepOf, Execute, Expose, Commit, Abort, ghost, Begin, NewTid, StartWait, WaitOne, WaitEnd,
         WaitThrow, Get, Put, Update, Accessing, NoPieceEnd, PieceEnd, UserAbort, ExposeLock, CheckRmw,
         ExposeRead, ReadsExposed, ExposeWrite, ExposeDone, ExposeFail, UndoOne, RetryPiece, StartCommit,
         CommitWaitOne, CommitWaitFail, CommitWaitEnd, LockWrite, WritesLocked, ValidateClean,
         ValidateDirty, ValidateFail, Validated, GenRead, GenCommitTid, GenCommitTidOvertaken,
         DrawTid, AbortUnlock, AbortUnlinkWrite, Aborted,
         SkipWrite, ReleaseWrite, Installed, UnlinkRead
<1> QED
  BY <1>1, <1>2, <1>3

LEMMA NextHistIds ==
    ASSUME TypeOK, TypeOK', EntryInv, HistIds, NEW t \in Txns, StepOf(t)
    PROVE  HistIds'
<1>1. run'[t] = IF NewTid(t) THEN run[t] + 1 ELSE run[t]
  <2>1. CASE NewTid(t)
    BY <2>1 DEF NewTid, TypeOK
  <2>2. CASE Begin(t)
    BY <2>2 DEF Begin, NewTid, Goto, TypeOK
  <2>3. CASE ~NewTid(t) /\ ~Begin(t)
    BY <2>3, ExposedWritesStay
  <2> QED
    BY <2>1, <2>2, <2>3
<1>2. ASSUME NEW h \in hist, h.tid[1] = t
      PROVE  h.tid \in RunTids /\ h.tid[2] <= run'[t] /\ (h.tid = Tid(t)' => pc'[t] \in {"idle", "ctor"})
  <2>1. h.tid \in RunTids /\ h.tid[2] <= run[t] /\ (h.tid = Tid(t) => pc[t] \in {"idle", "ctor"})
    BY <1>2 DEF HistIds
  <2>2. run[t] \in Nat /\ h.tid[2] \in Nat
    BY <2>1 DEF TypeOK, RunTids
  <2>3. CASE NewTid(t)
    <3>1. h.tid[2] <= run'[t] /\ h.tid[2] # run'[t]
      BY <1>1, <2>1, <2>2, <2>3
    <3>2. h.tid # Tid(t)'
      BY <3>1 DEF Tid
    <3> QED
      BY <2>1, <3>1, <3>2
  <2>4. CASE ~NewTid(t)
    <3>1. run'[t] = run[t] /\ Tid(t)' = Tid(t)
      BY <1>1, <2>4 DEF Tid
    <3>2. h.tid = Tid(t) => pc'[t] = "ctor"
      <4>1. SUFFICES ASSUME h.tid = Tid(t) PROVE pc'[t] = "ctor"
        OBVIOUS
      <4>2. Begin(t)
        BY <2>1, <2>4, <4>1, AtRest
      <4> QED
        BY <4>2 DEF Begin, Goto, TypeOK
    <3> QED
      BY <2>1, <3>1, <3>2
  <2> QED
    BY <2>3, <2>4
<1>3. ASSUME NEW h \in hist, h.tid[1] # t
      PROVE  /\ h.tid \in RunTids /\ h.tid[2] <= run'[h.tid[1]]
             /\ (h.tid = Tid(h.tid[1])' => pc'[h.tid[1]] \in {"idle", "ctor"})
  <2>1. h.tid[1] \in Txns \ {t}
    BY <1>3 DEF HistIds, RunTids
  <2>2. Still(h.tid[1])
    BY <2>1, OthersStay
  <2> QED
    BY <2>2 DEF HistIds, Still, Local, Tid
<1>4. CASE ~Finish(t)
  <2>1. hist' = hist
    BY <1>4, GhostStays
  <2> QED
    BY <1>2, <1>3, <2>1 DEF HistIds, Tid
<1>5. CASE Finish(t)
  <2> DEFINE g == [tid |-> Tid(t), reads |-> Reads(t)]
  <2>1. hist' = hist \cup {g} /\ pc'[t] = "idle" /\ run'[t] = run[t]
    BY <1>5 DEF Finish, Goto, TypeOK
  <2>2. g.tid = <<t, run[t]>> /\ run[t] \in Nat
    BY DEF Tid, TypeOK
  <2> HIDE DEF g
  <2>3. /\ g.tid \in RunTids /\ g.tid[2] <= run'[g.tid[1]] /\ pc'[g.tid[1]] \in {"idle", "ctor"}
    BY <2>1, <2>2 DEF RunTids
  <2> QED
    BY <1>2, <1>3, <2>1, <2>3 DEF HistIds, Tid
<1> QED
  BY <1>4, <1>5

LEMMA Installation ==
    ASSUME TypeOK, ChainInv, NEW t \in Txns, InstallWrite(t)
    PROVE  \E k \in Keys, v \in Values :
              /\ k = wset[t][ix[t]].key /\ v.tid = Tid(t)
              /\ val' = [val EXCEPT ![k] = v] /\ chain' = [chain EXCEPT ![k] = Append(chain[k], v)]
<1> DEFINE k == wset[t][ix[t]].key
           v == [tid |-> Tid(t), ix |-> ix[t]]
<1>1. /\ val' = [val EXCEPT ![k] = v] /\ chain' = [chain EXCEPT ![k] = Append(chain[k], val'[k])]
      /\ k \in Keys
  BY WriteIndex DEF InstallWrite
<1>2. val'[k] = v
  BY <1>1 DEF TypeOK
<1>3. v \in Values /\ v.tid = Tid(t)
  <2>1. Tid(t) \in Tids /\ ix[t] \in Nat
    BY DEF TypeOK, Tid, Tids
  <2> QED
    BY <2>1 DEF Values
<1> HIDE DEF v
<1> QED
  BY <1>1, <1>2, <1>3

LEMMA NextChain ==
    ASSUME TypeOK, TypeOK', ChainInv, NEW t \in Txns, StepOf(t)
    PROVE  ChainInv'
<1>1. \A d : Decided(d) => Decided(d)'
  BY DecidedStays
<1>2. CASE ~InstallWrite(t)
  <2>1. chain' = chain /\ val' = val
    BY <1>2, GhostStays, RecordStays
  <2> QED
    BY <1>1, <2>1 DEF ChainInv
<1>3. CASE InstallWrite(t)
  <2>1. PICK k \in Keys, v \in Values :
           /\ k = wset[t][ix[t]].key /\ v.tid = Tid(t)
           /\ val' = [val EXCEPT ![k] = v] /\ chain' = [chain EXCEPT ![k] = Append(chain[k], v)]
    BY <1>3, Installation
  <2>2. pc'[t] = "release" /\ run'[t] = run[t]
    BY <1>3 DEF InstallWrite, Goto, TypeOK
  <2>3. Decided(v.tid)'
    BY <2>1, <2>2 DEF Decided, Tid, TypeOK
  <2>4. chain[k] \in Seq(Values) /\ chain'[k] = Append(chain[k], v) /\ val'[k] = v
    BY <2>1 DEF ChainInv, TypeOK
  <2>5. /\ chain'[k] # <<>> /\ chain'[k][Len(chain'[k])] = v /\ chain'[k] \in Seq(Values)
        /\ DOMAIN chain'[k] = 1..(Len(chain[k]) + 1) /\ DOMAIN chain[k] = 1..Len(chain[k])
        /\ Len(chain[k]) \in Nat /\ chain'[k][Len(chain[k]) + 1] = v
        /\ \A i \in DOMAIN chain[k] : chain'[k][i] = chain[k][i]
    BY <2>4
  <2>6. chain' \in [Keys -> Seq(Values)]
    BY <2>1, <2>4, <2>5 DEF ChainInv
  <2>7. ASSUME NEW j \in Keys, j # k
        PROVE  /\ val'[j] = IF chain'[j] = <<>> THEN Loaded ELSE chain'[j][Len(chain'[j])]
               /\ \A i \in DOMAIN chain'[j] : Decided(chain[j][i].tid)'
    <3>1. val'[j] = val[j] /\ chain'[j] = chain[j]
      BY <2>1, <2>7 DEF TypeOK, ChainInv
    <3> QED
      BY <1>1, <3>1 DEF ChainInv
  <2>8. ASSUME NEW i \in DOMAIN chain'[k] PROVE Decided(chain[k][i].tid)'
    <3>1. CASE i = Len(chain[k]) + 1
      <4>1. chain'[k][i] = v
        BY <2>5, <3>1
      <4> QED
        BY <2>3, <4>1 DEF Decided, Tid
    <3>2. CASE i # Len(chain[k]) + 1
      <4>1. i \in DOMAIN chain[k] /\ chain'[k][i] = chain[k][i]
        BY <2>5, <3>2
      <4>2. Decided(chain[k][i].tid)
        BY <4>1 DEF ChainInv
      <4>3. PICK d : d = chain[k][i].tid
        OBVIOUS
      <4>4. Decided(d)'
        BY <1>1, <4>2, <4>3
      <4> QED
        BY <4>1, <4>3, <4>4 DEF Decided, Tid
    <3> QED
      BY <3>1, <3>2
  <2>9. val'[k] = IF chain'[k] = <<>> THEN Loaded ELSE chain'[k][Len(chain'[k])]
    BY <2>4, <2>5
  <2> QED
    BY <2>6, <2>7, <2>8, <2>9 DEF ChainInv
<1> QED
  BY <1>2, <1>3

(* What follows a version is another.                                      *)
LEMMA BelowAfter ==
    ASSUME NEW a \in CommitTids, NEW b \in CommitTids, NEW c \in CommitTids,
           TidLeq(a, b), Below(b, c)
    PROVE  TidLeq(a, c) /\ c # a
<1>1. /\ EpochId(a) \in Nat /\ NumId(a) \in Nat /\ EpochId(b) \in Nat /\ NumId(b) \in Nat
      /\ EpochId(c) \in Nat /\ NumId(c) \in Nat
  BY TidParts
<1>2. Below(a, c)
  BY <1>1 DEF TidLeq, Below
<1>3. EpochId(c) # EpochId(a) \/ NumId(c) # NumId(a)
  BY <1>1, <1>2 DEF Below
<1> QED
  BY <1>2, <1>3 DEF TidLeq

LEMMA NextSeen ==
    ASSUME CleanOnly, TypeOK, TypeOK', LockInv, EntryInv, ReadInv, ClockInv, CleanInv,
           NEW t \in Txns, StepOf(t)
    PROVE  SeenInv'
<1>1. \A d : Decided(d) => Decided(d)'
  BY DecidedStays
<1>2. ASSUME NEW r \in ReadRecords, Seen(r) PROVE Seen(r)'
  <2>0. r.key \in Keys /\ r.clean \in CommitTids
    BY DEF ReadRecords
  <2>1. CASE ~InstallWrite(t)
    <3>1. ver' = ver /\ val' = val
      BY <2>1, RecordStays
    <3> QED
      BY <1>1, <1>2, <3>1 DEF Seen
  <2>2. CASE InstallWrite(t)
    <3> DEFINE k == wset[t][ix[t]].key
    <3>1. /\ val' = [val EXCEPT ![k] = [tid |-> Tid(t), ix |-> ix[t]]] /\ k \in Keys
          /\ ver' = [ver EXCEPT ![k] = ctid[t]] /\ pc[t] = "install" /\ ix[t] <= Len(wset[t])
          /\ DoWrite(t, ix[t])
      BY <2>2, WriteIndex DEF InstallWrite
    <3>2. Below(ver[k], ctid[t])
      <4>1. ix[t] \in ToInstall(t)
        BY <3>1 DEF ToInstall, TypeOK
      <4>2. Met(t) /\ Replaces(t, k)
        BY <3>1, <4>1 DEF ClockInv, TxnClock, Replacing, Installing
      <4>3. \A i \in DOMAIN rset[t] : IsClean(rset[t][i])
        <5>1. \A i \in DOMAIN rset[t] : rset[t][i].occ
          BY DEF CleanInv, SeenInv, Seen
        <5> QED
          BY <5>1 DEF IsClean
      <4> QED
        BY <4>2, <4>3 DEF Met, Replaces
    <3>3. CASE r.key = k
      <4>1. ver'[k] = ctid[t]
        BY <3>1 DEF TypeOK
      <4>2. /\ r.clean \in CommitTids /\ ver[k] \in CommitTids /\ ctid[t] \in CommitTids
            /\ TidLeq(r.clean, ver[k])
        BY <1>2, <2>0, <3>1, <3>3 DEF TypeOK, Seen
      <4>5. TidLeq(r.clean, ctid[t]) /\ ctid[t] # r.clean
        BY <3>2, <4>2, BelowAfter
      <4> QED
        BY <1>1, <1>2, <3>3, <4>1, <4>5 DEF Seen, TidLeq
    <3>4. CASE r.key # k
      <4>1. ver'[r.key] = ver[r.key] /\ val'[r.key] = val[r.key]
        BY <2>0, <3>1, <3>4 DEF TypeOK
      <4> QED
        BY <1>1, <1>2, <4>1 DEF Seen, TidLeq
    <3> QED
      BY <3>3, <3>4
  <2> QED
    BY <2>1, <2>2
<1>3. ASSUME NEW i \in DOMAIN rset'[t] PROVE Seen(rset[t][i])'
  <2>1. PICK r \in ReadRecords :
           /\ r.key = rset'[t][i].key /\ r.occ = rset'[t][i].occ
           /\ r.clean = rset'[t][i].clean /\ r.val = rset'[t][i].val
           /\ \/ \E j \in DOMAIN rset[t] : r = rset[t][j]
              \/ /\ r.clean = ver[r.key]
                 /\ IF r.occ THEN r.val = val[r.key] ELSE "dirty" \in AccessModes
    BY ReadsFrom DEF CleanInv
  <2>2. Seen(r)
    <3>1. CASE \E j \in DOMAIN rset[t] : r = rset[t][j]
      BY <3>1 DEF CleanInv, SeenInv
    <3>2. CASE r.occ /\ r.clean = ver[r.key] /\ r.val = val[r.key]
      <4>1. TidLeq(r.clean, r.clean)
        BY TidParts DEF ReadRecords, TidLeq
      <4>2. r.val.tid = NoTid \/ Decided(r.val.tid)
        BY <3>2 DEF ReadRecords, ReadInv, ValuesDecided
      <4> QED
        BY <3>2, <4>1, <4>2 DEF Seen
    <3>3. "dirty" \notin AccessModes
      BY DEF CleanOnly
    <3> QED
      BY <2>1, <3>1, <3>2, <3>3
  <2>3. Seen(r)'
    BY <1>2, <2>2
  <2> QED
    BY <2>1, <2>3 DEF Seen, Decided, Tid
<1>4. ASSUME NEW u \in Txns \ {t}, NEW i \in DOMAIN rset'[u] PROVE Seen(rset[u][i])'
  <2>1. rset'[u] = rset[u]
    BY OthersStay DEF Still, Local
  <2>2. rset[u] \in Seq(ReadRecords)
    BY DEF TypeOK
  <2>3. PICK r \in ReadRecords : r = rset[u][i]
    BY <2>1, <2>2
  <2>4. Seen(r)'
    BY <1>2, <2>1, <2>3 DEF CleanInv, SeenInv
  <2>5. r = rset'[u][i]
    BY <2>1, <2>3
  <2> QED
    BY <2>4, <2>5 DEF Seen, Decided, Tid
<1> QED
  BY <1>3, <1>4 DEF SeenInv

LEMMA InitClean == Init => CleanInv
<1> SUFFICES ASSUME Init PROVE CleanInv
  OBVIOUS
<1>1. HistIds
  BY DEF Init, HistIds
<1>2. ChainInv
  BY DEF Init, ChainInv
<1>3. SeenInv
  BY DEF Init, SeenInv
<1> QED
  BY <1>1, <1>2, <1>3 DEF CleanInv

LEMMA NextClean ==
    /\ CleanOnly /\ TypeOK /\ TypeOK' /\ LockInv /\ EntryInv /\ ReadInv /\ ClockInv /\ CleanInv
    /\ [Next]_vars
    => CleanInv'
<1> SUFFICES ASSUME CleanOnly, TypeOK, TypeOK', LockInv, EntryInv, ReadInv, ClockInv, CleanInv,
                    [Next]_vars
             PROVE  CleanInv'
  OBVIOUS
<1>1. CASE UNCHANGED vars \/ Tick \/ Stop
  <2>1. UNCHANGED <<pc, run, rset, val, ver, hist, chain>>
    BY <1>1 DEF Tick, Stop, vars, control, sets, record, ghost
  <2>2. HistIds'
    BY <2>1 DEF CleanInv, HistIds, Tid
  <2>3. ChainInv'
    BY <2>1 DEF CleanInv, ChainInv, Decided, Tid
  <2>4. SeenInv'
    BY <2>1 DEF CleanInv, SeenInv, Seen, Decided, Tid
  <2> QED
    BY <2>2, <2>3, <2>4 DEF CleanInv
<1>2. ASSUME NEW t \in Txns, StepOf(t) PROVE CleanInv'
  BY <1>2, NextHistIds, NextChain, NextSeen DEF CleanInv
<1> QED
  BY <1>1, <1>2 DEF Next, StepOf

(* Who has all its locks, what it has still to install, what it has        *)
(* validated, and who has ever got so far.                                 *)
Past(t) == pc[t] \in Validating \cup Installing \cup {"cleanup"}
Pending(u, k) ==
    \/ pc[u] \in Validating /\ k \in WriteKeys(u, 1)
    \/ /\ pc[u] \in Installing
       /\ \E j \in ToInstall(u) : wset[u][j].key = k /\ (pc[u] = "install" \/ j # ix[u])
Checked(t) ==
    IF pc[t] \in DecidedPcs THEN DOMAIN rset[t]
    ELSE IF pc[t] \in Validating THEN 1..(ix[t] - 1) ELSE {}
Placed(d) == (\E h \in hist : h.tid = d) \/ (d[1] \in Txns /\ d = Tid(d[1]) /\ Past(d[1]))

(* A transaction gets past that point only there, and goes on step by step.*)
LEMMA PastStep ==
    ASSUME TypeOK, TypeOK', SeenInv, NEW t \in Txns, StepOf(t), Past(t)'
    PROVE  \/ WritesLocked(t) \/ ValidateClean(t) \/ Validated(t) \/ GenRead(t) \/ Draw(t)
           \/ SkipWrite(t) \/ InstallWrite(t) \/ ReleaseWrite(t) \/ Installed(t)
           \/ UnlinkRead(t) /\ pc[t] = "cleanup"
<1>1. pc[t] \in DecidedPcs =>
         \/ GenRead(t) \/ Draw(t)
         \/ SkipWrite(t) \/ InstallWrite(t) \/ ReleaseWrite(t) \/ Installed(t)
         \/ UnlinkRead(t) /\ pc[t] = "cleanup"
         \/ Finish(t)
  BY DecidedStep DEF DecidedPcs, UnlinkRead
<1>2. CASE \/ StartWait(t) \/ WaitOne(t) \/ WaitEnd(t) \/ WaitThrow(t) \/ NoPieceEnd(t)
           \/ GenRead(t) \/ Draw(t) \/ PieceEnd(t) \/ UserAbort(t) \/ ExposeLock(t) \/ ExposeRead(t) \/ ReadsExposed(t)
           \/ ExposeWrite(t) \/ ExposeDone(t) \/ ExposeFail(t) \/ UndoOne(t) \/ StartCommit(t)
           \/ CommitWaitOne(t) \/ CommitWaitFail(t) \/ CommitWaitEnd(t) \/ LockWrite(t)
           \/ WritesLocked(t) \/ ValidateFail(t) \/ SkipWrite(t) \/ ReleaseWrite(t)
           \/ Installed(t) \/ UnlinkRead(t) \/ AbortUnlock(t) \/ AbortUnlinkWrite(t)
  <2>1. /\ pc'[t] \in DecidedPcs => pc[t] \in DecidedPcs
        /\ pc'[t] = "validate" => WritesLocked(t)
        /\ pc'[t] \notin {"vver", "vseq", "vint", "release", "idle"}
    BY <1>2, PlainPhases
  <2>2. CASE Finish(t)
    BY <2>1, <2>2 DEF Finish, Goto, TypeOK
  <2>3. CASE ~Finish(t)
    <3>1. pc'[t] \in DecidedPcs \/ pc'[t] = "validate"
      BY <2>1 DEF Past, Validating, Installing, DecidedPcs
    <3>2. pc[t] \in DecidedPcs \/ WritesLocked(t)
      BY <2>1, <3>1
    <3> QED
      BY <1>1, <2>3, <3>2
  <2> QED
    BY <2>2, <2>3
<1>3. CASE Begin(t) \/ NewTid(t) \/ CheckRmw(t) \/ RetryPiece(t) \/ Finish(t) \/ Aborted(t)
  <2>1. pc'[t] \in {"idle", "ctor", "exec", "eread"}
    <3> USE DEF Goto, TypeOK
    <3>1. CASE Begin(t)
      BY <3>1 DEF Begin
    <3>2. CASE NewTid(t)
      BY <3>2 DEF NewTid
    <3>3. CASE CheckRmw(t)
      BY <3>3 DEF CheckRmw
    <3>4. CASE RetryPiece(t)
      BY <3>4 DEF RetryPiece
    <3>5. CASE Finish(t)
      BY <3>5 DEF Finish
    <3>6. CASE Aborted(t)
      BY <3>6 DEF Aborted
    <3> QED
      BY <1>3, <3>1, <3>2, <3>3, <3>4, <3>5, <3>6
  <2> QED
    BY <2>1 DEF Past, Validating, Installing
<1>4. CASE Get(t) \/ Put(t) \/ Update(t)
  BY <1>4 DEF Get, Put, Update, Accessing, Past, Validating, Installing, Goto, TypeOK
<1>5. ~ValidateDirty(t)
  <2>1. SUFFICES ASSUME ValidateDirty(t) PROVE FALSE
    OBVIOUS
  <2>2. ix[t] \in DOMAIN rset[t] /\ ~rset[t][ix[t]].occ
    <3>1. ix[t] <= Len(rset[t]) /\ ~rset[t][ix[t]].occ
      BY <2>1 DEF ValidateDirty, DirtyTesting, Current, IsClean
    <3>2. ix[t] \in Nat \ {0} /\ rset[t] \in Seq(ReadRecords)
      BY DEF TypeOK
    <3> QED
      BY <3>1, <3>2
  <2> QED
    BY <2>2 DEF SeenInv, Seen
<1> QED
  BY <1>2, <1>3, <1>4, <1>5, Draws DEF StepOf, Execute, Expose, Commit, Abort

LEMMA PastBefore ==
    ASSUME TypeOK, TypeOK', SeenInv, NEW t \in Txns, StepOf(t), Past(t)'
    PROVE  /\ rset'[t] = rset[t] /\ wset'[t] = wset[t] /\ Tid(t)' = Tid(t)
           /\ ~WritesLocked(t) => Past(t) /\ \A k : Pending(t, k)' => Pending(t, k)
           /\ ~WritesLocked(t) /\ ~ValidateClean(t) => \A i \in DOMAIN rset[t] : i \in Checked(t)' => i \in Checked(t)
<1> USE DEF TypeOK, Goto, Past, Validating, Installing, DecidedPcs, control, sets
<1>1. CASE WritesLocked(t)
  BY <1>1 DEF WritesLocked, Tid
<1>2. CASE ValidateClean(t)
  <2>1. UNCHANGED <<pc, rset, wset, run>> /\ pc[t] = "validate"
    BY <1>2 DEF ValidateClean
  <2> QED
    BY <1>2, <2>1 DEF Pending, WriteKeys, Tid
<1>3. CASE Validated(t)
  <2>1. /\ pc' = [pc EXCEPT ![t] = IF wset[t] = <<>> THEN "install" ELSE "gen"]
        /\ UNCHANGED <<rset, wset, run>> /\ pc[t] = "validate" /\ ix'[t] = 1
        /\ ix[t] > Len(rset[t])
    BY <1>3, ValidatedIs
  <2>2. pc'[t] \in {"install", "gen"} /\ (pc'[t] = "install" => wset[t] = <<>>)
    BY <2>1
  <2>3. ASSUME NEW k, Pending(t, k)' PROVE Pending(t, k)
    <3>1. CASE pc'[t] = "gen"
      BY <2>1, <2>3, <3>1 DEF Pending, WriteKeys
    <3>2. CASE pc'[t] = "install"
      <4>1. PICK j \in 1..Len(wset[t]) : wset[t][j].key = k
        BY <2>1, <2>3, <3>2 DEF Pending, ToInstall
      <4> QED
        BY <2>2, <3>2, <4>1
    <3> QED
      BY <2>2, <3>1, <3>2
  <2>4. ASSUME NEW i \in DOMAIN rset[t] PROVE i \in Checked(t)
    <3>1. ix[t] \in Nat /\ Len(rset[t]) \in Nat /\ i \in 1..Len(rset[t])
      <4>1. rset[t] \in Seq(ReadRecords) /\ ix[t] \in Nat
        OBVIOUS
      <4> HIDE DEF TypeOK
      <4> QED
        BY <4>1
    <3>2. Checked(t) = 1..(ix[t] - 1)
      BY <2>1 DEF Checked
    <3> HIDE DEF TypeOK
    <3>3. i \in 1..(ix[t] - 1)
      BY <2>1, <3>1
    <3> QED
      BY <3>2, <3>3
  <2> QED
    BY <2>1, <2>2, <2>3, <2>4 DEF Tid
<1>4. CASE SkipWrite(t) \/ InstallWrite(t) \/ ReleaseWrite(t) \/ Installed(t)
  <2>1. /\ UNCHANGED <<rset, wset, run>> /\ pc[t] \in {"install", "release"}
        /\ pc'[t] \in {"install", "release", "cleanup"}
        /\ pc'[t] = "install" => ix'[t] = ix[t] + 1
        /\ pc'[t] = "release" => ix'[t] = ix[t] /\ pc[t] = "install"
    <3>1. CASE SkipWrite(t)
      BY <3>1 DEF SkipWrite
    <3>2. CASE InstallWrite(t)
      BY <3>2 DEF InstallWrite
    <3>3. CASE ReleaseWrite(t)
      BY <3>3 DEF ReleaseWrite
    <3>4. CASE Installed(t)
      BY <3>4 DEF Installed
    <3> QED
      BY <1>4, <3>1, <3>2, <3>3, <3>4
  <2>2. ASSUME NEW k, Pending(t, k)' PROVE Pending(t, k)
    <3>1. pc'[t] \in {"install", "release"}
      BY <2>1, <2>2 DEF Pending
    <3>2. PICK j \in ToInstall(t)' : wset'[t][j].key = k /\ (pc'[t] = "install" \/ j # ix'[t])
      BY <2>1, <2>2 DEF Pending
    <3>3. ix[t] \in Nat /\ Len(wset[t]) \in Nat
      OBVIOUS
    <3>4. /\ j \in ix[t]..Len(wset[t]) /\ (pc[t] = "install" \/ j # ix[t]) /\ DoWrite(t, j)
      <4>1. j \in ix'[t]..Len(wset'[t]) /\ wset'[t] = wset[t] /\ DoWrite(t, j)'
        BY <2>1, <3>2 DEF ToInstall
      <4>2. DoWrite(t, j)
        BY <4>1 DEF DoWrite
      <4>3. CASE pc'[t] = "install"
        <5>1. ix'[t] = ix[t] + 1 /\ j \in (ix[t] + 1)..Len(wset[t])
          BY <2>1, <4>1, <4>3
        <5> HIDE DEF TypeOK
        <5>2. j \in ix[t]..Len(wset[t]) /\ j # ix[t]
          BY <3>3, <5>1
        <5> QED
          BY <4>2, <5>2
      <4>4. CASE pc'[t] = "release"
        BY <2>1, <3>3, <4>1, <4>2, <4>4
      <4> QED
        BY <3>1, <4>3, <4>4
    <3>5. j \in ToInstall(t) /\ wset[t][j].key = k
      BY <2>1, <3>2, <3>4 DEF ToInstall
    <3> QED
      BY <2>1, <3>4, <3>5 DEF Pending
  <2> QED
    BY <2>1, <2>2 DEF Tid, Checked
<1>5. CASE UnlinkRead(t) /\ pc[t] = "cleanup"
  <2>1. UNCHANGED <<pc, rset, wset, run>>
    BY <1>5 DEF UnlinkRead
  <2> QED
    BY <1>5, <2>1 DEF Tid, Checked, Pending
<1>6. CASE GenRead(t)
  <2>1. UNCHANGED <<pc, rset, wset, run>> /\ pc[t] = "gen"
    BY <1>6 DEF GenRead
  <2> QED
    BY <1>6, <2>1 DEF Tid, Checked, Pending, WriteKeys
<1>7. CASE Draw(t)
  <2>1. UNCHANGED <<rset, wset, run>> /\ pc[t] = "gen" /\ pc'[t] = "install" /\ ix'[t] = 1
    BY <1>7 DEF Draw, DrawTid
  <2>2. ASSUME NEW k, Pending(t, k)' PROVE Pending(t, k)
    <3>1. PICK j \in 1..Len(wset[t]) : wset[t][j].key = k
      BY <2>1, <2>2 DEF Pending, ToInstall
    <3> QED
      BY <2>1, <3>1 DEF Pending, WriteKeys
  <2> QED
    BY <2>1, <2>2 DEF Tid, Checked
<1> HIDE DEF TypeOK, Goto, Past, Validating, Installing, DecidedPcs, control, sets
<1> QED
  BY <1>1, <1>2, <1>3, <1>4, <1>5, <1>6, <1>7, PastStep

-----------------------------------------------------------------------------
(* The serial order: that of the moments at which the transactions have    *)
(* got all their locks.                                                    *)

(* What a read r of transaction a has returned is before a,                *)
ReadBefore(p, a, r) ==
    r.key \in Keys /\ (r.val.tid = NoTid \/ (Decided(r.val.tid) /\ p[r.val.tid] < p[a]))
(* and whoever has overwritten it, or will, is after a.                    *)
StillLast(p, a, r) ==
    /\ \A j \in DOMAIN chain[r.key] :
          (\A i \in VersionsOf(chain, NoTid, r.key, r.val.tid) : i < j) =>
             chain[r.key][j].tid = a \/ p[a] < p[chain[r.key][j].tid]
    /\ \A u \in Txns : Pending(u, r.key) /\ Tid(u) # a => p[a] < p[Tid(u)]
OrderPlaced(p, m) == \A d \in RunTids : Placed(d) => p[d] < m
OrderChains(p) ==
    \A k \in Keys : \A j \in DOMAIN chain[k] : \A i \in 1..(j - 1) :
        p[chain[k][i].tid] < p[chain[k][j].tid]
OrderPending(p) ==
    \A k \in Keys, u \in Txns : Pending(u, k) =>
        \A i \in DOMAIN chain[k] : p[chain[k][i].tid] < p[Tid(u)]
OrderTxns(p) ==
    \A t \in Txns : Past(t) => \A i \in DOMAIN rset[t] :
        /\ ReadBefore(p, Tid(t), rset[t][i])
        /\ i \in Checked(t) => StillLast(p, Tid(t), rset[t][i])
OrderHist(p) ==
    \A h \in hist : \A r \in h.reads : ReadBefore(p, h.tid, r) /\ StillLast(p, h.tid, r)
Order(p, m) ==
    OrderPlaced(p, m) /\ OrderChains(p) /\ OrderPending(p) /\ OrderTxns(p) /\ OrderHist(p)
OrderInv == \E m \in Nat, p \in [RunTids -> Nat] : Order(p, m)

LEMMA OthersPast ==
    ASSUME TypeOK, NEW t \in Txns, StepOf(t), NEW u \in Txns \ {t}
    PROVE  /\ Past(u)' = Past(u) /\ Tid(u)' = Tid(u) /\ rset'[u] = rset[u] /\ Checked(u)' = Checked(u)
           /\ \A k : Pending(u, k)' = Pending(u, k)
<1>1. /\ pc'[u] = pc[u] /\ ix'[u] = ix[u] /\ rset'[u] = rset[u] /\ wset'[u] = wset[u] /\ run'[u] = run[u]
  BY OthersStay DEF Still, Local
<1>2. \A j : DoWrite(u, j)' = DoWrite(u, j)
  BY <1>1 DEF DoWrite
<1>3. ToInstall(u)' = ToInstall(u) /\ WriteKeys(u, 1)' = WriteKeys(u, 1)
  BY <1>1, <1>2 DEF ToInstall, WriteKeys
<1>4. Past(u)' = Past(u) /\ Tid(u)' = Tid(u) /\ Checked(u)' = Checked(u)
  BY <1>1 DEF Past, Tid, Checked
<1>5. \A k : Pending(u, k)' = Pending(u, k)
  BY <1>1, <1>3 DEF Pending
<1> QED
  BY <1>1, <1>4, <1>5

LEMMA PendingLocks ==
    ASSUME LockInv, NEW u \in Txns, NEW k, Pending(u, k)
    PROVE  k \in Keys /\ lock[k] = u /\ intent[k] /\ Past(u)
<1>0. TxnInv(u)
  BY DEF LockInv
<1>1. CASE pc[u] \in Validating /\ k \in WriteKeys(u, 1)
  BY <1>0, <1>1 DEF TxnInv, Held, Past
<1>2. CASE pc[u] \in Installing /\ \E j \in ToInstall(u) : wset[u][j].key = k
  BY <1>0, <1>2 DEF TxnInv, Held, Past
<1> QED
  BY <1>1, <1>2 DEF Pending

LEMMA PendingBefore ==
    ASSUME TypeOK, TypeOK', SeenInv, NEW t \in Txns, StepOf(t), ~WritesLocked(t),
           NEW u \in Txns, NEW k, Pending(u, k)'
    PROVE  Pending(u, k) /\ Tid(u)' = Tid(u)
<1>1. CASE u # t
  BY <1>1, OthersPast
<1>2. CASE u = t
  <2>1. Past(t)'
    BY <1>2 DEF Pending, Past
  <2> QED
    BY <1>2, <2>1, PastBefore
<1> QED
  BY <1>1, <1>2

LEMMA PlacedBefore ==
    ASSUME TypeOK, TypeOK', SeenInv, NEW t \in Txns, StepOf(t), ~WritesLocked(t), NEW d, Placed(d)'
    PROVE  Placed(d)
<1>1. CASE \E h \in hist' : h.tid = d
  <2>1. CASE Finish(t)
    <3>1. hist' = hist \cup {[tid |-> Tid(t), reads |-> Reads(t)]} /\ pc[t] = "cleanup"
      BY <2>1 DEF Finish
    <3>2. Past(t) /\ Tid(t)[1] = t
      BY <3>1 DEF Past, Tid
    <3> QED
      BY <1>1, <3>1, <3>2 DEF Placed
  <2>2. CASE ~Finish(t)
    BY <1>1, <2>2, GhostStays DEF Placed
  <2> QED
    BY <2>1, <2>2
<1>2. CASE d[1] \in Txns /\ (d = Tid(d[1]))' /\ Past(d[1])'
  <2>1. CASE d[1] = t
    BY <1>2, <2>1, PastBefore DEF Placed
  <2>2. CASE d[1] # t
    BY <1>2, <2>2, OthersPast DEF Placed
  <2> QED
    BY <2>1, <2>2
<1> QED
  BY <1>1, <1>2 DEF Placed

LEMMA ReadStaysBefore ==
    ASSUME TypeOK, NEW t \in Txns, StepOf(t), NEW p, NEW a, NEW r, ReadBefore(p, a, r)
    PROVE  ReadBefore(p, a, r)'
BY DecidedStays DEF ReadBefore

(* An installation is by the only transaction that was about to write.     *)
LEMMA Installs ==
    ASSUME TypeOK, LockInv, CleanInv, NEW t \in Txns, InstallWrite(t)
    PROVE  \E k \in Keys, v \in Values :
              /\ v.tid = Tid(t) /\ Pending(t, k) /\ ~Pending(t, k)'
              /\ \A u \in Txns \ {t} : ~Pending(u, k)
              /\ chain' = [chain EXCEPT ![k] = Append(chain[k], v)]
<1>1. PICK k \in Keys, v \in Values :
         /\ k = wset[t][ix[t]].key /\ v.tid = Tid(t)
         /\ chain' = [chain EXCEPT ![k] = Append(chain[k], v)]
  BY Installation DEF CleanInv
<1>2. /\ pc[t] = "install" /\ pc'[t] = "release" /\ ix'[t] = ix[t] /\ wset'[t] = wset[t]
      /\ ix[t] <= Len(wset[t]) /\ DoWrite(t, ix[t])
  BY DEF InstallWrite, Goto, TypeOK, sets
<1>3. ix[t] \in Nat /\ Len(wset[t]) \in Nat /\ DOMAIN wset[t] = 1..Len(wset[t]) /\ ix[t] \in DOMAIN wset[t]
  <2>1. wset[t] \in Seq(WriteRecords) /\ ix[t] \in Nat \ {0}
    BY DEF TypeOK
  <2> QED
    BY <1>2, <2>1
<1>4. Pending(t, k)
  <2>1. ix[t] \in ToInstall(t)
    BY <1>2, <1>3 DEF ToInstall
  <2> QED
    BY <1>1, <1>2, <2>1 DEF Pending, Installing
<1>5. ~Pending(t, k)'
  <2>1. SUFFICES ASSUME Pending(t, k)' PROVE FALSE
    OBVIOUS
  <2>2. PICK j \in ToInstall(t)' : wset'[t][j].key = k /\ j # ix[t]
    BY <1>2, <2>1 DEF Pending, Validating
  <2>3. j \in ix[t]..Len(wset[t]) /\ DoWrite(t, j)'
    BY <1>2, <2>2 DEF ToInstall
  <2>4. j \in DOMAIN wset[t] /\ DoWrite(t, j) /\ wset[t][j].key = wset[t][ix[t]].key
    <3>1. j \in DOMAIN wset[t]
      BY <1>3, <2>3
    <3> QED
      BY <1>1, <1>2, <2>2, <2>3, <3>1 DEF DoWrite
  <2>5. j <= ix[t] /\ ix[t] <= j
    BY <1>2, <1>3, <2>4 DEF DoWrite
  <2> QED
    BY <1>3, <2>2, <2>4, <2>5
<1>6. \A u \in Txns \ {t} : ~Pending(u, k)
  BY <1>4, PendingLocks
<1> QED
  BY <1>1, <1>4, <1>5, <1>6

(* What holds of the chains, of a reader and of the writers to come.       *)
LEMMA LastStays ==
    ASSUME TypeOK, TypeOK', LockInv, CleanInv, NEW t \in Txns, StepOf(t), ~WritesLocked(t),
           NEW p, NEW a, NEW r, r.key \in Keys, StillLast(p, a, r)
    PROVE  StillLast(p, a, r)'
<1>1. ASSUME NEW u \in Txns, Pending(u, r.key)', Tid(u)' # a PROVE p[a] < p[Tid(u)']
  <2>1. Pending(u, r.key) /\ Tid(u)' = Tid(u)
    BY <1>1, PendingBefore DEF CleanInv
  <2> QED
    BY <1>1, <2>1 DEF StillLast
<1>2. ASSUME NEW j \in DOMAIN chain'[r.key],
             \A i \in VersionsOf(chain', NoTid, r.key, r.val.tid) : i < j
      PROVE  chain'[r.key][j].tid = a \/ p[a] < p[chain'[r.key][j].tid]
  <2>1. CASE chain'[r.key] = chain[r.key]
    <3>1. VersionsOf(chain', NoTid, r.key, r.val.tid) = VersionsOf(chain, NoTid, r.key, r.val.tid)
      BY <2>1 DEF VersionsOf
    <3> QED
      BY <1>2, <2>1, <3>1 DEF StillLast
  <2>2. CASE chain'[r.key] # chain[r.key]
    <3>1. InstallWrite(t)
      BY <2>2, GhostStays
    <3>2. PICK k \in Keys, v \in Values :
             /\ v.tid = Tid(t) /\ Pending(t, k)
             /\ chain' = [chain EXCEPT ![k] = Append(chain[k], v)]
      BY <3>1, Installs
    <3>3. r.key = k /\ chain'[k] = Append(chain[k], v) /\ chain[k] \in Seq(Values)
      BY <2>2, <3>2 DEF CleanInv, ChainInv
    <3>4. /\ Len(chain[k]) \in Nat /\ Len(chain'[k]) = Len(chain[k]) + 1
          /\ DOMAIN chain'[k] = 1..(Len(chain[k]) + 1) /\ DOMAIN chain[k] = 1..Len(chain[k])
          /\ chain'[k][Len(chain[k]) + 1] = v
          /\ \A i \in 1..Len(chain[k]) : chain'[k][i] = chain[k][i]
      BY <3>3
    <3>5. CASE j = Len(chain[k]) + 1
      <4>1. chain'[r.key][j].tid = Tid(t) /\ Pending(t, r.key)
        BY <3>2, <3>3, <3>4, <3>5
      <4> QED
        BY <4>1 DEF StillLast
    <3>6. CASE j # Len(chain[k]) + 1
      <4>1. j \in DOMAIN chain[r.key] /\ chain'[r.key][j] = chain[r.key][j]
        BY <1>2, <3>3, <3>4, <3>6
      <4>2. VersionsOf(chain, NoTid, r.key, r.val.tid) \subseteq VersionsOf(chain', NoTid, r.key, r.val.tid)
        <5>1. ASSUME NEW i \in VersionsOf(chain, NoTid, r.key, r.val.tid)
              PROVE  i \in VersionsOf(chain', NoTid, r.key, r.val.tid)
          <6>1. i \in 0..Len(chain[k]) /\ IF i = 0 THEN r.val.tid = NoTid ELSE chain[k][i].tid = r.val.tid
            BY <3>3 DEF VersionsOf
          <6>2. i \in 0..Len(chain'[k])
            BY <3>4, <6>1
          <6>3. i # 0 => chain'[k][i] = chain[k][i]
            BY <3>4, <6>1
          <6> QED
            BY <3>3, <6>1, <6>2, <6>3 DEF VersionsOf
        <5> QED
          BY <5>1
      <4> QED
        BY <1>2, <4>1, <4>2 DEF StillLast
    <3> QED
      BY <3>5, <3>6
  <2> QED
    BY <2>1, <2>2
<1> QED
  BY <1>1, <1>2 DEF StillLast, Tid

LEMMA SameVersion ==
    ASSUME NEW a \in CommitTids, NEW b \in CommitTids, TidLeq(a, b), TidLeq(b, a)
    PROVE  a = b
<1>1. /\ EpochId(a) \in Nat /\ NumId(a) \in Nat /\ CoreId(a) \in Nat
      /\ EpochId(b) \in Nat /\ NumId(b) \in Nat /\ CoreId(b) \in Nat
  BY TidParts
<1>2. EpochId(a) = EpochId(b) /\ NumId(a) = NumId(b) /\ CoreId(a) = CoreId(b)
  BY <1>1 DEF TidLeq, Below
<1>3. \A c \in CommitTids : c = <<EpochId(c), NumId(c), CoreId(c)>>
  BY DEF CommitTids, EpochId, NumId, CoreId
<1> QED
  BY <1>2, <1>3

(* A validated read: nobody has overwritten it, nobody is about to.        *)
LEMMA ValidatedLast ==
    ASSUME TypeOK, LockInv, CleanInv, NEW t \in Txns, ValidateClean(t), NEW p
    PROVE  StillLast(p, Tid(t), rset[t][ix[t]])
<1> DEFINE r == rset[t][ix[t]]
           k == r.key
<1>1. /\ pc[t] = "validate" /\ ix[t] \in DOMAIN rset[t] /\ r \in ReadRecords
      /\ CleanValid(t, r)
  <2>1. rset[t] \in Seq(ReadRecords) /\ ix[t] \in Nat \ {0}
    BY DEF TypeOK
  <2> QED
    BY <2>1 DEF ValidateClean, Current
<1>2. Seen(r) /\ k \in Keys /\ r.clean \in CommitTids /\ ver[k] \in CommitTids
  BY <1>1 DEF CleanInv, SeenInv, ReadRecords, TypeOK
<1> HIDE DEF r
<1>3. ver[k] = r.clean
  <2>1. TidLeq(ver[k], r.clean) /\ TidLeq(r.clean, ver[k])
    BY <1>1, <1>2 DEF CleanValid, Seen
  <2> QED
    BY <1>2, <2>1, SameVersion
<1>4. val[k] = r.val
  BY <1>2, <1>3 DEF Seen
<1>5. ASSUME NEW j \in DOMAIN chain[k], \A i \in VersionsOf(chain, NoTid, k, r.val.tid) : i < j
      PROVE  FALSE
  <2>1. chain[k] \in Seq(Values) /\ val[k] = IF chain[k] = <<>> THEN Loaded ELSE chain[k][Len(chain[k])]
    BY <1>2 DEF CleanInv, ChainInv
  <2>2. /\ Len(chain[k]) \in Nat /\ j \in 1..Len(chain[k]) /\ chain[k] # <<>>
        /\ Len(chain[k]) # 0
    BY <1>5, <2>1
  <2>3. Len(chain[k]) \in VersionsOf(chain, NoTid, k, r.val.tid)
    BY <1>4, <2>1, <2>2 DEF VersionsOf
  <2>4. Len(chain[k]) < j
    BY <1>5, <2>3
  <2> QED
    BY <2>2, <2>4
<1>6. ASSUME NEW u \in Txns, Pending(u, k), Tid(u) # Tid(t) PROVE FALSE
  <2>1. lock[k] = u /\ intent[k] /\ u # t
    BY <1>6, PendingLocks
  <2>2. k \in WriteKeys(t, 1)
    BY <1>1, <2>1 DEF CleanValid, Mine
  <2>3. lock[k] = t
    BY <1>1, <2>2 DEF LockInv, TxnInv, Validating, Held
  <2> QED
    BY <2>1, <2>3
<1> QED
  BY <1>5, <1>6 DEF StillLast, r

(* Every other step keeps the order.                                       *)
LEMMA OrderOn ==
    ASSUME TypeOK, TypeOK', LockInv, CleanInv, NEW t \in Txns, StepOf(t), ~WritesLocked(t),
           NEW m \in Nat, NEW p \in [RunTids -> Nat], Order(p, m)
    PROVE  Order(p, m)'
<1> USE DEF CleanInv
<1>1. OrderPlaced(p, m)'
  BY PlacedBefore DEF Order, OrderPlaced
<1>2. OrderChains(p)' /\ OrderPending(p)'
  <2>1. ASSUME NEW k \in Keys, NEW u \in Txns, Pending(u, k)' PROVE Pending(u, k) /\ Tid(u)' = Tid(u)
    BY <2>1, PendingBefore
  <2>2. CASE chain' = chain
    BY <2>1, <2>2 DEF Order, OrderChains, OrderPending
  <2>3. CASE InstallWrite(t)
    <3>1. PICK k \in Keys, v \in Values :
             /\ v.tid = Tid(t) /\ Pending(t, k) /\ ~Pending(t, k)'
             /\ \A u \in Txns \ {t} : ~Pending(u, k)
             /\ chain' = [chain EXCEPT ![k] = Append(chain[k], v)]
      BY <2>3, Installs
    <3>2. /\ chain'[k] = Append(chain[k], v) /\ chain[k] \in Seq(Values)
          /\ \A l \in Keys \ {k} : chain'[l] = chain[l]
      BY <3>1 DEF ChainInv
    <3>3. /\ Len(chain[k]) \in Nat /\ DOMAIN chain[k] = 1..Len(chain[k])
          /\ DOMAIN chain'[k] = 1..(Len(chain[k]) + 1)
          /\ chain'[k][Len(chain[k]) + 1] = v
          /\ \A i \in 1..Len(chain[k]) : chain'[k][i] = chain[k][i]
      BY <3>2
    <3>4. ASSUME NEW j \in DOMAIN chain'[k], NEW i \in 1..(j - 1)
          PROVE  p[chain'[k][i].tid] < p[chain'[k][j].tid]
      <4>1. i \in 1..Len(chain[k]) /\ chain'[k][i] = chain[k][i]
        BY <3>3, <3>4
      <4>2. CASE j = Len(chain[k]) + 1
        <5>1. chain'[k][j].tid = Tid(t)
          BY <3>1, <3>3, <4>2
        <5> QED
          BY <3>1, <3>3, <4>1, <5>1 DEF Order, OrderPending
      <4>3. CASE j # Len(chain[k]) + 1
        <5>1. j \in DOMAIN chain[k] /\ chain'[k][j] = chain[k][j]
          BY <3>3, <4>3
        <5> QED
          BY <4>1, <5>1 DEF Order, OrderChains
      <4> QED
        BY <4>2, <4>3
    <3>5. OrderChains(p)'
      BY <3>2, <3>4 DEF Order, OrderChains
    <3>6. ASSUME NEW l \in Keys, NEW u \in Txns, Pending(u, l)' PROVE l # k
      BY <2>1, <3>1, <3>6
    <3>7. OrderPending(p)'
      BY <2>1, <3>2, <3>6 DEF Order, OrderPending
    <3> QED
      BY <3>5, <3>7
  <2> QED
    BY <2>2, <2>3, GhostStays
<1>3. OrderTxns(p)'
  <2> SUFFICES ASSUME NEW u \in Txns, Past(u)', NEW i \in DOMAIN rset'[u]
               PROVE  /\ ReadBefore(p, Tid(u), rset[u][i])'
                      /\ i \in Checked(u)' => StillLast(p, Tid(u), rset[u][i])'
    BY DEF OrderTxns
  <2>1. /\ Past(u) /\ Tid(u)' = Tid(u) /\ rset'[u] = rset[u]
        /\ i \in Checked(u)' => i \in Checked(u) \/ (u = t /\ ValidateClean(t))
    BY OthersPast, PastBefore
  <2>2. PICK a, r : a = Tid(u) /\ r = rset[u][i]
    OBVIOUS
  <2>3. ReadBefore(p, a, r)
    BY <2>1, <2>2 DEF Order, OrderTxns
  <2>4. ReadBefore(p, a, r)' /\ r.key \in Keys
    BY <2>3, ReadStaysBefore DEF ReadBefore
  <2>5. ASSUME i \in Checked(u)' PROVE StillLast(p, a, r)'
    <3>1. CASE i \in Checked(u)
      <4>1. StillLast(p, a, r)
        BY <2>1, <2>2, <3>1 DEF Order, OrderTxns
      <4> QED
        BY <2>4, <4>1, LastStays
    <3>2. CASE i \notin Checked(u)
      <4>1. u = t /\ ValidateClean(t)
        BY <2>1, <2>5, <3>2
      <4>2. i = ix[t]
        <5>1. /\ pc' = pc /\ pc[t] = "validate" /\ ix'[t] = ix[t] + 1 /\ ix[t] \in Nat
          BY <4>1 DEF ValidateClean, control, TypeOK
        <5>2. i \in 1..(ix'[t] - 1) /\ i \notin 1..(ix[t] - 1)
          BY <2>5, <3>2, <4>1, <5>1 DEF Checked, Validating, DecidedPcs
        <5> QED
          BY <5>1, <5>2
      <4>3. StillLast(p, a, r)
        BY <2>2, <4>1, <4>2, ValidatedLast
      <4> QED
        BY <2>4, <4>3, LastStays
    <3> QED
      BY <3>1, <3>2
  <2>6. Tid(u)' = a /\ rset'[u][i] = r
    BY <2>1, <2>2
  <2> QED
    BY <2>4, <2>5, <2>6 DEF ReadBefore, StillLast
<1>4. OrderHist(p)'
  <2>1. ASSUME NEW h \in hist, NEW r \in h.reads PROVE ReadBefore(p, h.tid, r)' /\ StillLast(p, h.tid, r)'
    <3>1. ReadBefore(p, h.tid, r) /\ StillLast(p, h.tid, r) /\ r.key \in Keys
      BY <2>1 DEF Order, OrderHist, ReadBefore
    <3>2. PICK a : a = h.tid
      OBVIOUS
    <3>3. ReadBefore(p, a, r)' /\ StillLast(p, a, r)'
      BY <3>1, <3>2, ReadStaysBefore, LastStays
    <3> QED
      BY <3>2, <3>3
  <2>2. CASE ~Finish(t)
    <3>1. hist' = hist
      BY <2>2, GhostStays
    <3> QED
      BY <2>1, <3>1 DEF OrderHist
  <2>3. CASE Finish(t)
    <3>1. hist' = hist \cup {[tid |-> Tid(t), reads |-> Reads(t)]} /\ pc[t] = "cleanup"
      BY <2>3 DEF Finish
    <3>2. ASSUME NEW r \in Reads(t) PROVE ReadBefore(p, Tid(t), r) /\ StillLast(p, Tid(t), r) /\ r.key \in Keys
      <4>1. PICK i \in DOMAIN rset[t] : r = [key |-> rset[t][i].key, val |-> rset[t][i].val]
        BY DEF Reads
      <4>2. r.key = rset[t][i].key /\ r.val = rset[t][i].val
        BY <4>1
      <4>3. Past(t) /\ i \in Checked(t)
        BY <3>1 DEF Past, Checked, DecidedPcs
      <4>4. ReadBefore(p, Tid(t), rset[t][i]) /\ StillLast(p, Tid(t), rset[t][i])
        BY <4>3 DEF Order, OrderTxns
      <4> QED
        BY <4>2, <4>4 DEF ReadBefore, StillLast
    <3>3. PICK a, R : a = Tid(t) /\ R = Reads(t)
      OBVIOUS
    <3>4. ASSUME NEW r \in R PROVE ReadBefore(p, a, r)' /\ StillLast(p, a, r)'
      BY <3>2, <3>3, <3>4, ReadStaysBefore, LastStays
    <3>5. ASSUME NEW h \in hist', NEW r \in h.reads PROVE ReadBefore(p, h.tid, r)' /\ StillLast(p, h.tid, r)'
      <4>1. CASE h \in hist
        BY <2>1, <3>5, <4>1
      <4>2. CASE h = [tid |-> a, reads |-> R]
        <5>1. h.tid = a /\ h.reads = R
          BY <4>2
        <5> QED
          BY <3>4, <3>5, <5>1
      <4> QED
        BY <3>1, <3>3, <4>1, <4>2
    <3> QED
      BY <3>5 DEF OrderHist
  <2> QED
    BY <2>2, <2>3
<1> QED
  BY <1>1, <1>2, <1>3, <1>4 DEF Order

(* Who gets all its locks comes last.                                      *)
LEMMA OrderGrows ==
    ASSUME TypeOK, TypeOK', LockInv, CleanInv, NEW t \in Txns, StepOf(t), WritesLocked(t),
           NEW m \in Nat, NEW p \in [RunTids -> Nat], Order(p, m)
    PROVE  \E q \in [RunTids -> Nat] : Order(q, m + 1)'
<1>0. PICK d : d = Tid(t)
  OBVIOUS
<1>1. /\ pc[t] = "clock" /\ pc'[t] = "validate" /\ ix'[t] = 1 /\ rset' = rset /\ run' = run
      /\ hist' = hist /\ chain' = chain
  BY DEF WritesLocked, Goto, TypeOK, sets, ghost
<1>2. d \in RunTids /\ d[1] = t /\ Tid(t)' = d
  BY <1>0, <1>1 DEF Tid, RunTids, TypeOK
<1>3. ~Placed(d)
  BY <1>0, <1>1, <1>2 DEF Placed, Past, Validating, Installing, CleanInv, HistIds
<1>4. PICK q \in [RunTids -> Nat] : q[d] = m /\ \A e \in RunTids \ {d} : q[e] = p[e]
  <2> DEFINE o == [p EXCEPT ![d] = m]
  <2>1. o \in [RunTids -> Nat] /\ o[d] = m /\ \A e \in RunTids \ {d} : o[e] = p[e]
    BY <1>2
  <2> HIDE DEF o
  <2> QED
    BY <2>1
<1>5. ASSUME NEW e, Decided(e) PROVE e \in RunTids /\ Placed(e)
  BY <1>5, DecidedType DEF Decided, Placed, Past, Validating, Installing, CleanInv
<1>6. ASSUME NEW e \in RunTids, Placed(e) PROVE e # d /\ q[e] = p[e] /\ p[e] < m /\ p[e] \in Nat
  BY <1>3, <1>4, <1>6 DEF Order, OrderPlaced
<1>7. ASSUME NEW k \in Keys, NEW i \in DOMAIN chain[k]
      PROVE  chain[k][i].tid \in RunTids /\ Placed(chain[k][i].tid)
  BY <1>5 DEF CleanInv, ChainInv
<1>8. ASSUME NEW u \in Txns, Past(u) PROVE u # t /\ Tid(u) \in RunTids /\ Placed(Tid(u)) /\ Tid(u)' = Tid(u)
  <2>1. u # t
    BY <1>1, <1>8 DEF Past, Validating, Installing
  <2>2. Tid(u) \in RunTids /\ Tid(u)[1] = u
    BY DEF Tid, RunTids, TypeOK
  <2> QED
    BY <1>1, <1>8, <2>1, <2>2 DEF Placed, Tid
<1>9. ASSUME NEW u \in Txns, NEW k, Pending(u, k)' PROVE u = t \/ (Pending(u, k) /\ Past(u))
  <2>1. CASE u # t
    BY <1>9, <2>1, OthersPast, PendingLocks
  <2> QED
    BY <2>1
<1>10. OrderPlaced(q, m + 1)'
  <2>1. ASSUME NEW e \in RunTids, Placed(e)' PROVE q[e] < m + 1
    <3>1. CASE e = d
      BY <1>4, <3>1
    <3>2. CASE e # d
      <4>1. CASE \E h \in hist' : h.tid = e
        <5>1. Placed(e)
          BY <1>1, <4>1 DEF Placed
        <5> QED
          BY <1>6, <5>1
      <4>2. CASE e[1] \in Txns /\ e = Tid(e[1])' /\ Past(e[1])'
        <5>1. e[1] # t
          BY <1>2, <3>2, <4>2
        <5>2. Placed(e)
          BY <4>2, <5>1, OthersPast DEF Placed
        <5> QED
          BY <1>6, <5>2
      <4> QED
        BY <2>1, <4>1, <4>2 DEF Placed
    <3> QED
      BY <3>1, <3>2
  <2> QED
    BY <2>1 DEF OrderPlaced
<1>11. OrderChains(q)'
  <2>1. ASSUME NEW k \in Keys, NEW j \in DOMAIN chain[k], NEW i \in 1..(j - 1)
        PROVE  q[chain[k][i].tid] < q[chain[k][j].tid]
    <3>1. i \in DOMAIN chain[k]
      <4>1. chain[k] \in Seq(Values)
        BY DEF CleanInv, ChainInv
      <4> QED
        BY <4>1
    <3>2. p[chain[k][i].tid] < p[chain[k][j].tid]
      BY DEF Order, OrderChains
    <3> QED
      BY <1>6, <1>7, <3>1, <3>2
  <2> QED
    BY <1>1, <2>1 DEF OrderChains
<1>12. OrderPending(q)'
  <2>1. ASSUME NEW k \in Keys, NEW u \in Txns, Pending(u, k)', NEW i \in DOMAIN chain[k]
        PROVE  q[chain[k][i].tid] < q[Tid(u)']
    <3>1. CASE u = t
      BY <1>2, <1>4, <1>6, <1>7, <3>1
    <3>2. CASE Pending(u, k) /\ Past(u)
      <4>1. p[chain[k][i].tid] < p[Tid(u)]
        BY <3>2 DEF Order, OrderPending
      <4> QED
        BY <1>6, <1>7, <1>8, <3>2, <4>1
    <3> QED
      BY <1>9, <2>1, <3>1, <3>2
  <2> QED
    BY <1>1, <2>1 DEF OrderPending
<1>13. ASSUME NEW a \in RunTids, Placed(a), NEW r, ReadBefore(p, a, r)
       PROVE  ReadBefore(q, a, r)'
  <2>1. ReadBefore(q, a, r)
    BY <1>5, <1>6, <1>13 DEF ReadBefore
  <2> QED
    BY <2>1, ReadStaysBefore
<1>14. ASSUME NEW a \in RunTids, Placed(a), NEW r, r.key \in Keys, StillLast(p, a, r)
       PROVE  StillLast(q, a, r)'
  <2>1. ASSUME NEW j \in DOMAIN chain[r.key],
               \A i \in VersionsOf(chain, NoTid, r.key, r.val.tid) : i < j
        PROVE  chain[r.key][j].tid = a \/ q[a] < q[chain[r.key][j].tid]
    <3>1. chain[r.key][j].tid = a \/ p[a] < p[chain[r.key][j].tid]
      BY <1>14, <2>1 DEF StillLast
    <3> QED
      BY <1>6, <1>7, <1>14, <3>1
  <2>2. ASSUME NEW u \in Txns, Pending(u, r.key)', Tid(u)' # a PROVE q[a] < q[Tid(u)']
    <3>1. CASE u = t
      BY <1>2, <1>4, <1>6, <1>14, <3>1
    <3>2. CASE Pending(u, r.key) /\ Past(u)
      <4>1. p[a] < p[Tid(u)]
        BY <1>8, <1>14, <2>2, <3>2 DEF StillLast
      <4> QED
        BY <1>6, <1>8, <1>14, <3>2, <4>1
    <3> QED
      BY <1>9, <2>2, <3>1, <3>2
  <2> QED
    BY <1>1, <2>1, <2>2 DEF StillLast
<1>15. OrderTxns(q)'
  <2> SUFFICES ASSUME NEW u \in Txns, Past(u)', NEW i \in DOMAIN rset'[u]
               PROVE  /\ ReadBefore(q, Tid(u), rset[u][i])'
                      /\ i \in Checked(u)' => StillLast(q, Tid(u), rset[u][i])'
    BY DEF OrderTxns
  <2>0. PICK a, r : a = Tid(u)' /\ r = rset'[u][i]
    OBVIOUS
  <2>1. CASE u # t
    <3>1. Past(u) /\ Tid(u) = a /\ rset[u][i] = r /\ i \in DOMAIN rset[u] /\ Checked(u)' = Checked(u)
      BY <2>0, <2>1, OthersPast
    <3>2. ReadBefore(p, a, r) /\ r.key \in Keys /\ (i \in Checked(u) => StillLast(p, a, r))
      BY <3>1 DEF Order, OrderTxns, ReadBefore
    <3>3. ReadBefore(q, a, r)' /\ (i \in Checked(u)' => StillLast(q, a, r)')
      BY <1>8, <1>13, <1>14, <3>1, <3>2
    <3> QED
      BY <2>0, <3>3 DEF ReadBefore, StillLast
  <2>2. CASE u = t
    <3>1. r = rset[t][i] /\ i \in DOMAIN rset[t] /\ a = d
      BY <1>1, <1>2, <2>0, <2>2
    <3>2. Seen(r) /\ r.key \in Keys
      <4>1. rset[t] \in Seq(ReadRecords)
        BY DEF TypeOK
      <4>2. r \in ReadRecords
        BY <3>1, <4>1
      <4> QED
        BY <3>1, <4>2 DEF CleanInv, SeenInv, ReadRecords
    <3>3. r.val.tid = NoTid \/ (Decided(r.val.tid) /\ q[r.val.tid] < q[d])
      BY <1>4, <1>5, <1>6, <3>2 DEF Seen
    <3>4. ReadBefore(q, a, r)'
      BY <3>1, <3>2, <3>3, ReadStaysBefore DEF ReadBefore
    <3>5. i \notin Checked(u)'
      <4>1. Checked(u)' = 1..(1 - 1)
        BY <1>1, <2>2 DEF Checked, DecidedPcs, Validating
      <4> QED
        BY <4>1
    <3> QED
      BY <2>0, <3>4, <3>5 DEF ReadBefore
  <2> QED
    BY <2>1, <2>2
<1>16. OrderHist(q)'
  <2>1. ASSUME NEW h \in hist, NEW r \in h.reads PROVE ReadBefore(q, h.tid, r)' /\ StillLast(q, h.tid, r)'
    <3>1. ReadBefore(p, h.tid, r) /\ StillLast(p, h.tid, r) /\ r.key \in Keys
      BY <2>1 DEF Order, OrderHist, ReadBefore
    <3>2. PICK a : a = h.tid
      OBVIOUS
    <3>3. a \in RunTids /\ Placed(a)
      BY <3>2 DEF CleanInv, HistIds, Placed
    <3>4. ReadBefore(q, a, r)' /\ StillLast(q, a, r)'
      BY <1>13, <1>14, <3>1, <3>2, <3>3
    <3> QED
      BY <3>2, <3>4
  <2> QED
    BY <1>1, <2>1 DEF OrderHist
<1> QED
  BY <1>4, <1>10, <1>11, <1>12, <1>15, <1>16 DEF Order

LEMMA InitOrder == Init => OrderInv
<1> SUFFICES ASSUME Init PROVE OrderInv
  OBVIOUS
<1> DEFINE p == [d \in RunTids |-> 0]
<1>0. p \in [RunTids -> Nat]
  OBVIOUS
<1>1. \A t \in Txns : pc[t] = "idle" /\ hist = {}
  BY DEF Init
<1>2. \A k \in Keys : chain[k] = <<>>
  BY DEF Init
<1> HIDE DEF p
<1>3. OrderPlaced(p, 0)
  BY <1>1 DEF Init, OrderPlaced, Placed, Past, Validating, Installing
<1>4. OrderChains(p) /\ OrderPending(p)
  <2>1. \A k \in Keys : DOMAIN chain[k] = {}
    BY <1>2
  <2> QED
    BY <2>1 DEF OrderChains, OrderPending
<1>5. OrderTxns(p)
  BY <1>1 DEF OrderTxns, Past, Validating, Installing
<1>6. OrderHist(p)
  BY DEF Init, OrderHist
<1> QED
  BY <1>0, <1>3, <1>4, <1>5, <1>6 DEF OrderInv, Order

LEMMA NextOrder ==
    TypeOK /\ TypeOK' /\ LockInv /\ CleanInv /\ OrderInv /\ [Next]_vars => OrderInv'
<1> SUFFICES ASSUME TypeOK, TypeOK', LockInv, CleanInv, OrderInv, [Next]_vars PROVE OrderInv'
  OBVIOUS
<1>0. PICK m \in Nat, p \in [RunTids -> Nat] : Order(p, m)
  BY DEF OrderInv
<1>1. CASE UNCHANGED vars \/ Tick \/ Stop
  <2>1. UNCHANGED <<pc, run, ix, rset, wset, hist, chain>>
    BY <1>1 DEF Tick, Stop, vars, control, sets, ghost
  <2>2. \A d : Decided(d)' = Decided(d) /\ Placed(d)' = Placed(d)
    BY <2>1 DEF Decided, Placed, Past, Tid
  <2>3. \A u, k : Pending(u, k)' = Pending(u, k)
    BY <2>1 DEF Pending, WriteKeys, ToInstall, DoWrite
  <2>4. ASSUME NEW a, NEW r PROVE ReadBefore(p, a, r)' = ReadBefore(p, a, r) /\ StillLast(p, a, r)' = StillLast(p, a, r)
    BY <2>1, <2>2, <2>3 DEF ReadBefore, StillLast, Tid
  <2>5. OrderPlaced(p, m)'
    BY <1>0, <2>2 DEF Order, OrderPlaced
  <2>6. OrderChains(p)' /\ OrderPending(p)'
    BY <1>0, <2>1, <2>3 DEF Order, OrderChains, OrderPending, Tid
  <2>7. OrderTxns(p)'
    <3>1. ASSUME NEW u \in Txns, Past(u)', NEW i \in DOMAIN rset'[u]
          PROVE  /\ ReadBefore(p, Tid(u), rset[u][i])'
                 /\ i \in Checked(u)' => StillLast(p, Tid(u), rset[u][i])'
      <4>1. Past(u) /\ Tid(u)' = Tid(u) /\ rset'[u] = rset[u] /\ Checked(u)' = Checked(u)
        BY <2>1, <3>1 DEF Past, Tid, Checked
      <4>2. PICK a, r : a = Tid(u) /\ r = rset[u][i]
        OBVIOUS
      <4>3. ReadBefore(p, a, r) /\ (i \in Checked(u) => StillLast(p, a, r))
        BY <1>0, <3>1, <4>1, <4>2 DEF Order, OrderTxns
      <4>4. ReadBefore(p, a, r)' /\ (i \in Checked(u)' => StillLast(p, a, r)')
        BY <2>4, <4>1, <4>3
      <4> QED
        BY <4>1, <4>2, <4>4 DEF ReadBefore, StillLast
    <3> QED
      BY <3>1 DEF OrderTxns
  <2>8. OrderHist(p)'
    <3>1. ASSUME NEW h \in hist, NEW r \in h.reads PROVE ReadBefore(p, h.tid, r)' /\ StillLast(p, h.tid, r)'
      <4>1. PICK a : a = h.tid
        OBVIOUS
      <4>2. ReadBefore(p, a, r)' /\ StillLast(p, a, r)'
        BY <1>0, <2>4, <4>1 DEF Order, OrderHist
      <4> QED
        BY <4>1, <4>2
    <3> QED
      BY <2>1, <3>1 DEF OrderHist
  <2> QED
    BY <2>5, <2>6, <2>7, <2>8 DEF Order, OrderInv
<1>2. ASSUME NEW t \in Txns, StepOf(t) PROVE OrderInv'
  <2>1. CASE WritesLocked(t)
    <3>1. PICK q \in [RunTids -> Nat] : Order(q, m + 1)'
      BY <1>0, <1>2, <2>1, OrderGrows
    <3>2. m + 1 \in Nat
      OBVIOUS
    <3> QED
      BY <3>1, <3>2 DEF OrderInv
  <2>2. CASE ~WritesLocked(t)
    <3>1. Order(p, m)'
      BY <1>0, <1>2, <2>2, OrderOn
    <3> QED
      BY <3>1 DEF OrderInv
  <2> QED
    BY <2>1, <2>2
<1> QED
  BY <1>1, <1>2 DEF Next, StepOf

-----------------------------------------------------------------------------
(* Dependencies go up in the order.                                        *)
LEMMA OrderSerial ==
    ASSUME TypeOK, CleanInv, OrderInv
    PROVE  Serializable
<1>0. PICK m \in Nat, p \in [RunTids -> Nat] : Order(p, m)
  BY DEF OrderInv
<1>1. ASSUME NEW a \in hist, NEW b \in hist, Precedes(chain, NoTid, a, b)
      PROVE  p[a.tid] < p[b.tid]
  <2>0. a.tid # b.tid /\ a.tid \in RunTids /\ b.tid \in RunTids
    BY <1>1 DEF Precedes, CleanInv, HistIds
  <2>1. CASE \E r \in b.reads : r.val.tid = a.tid
    <3>1. PICK r \in b.reads : r.val.tid = a.tid
      BY <2>1
    <3>2. r.val.tid # NoTid
      BY <2>0, <3>1, TxnsAssumption DEF RunTids, NoTid
    <3> QED
      BY <1>0, <3>1, <3>2 DEF Order, OrderHist, ReadBefore
  <2>2. CASE \E k \in DOMAIN chain : \E i, j \in DOMAIN chain[k] :
                i < j /\ chain[k][i].tid = a.tid /\ chain[k][j].tid = b.tid
    <3>1. PICK k \in DOMAIN chain : \E i, j \in DOMAIN chain[k] :
                i < j /\ chain[k][i].tid = a.tid /\ chain[k][j].tid = b.tid
      BY <2>2
    <3>2. PICK i \in DOMAIN chain[k], j \in DOMAIN chain[k] :
                i < j /\ chain[k][i].tid = a.tid /\ chain[k][j].tid = b.tid
      BY <3>1
    <3>3. k \in Keys /\ chain[k] \in Seq(Values)
      BY DEF CleanInv, ChainInv
    <3>4. i \in 1..(j - 1)
      BY <3>2, <3>3
    <3> QED
      BY <1>0, <3>2, <3>3, <3>4 DEF Order, OrderChains
  <2>3. CASE \E r \in a.reads : \E j \in DOMAIN chain[r.key] :
                /\ chain[r.key][j].tid = b.tid
                /\ \A i \in VersionsOf(chain, NoTid, r.key, r.val.tid) : i < j
    <3>0. PICK r \in a.reads : \E j \in DOMAIN chain[r.key] :
                /\ chain[r.key][j].tid = b.tid
                /\ \A i \in VersionsOf(chain, NoTid, r.key, r.val.tid) : i < j
      BY <2>3
    <3>1. PICK j \in DOMAIN chain[r.key] :
                /\ chain[r.key][j].tid = b.tid
                /\ \A i \in VersionsOf(chain, NoTid, r.key, r.val.tid) : i < j
      BY <3>0
    <3>2. StillLast(p, a.tid, r)
      BY <1>0 DEF Order, OrderHist
    <3> QED
      BY <2>0, <3>1, <3>2 DEF StillLast
  <2> QED
    BY <1>1, <2>1, <2>2, <2>3 DEF Precedes
<1>2. ASSUME NEW S \in (SUBSET hist) \ {{}}
      PROVE  \E b \in S : \A a \in S : ~Precedes(chain, NoTid, a, b)
  <2> DEFINE T == {p[h.tid] : h \in S}
  <2>1. T \subseteq Nat /\ T # {}
    BY DEF CleanInv, HistIds
  <2> HIDE DEF T
  <2>2. PICK x \in T : \A y \in T : x <= y
    BY <2>1, Smallest
  <2>3. PICK b \in S : x = p[b.tid]
    BY <2>2 DEF T
  <2>4. ASSUME NEW a \in S, Precedes(chain, NoTid, a, b) PROVE FALSE
    <3>1. p[a.tid] < p[b.tid] /\ p[a.tid] \in Nat /\ p[b.tid] \in Nat
      BY <1>1, <2>4 DEF CleanInv, HistIds
    <3>2. p[b.tid] <= p[a.tid]
      BY <2>2, <2>3 DEF T
    <3> QED
      BY <3>1, <3>2
  <2> QED
    BY <2>4
<1> QED
  BY <1>2 DEF Serializable, IsSerializable

(* If the policy reads clean only, what a transaction has seen is of the   *)
(* kind it needs, and there is a serial order.                             *)
THEOREM CleanOrder ==
    ASSUME CleanOnly
    PROVE  Spec => [](CleanInv /\ OrderInv)
<1>1. /\ TypeOK /\ TypeOK' /\ LockInv /\ EntryInv /\ ReadInv /\ ClockInv /\ CleanInv /\ OrderInv
      /\ [Next]_vars
      => CleanInv' /\ OrderInv'
  BY NextClean, NextOrder
<1>2. Init => CleanInv /\ OrderInv
  BY InitClean, InitOrder
<1> QED
  BY <1>1, <1>2, TypeCorrect, LocksCorrect, EntriesCorrect, ReadsCorrect, ClockCorrect, PTL
     DEF Spec

(* If the policy reads clean only, the committed transactions are          *)
(* equivalent to a serial execution, whatever they are and whatever else   *)
(* the policy chooses.                                                     *)
THEOREM CleanSerializable ==
    ASSUME CleanOnly
    PROVE  Spec => []Serializable
<1>1. TypeOK /\ CleanInv /\ OrderInv => Serializable
  BY OrderSerial
<1> QED
  BY <1>1, CleanOrder, TypeCorrect, PTL
=============================================================================
