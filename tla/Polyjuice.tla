----------------------------- MODULE Polyjuice -----------------------------
(***************************************************************************)
(* The commit protocol of Polyjuice (ae-tpcc-polyjuice/txn_impl.h and      *)
(* piece_impl.h): transactions that read clean or dirty, expose their      *)
(* uncommitted accesses on per-record access lists piece by piece, wait    *)
(* for the transactions they depend on, lock their write set, validate     *)
(* their read set, install their writes, or abort.  The learned policy     *)
(* only picks among the alternatives of each access, so every choice it    *)
(* may make is a nondeterministic choice here.                             *)
(*                                                                         *)
(* A worker owns one transaction object and reuses it for its next         *)
(* transaction (bench.h, txn_buf with one buffer): t \in Txns is the       *)
(* object and the worker's core number, run[t] the counter in its id.      *)
(* Records exist throughout and are overwritten in place; inserts and      *)
(* absent reads are the subject of Inserts.tla.                            *)
(***************************************************************************)
EXTENDS Integers, Sequences, FiniteSets, SequencesExt

CONSTANTS
    Txns,         \* transaction objects, numbered by core
    Keys,         \* records, numbered by the address of their lock
    Programs,     \* Programs[t]: the access sequences t may execute
    AccessModes,  \* the access actions the policy may choose: "clean", "dirty"
    Waits,        \* the waits it may choose: a step, or WAIT_DEP_COMMIT
    PieceEnds,    \* may it end a piece after an access? (a set of Booleans)
    UserAborts,   \* does the application roll back? (a Boolean)
    MaxRuns,      \* bound: MaxRuns[t] transactions run in object t
    MaxTick       \* bound: the last tick of the global epoch counter

Ops == {"get", "put", "update"}
Accesses == [op : Ops, key : Keys]

ASSUME TxnsAssumption == Txns \subseteq Nat \ {0} /\ IsFiniteSet(Txns)
ASSUME KeysAssumption == Keys \subseteq Nat /\ IsFiniteSet(Keys)
ASSUME ProgramsAssumption == Programs \in [Txns -> SUBSET Seq(Accesses)]
ASSUME PolicyAssumption ==
    /\ AccessModes \subseteq {"clean", "dirty"}
    /\ PieceEnds \subseteq BOOLEAN
    /\ UserAborts \in BOOLEAN
    /\ MaxRuns \in [Txns -> Nat] /\ MaxTick \in Nat \ {0}

(* The step number that stands for the end of the transaction.             *)
WAIT_DEP_COMMIT == 99
ASSUME WaitsAssumption == Waits \subseteq 1..WAIT_DEP_COMMIT

(* A transaction id is (core, per-core counter); <<0, 0>> stands for none. *)
NoTxn == 0
None == 0
NoTid == <<0, 0>>
Tids == (Txns \X Nat) \cup {NoTid}

(* A commit id, or version, is compared as one word: by its epoch, then by *)
(* its number, then by its core.  The number does not outgrow its field.   *)
MakeTid(core, num, epoch) == <<epoch, num, core>>
EpochId(a) == a[1]
NumId(a) == a[2]
CoreId(a) == a[3]
MIN_TID == MakeTid(NoTxn, 0, 0)
Below(a, b) ==
    EpochId(a) < EpochId(b) \/ (EpochId(a) = EpochId(b) /\ NumId(a) < NumId(b))
TidLeq(a, b) ==
    \/ Below(a, b)
    \/ EpochId(a) = EpochId(b) /\ NumId(a) = NumId(b) /\ CoreId(a) <= CoreId(b)

(* Records are loaded in the first tick, by transactions of another core.  *)
LoadTid == MakeTid(NoTxn, 2, 1)

(* A value is named by the write that produced it.                         *)
Values == [tid : Tids, ix : Nat]
Loaded == [tid |-> NoTid, ix |-> 0]

VARIABLES
    pc,       \* where the worker of the object is
    run,      \* the counter of the object's id
    state,    \* txn_state
    prog,     \* the accesses of the running transaction
    pos,      \* how many of them are done
    base,     \* pos when the last piece was exposed: the retry point
    step,     \* cur_step, the published progress
    rset,     \* read_set
    wset,     \* write_set
    rstart,   \* read_set_start
    wstart,   \* write_set_start
    deps,     \* the transactions in dep_queue
    dirty,    \* those whose dirty_read_dep flag is set
    vdeps,    \* the first dep_queue_start transactions of dep_queue
    todo,     \* those the running wait has still to see finished, and how far
    ix,       \* index of the running loop
    ctid,     \* commit_tid (and the core's last_commit_tid_)
    tick,     \* the global current_tick_ of the ticker
    region,   \* the tick of the RCU region a transaction runs in, or None
    epoch,    \* commit_epoch
    ret,      \* ret of gen_commit_tid: the greatest id it has met
    lock,     \* owner of each record's spin lock, or NoTxn
    intent,   \* HDR_WRITE_INTENT_MASK
    ver,      \* dbtuple::version
    seq,      \* last_txn_seq
    val,      \* the installed value
    list,     \* the access list of each record, head first
    hist,     \* history variable: the committed transactions
    chain     \* history variable: the values installed in each record

control == <<pc, run, state, prog, pos, base, step>>
sets == <<rset, wset, rstart, wstart>>
waiting == <<deps, dirty, vdeps, todo>>
record == <<ver, seq, val>>
clock == <<tick, region, epoch, ret>>
ghost == <<hist, chain>>
vars == <<control, sets, waiting, ix, ctid, clock, lock, intent, record, list,
          ghost>>

-----------------------------------------------------------------------------
(* Transaction ids, access lists, locks.                                   *)

Tid(t) == <<t, run[t]>>

(* Both hold of a transaction whose object has been reused.                *)
IsCommit(d) == run[d[1]] # d[2] \/ state[d[1]] = "COMMITED"
IsAbort(d) == run[d[1]] # d[2] \/ state[d[1]] = "ABRT"
FinishStep(d, s) == step[d[1]] > s

ReadEntry(t, i) == [tid |-> Tid(t), kind |-> "r", ix |-> i]
WriteEntry(t, i) == [tid |-> Tid(t), kind |-> "w", ix |-> i]

Linked(k, e) == \E j \in DOMAIN list[k] : list[k][j] = e
Unlink(l, e) ==
    LET At == {j \in DOMAIN l : l[j] = e} IN
    IF At = {} THEN l ELSE RemoveAt(l, CHOOSE j \in At : TRUE)

(* get_dependent_entry(false): the index of the latest write entry, or 0.  *)
WritesIn(k) == {j \in DOMAIN list[k] : list[k][j].kind = "w"}
LatestWrite(k) ==
    LET L == {j \in WritesIn(k) : \A i \in WritesIn(k) : i <= j} IN
    IF L = {} THEN 0 ELSE CHOOSE j \in L : TRUE

(* get_latest_dependent_entries: the tail if it is a write entry, else the *)
(* read entries after the latest write entry.                              *)
LatestDependents(k) ==
    LET n == Len(list[k]) IN
    IF LatestWrite(k) = n THEN {n} \ {0} ELSE (LatestWrite(k) + 1)..n

(* ic3_read: the value of the latest write entry, else the installed one.  *)
DirtyValue(k) ==
    IF LatestWrite(k) = 0 THEN val[k]
    ELSE LET e == list[k][LatestWrite(k)] IN [tid |-> e.tid, ix |-> e.ix]

Held(t) == {k \in Keys : lock[k] = t}
ReadKeys(t, from) == {rset[t][i].key : i \in from..Len(rset[t])}
WriteKeys(t, from) == {wset[t][i].key : i \in from..Len(wset[t])}
IsFirst(k, S) == k \in S /\ \A j \in S : k <= j

(* add_dep_txn for the foreign, uncommitted ones of a set of ids.          *)
Foreign(t, D) == {d \in D : ~IsCommit(d) /\ d[1] # t}

-----------------------------------------------------------------------------
(* Execution: before_access_operation, then one access, then the end of a  *)
(* piece if the policy says so.                                            *)

Goto(t, l) == pc' = [pc EXCEPT ![t] = l]

Init ==
    /\ pc = [t \in Txns |-> "idle"]
    /\ run = [t \in Txns |-> 0]
    /\ state = [t \in Txns |-> "COMMITED"]
    /\ prog = [t \in Txns |-> <<>>]
    /\ pos = [t \in Txns |-> 0]
    /\ base = [t \in Txns |-> 0]
    /\ step = [t \in Txns |-> 0]
    /\ rset = [t \in Txns |-> <<>>]
    /\ wset = [t \in Txns |-> <<>>]
    /\ rstart = [t \in Txns |-> 1]
    /\ wstart = [t \in Txns |-> 1]
    /\ deps = [t \in Txns |-> {}]
    /\ dirty = [t \in Txns |-> {}]
    /\ vdeps = [t \in Txns |-> {}]
    /\ todo = [t \in Txns |-> {}]
    /\ ix = [t \in Txns |-> 1]
    /\ ctid = [t \in Txns |-> MIN_TID]
    /\ tick = 1
    /\ region = [t \in Txns |-> None]
    /\ epoch = [t \in Txns |-> 0]
    /\ ret = [t \in Txns |-> MIN_TID]
    /\ lock = [k \in Keys |-> NoTxn]
    /\ intent = [k \in Keys |-> FALSE]
    /\ ver = [k \in Keys |-> LoadTid]
    /\ seq = [k \in Keys |-> 0]
    /\ val = [k \in Keys |-> Loaded]
    /\ list = [k \in Keys |-> <<>>]
    /\ hist = {}
    /\ chain = [k \in Keys |-> <<>>]

(* The constructors, run in an RCU region and in the memory of a finished  *)
(* transaction: that of transaction_base resets the state,                 *)
Begin(t) ==
    /\ pc[t] = "idle"
    /\ run[t] < MaxRuns[t]
    /\ \E p \in Programs[t] : prog' = [prog EXCEPT ![t] = p]
    /\ Goto(t, "ctor")
    /\ state' = [state EXCEPT ![t] = "ACTIVE"]
    /\ pos' = [pos EXCEPT ![t] = 0]
    /\ base' = [base EXCEPT ![t] = 0]
    /\ rset' = [rset EXCEPT ![t] = <<>>]
    /\ wset' = [wset EXCEPT ![t] = <<>>]
    /\ rstart' = [rstart EXCEPT ![t] = 1]
    /\ wstart' = [wstart EXCEPT ![t] = 1]
    /\ deps' = [deps EXCEPT ![t] = {}]
    /\ dirty' = [dirty EXCEPT ![t] = {}]
    /\ vdeps' = [vdeps EXCEPT ![t] = {}]
    /\ region' = [region EXCEPT ![t] = tick]
    /\ UNCHANGED <<run, step, todo, ix, ctid, tick, epoch, ret, lock, intent,
                    record, list, ghost>>

(* and only that of transaction changes the id and the step.               *)
NewTid(t) ==
    /\ pc[t] = "ctor"
    /\ Goto(t, "exec")
    /\ run' = [run EXCEPT ![t] = @ + 1]
    /\ step' = [step EXCEPT ![t] = 0]
    /\ UNCHANGED <<state, prog, pos, base, sets, waiting, ix, ctid, clock,
                    lock, intent, record, list, ghost>>

(* do_wait with agent_waitAccess, before an access or before a piece ends: *)
(* the policy names how far each dependency must be, if it is waited for.  *)
StartWait(t) ==
    \E D \in (SUBSET deps[t]) \ {{}} : \E w \in [D -> Waits] :
        /\ \/ pc[t] = "exec" /\ pos[t] < Len(prog[t]) /\ Goto(t, "wait")
              /\ step' = [step EXCEPT ![t] = pos[t] + 1]
           \/ pc[t] = "piece" /\ TRUE \in PieceEnds /\ Goto(t, "pwait")
              /\ UNCHANGED step
        /\ todo' = [todo EXCEPT ![t] = {<<d, w[d]>> : d \in D}]
        /\ UNCHANGED <<run, state, prog, pos, base, sets, deps, dirty, vdeps,
                        ix, ctid, clock, lock, intent, record, list, ghost>>

Finished(d, w) ==
    IsCommit(d) \/ IsAbort(d) \/ (w # WAIT_DEP_COMMIT /\ FinishStep(d, w))

(* A cascading abort: the value read was that of a transaction that failed.*)
Cascades(t, d, w) == w = WAIT_DEP_COMMIT /\ IsAbort(d) /\ d \in dirty[t]

(* One iteration of the loop over dep_queue that ends its spinning.        *)
WaitOne(t) ==
    /\ pc[t] \in {"wait", "pwait"}
    /\ \E x \in todo[t] :
        /\ Finished(x[1], x[2])
        /\ ~Cascades(t, x[1], x[2])
        /\ todo' = [todo EXCEPT ![t] = @ \ {x}]
    /\ UNCHANGED <<control, sets, deps, dirty, vdeps, ix, ctid, clock, lock,
                    intent, record, list, ghost>>

WaitEnd(t) ==
    /\ pc[t] \in {"wait", "pwait"}
    /\ todo[t] = {}
    /\ Goto(t, IF pc[t] = "wait" THEN "access" ELSE "elock")
    /\ UNCHANGED <<run, state, prog, pos, base, step, sets, waiting, ix, ctid,
                    clock, lock, intent, record, list, ghost>>

(* do_wait throws: on a timeout, or when a transaction whose uncommitted   *)
(* value was read has aborted.  The state is set before abort_impl runs.   *)
WaitThrow(t) ==
    /\ pc[t] \in {"wait", "pwait"}
    /\ \E x \in todo[t] : Finished(x[1], x[2]) => Cascades(t, x[1], x[2])
    /\ state' = [state EXCEPT ![t] = "ABRT"]
    /\ Goto(t, "aunlink")
    /\ UNCHANGED <<run, prog, pos, base, step, sets, waiting, ix, ctid, clock,
                    lock, intent, record, list, ghost>>

(* The state shared by the accesses: one is done, its piece may end.       *)
Accessing(t, op) ==
    /\ pc[t] \in {"exec", "access"}
    /\ pos[t] < Len(prog[t])
    /\ prog[t][pos[t] + 1].op = op
    /\ Goto(t, "piece")
    /\ pos' = [pos EXCEPT ![t] = @ + 1]
    /\ step' = [step EXCEPT ![t] = pos[t] + 1]
    /\ UNCHANGED <<run, state, prog, base, rstart, wstart, waiting, ix, ctid,
                    clock, lock, intent, record, list, ghost>>

NextKey(t) == prog[t][pos[t] + 1].key
WriteRecord(k) == [key |-> k, re |-> 0]
AddWrite(t) == wset' = [wset EXCEPT ![t] = Append(@, WriteRecord(NextKey(t)))]

(* do_tuple_read: a stable read of the installed version, which waits for  *)
(* a writer that holds the lock with write intent.                         *)
AddCleanRead(t) ==
    LET k == NextKey(t) IN
    /\ "clean" \in AccessModes
    /\ ~intent[k]
    /\ rset' = [rset EXCEPT ![t] = Append(@,
          [key |-> k, occ |-> TRUE, clean |-> ver[k], dep |-> NoTid,
           dseq |-> 0, val |-> val[k], ow |-> FALSE])]

(* The dirty branch of do_get and do_update, one critical section of the   *)
(* record's lock: it reads the latest exposed value and remembers whose.   *)
AddDirtyRead(t) ==
    LET k == NextKey(t)
        j == LatestWrite(k)
        foreign == j # 0 /\ list[k][j].tid[1] # t
    IN
    /\ "dirty" \in AccessModes
    /\ lock[k] = NoTxn
    /\ rset' = [rset EXCEPT ![t] = Append(@,
          [key |-> k, occ |-> FALSE, clean |-> ver[k],
           dep |-> IF foreign THEN list[k][j].tid ELSE NoTid,
           dseq |-> IF foreign THEN list[k][j].ix ELSE 0,
           val |-> DirtyValue(k), ow |-> FALSE])]

Get(t) ==
    /\ Accessing(t, "get")
    /\ AddCleanRead(t) \/ AddDirtyRead(t)
    /\ UNCHANGED wset

Put(t) ==
    /\ Accessing(t, "put")
    /\ AddWrite(t)
    /\ UNCHANGED rset

Update(t) ==
    /\ Accessing(t, "update")
    /\ AddCleanRead(t) \/ AddDirtyRead(t)
    /\ AddWrite(t)

(* After the access: go on, or call expose_uncommitted.                    *)
NoPieceEnd(t) ==
    /\ pc[t] = "piece"
    /\ FALSE \in PieceEnds
    /\ Goto(t, "exec")
    /\ UNCHANGED <<run, state, prog, pos, base, step, sets, waiting, ix, ctid,
                    clock, lock, intent, record, list, ghost>>

PieceEnd(t) ==
    /\ pc[t] = "piece"
    /\ TRUE \in PieceEnds
    /\ Goto(t, "elock")
    /\ UNCHANGED <<run, state, prog, pos, base, step, sets, waiting, ix, ctid,
                    clock, lock, intent, record, list, ghost>>

(* The application rolls back (abort_txn).                                 *)
UserAbort(t) ==
    /\ UserAborts
    /\ pc[t] = "exec"
    /\ Goto(t, "aunlink")
    /\ UNCHANGED <<run, state, prog, pos, base, step, sets, waiting, ix, ctid,
                    clock, lock, intent, record, list, ghost>>

-----------------------------------------------------------------------------
(* expose_uncommitted: lock the records of the piece in address order,     *)
(* validate and link its reads, link its writes, unlock.                   *)

PieceKeys(t) == ReadKeys(t, rstart[t]) \cup WriteKeys(t, wstart[t])

ExposeLock(t) ==
    /\ pc[t] = "elock"
    /\ \E k \in Keys :
        /\ IsFirst(k, PieceKeys(t) \ Held(t))
        /\ lock[k] = NoTxn
        /\ lock' = [lock EXCEPT ![k] = t]
    /\ UNCHANGED <<control, sets, waiting, ix, ctid, clock, intent, record,
                    list, ghost>>

(* read_set_find: the first read of the record, 0 if there is none.        *)
FirstRead(t, k) ==
    LET F == {i \in DOMAIN rset[t] :
                rset[t][i].key = k /\ \A j \in 1..(i - 1) : rset[t][j].key # k}
    IN IF F = {} THEN 0 ELSE CHOOSE i \in F : TRUE

(* check_rmw for every write of the piece.                                 *)
CheckRmw(t) ==
    /\ pc[t] = "elock"
    /\ PieceKeys(t) \subseteq Held(t)
    /\ wset' = [wset EXCEPT ![t] = [i \in DOMAIN @ |->
          IF i < wstart[t] THEN @[i]
          ELSE [@[i] EXCEPT !.re = FirstRead(t, wset[t][i].key)]]]
    /\ rset' = [rset EXCEPT ![t] = [i \in DOMAIN @ |->
          IF \E j \in wstart[t]..Len(wset[t]) : FirstRead(t, wset[t][j].key) = i
          THEN [@[i] EXCEPT !.ow = TRUE] ELSE @[i]]]
    /\ ix' = [ix EXCEPT ![t] = rstart[t]]
    /\ Goto(t, "eread")
    /\ UNCHANGED <<run, state, prog, pos, base, step, rstart, wstart, waiting,
                    ctid, clock, lock, intent, record, list, ghost>>

(* The early validation of do_expose_ic3_action, record locked.            *)
EarlyValid(t, r) ==
    LET j == LatestWrite(r.key)
        de == list[r.key][j]
        same == ctid[r.dep[1]] = ver[r.key]
    IN
    CASE r.occ ->
            TidLeq(ver[r.key], r.clean)
      [] ~r.occ /\ r.dep = NoTid ->
            /\ TidLeq(ver[r.key], r.clean)
            /\ \A i \in WritesIn(r.key) : list[r.key][i].tid = Tid(t)
      [] ~r.occ /\ r.dep # NoTid ->
            /\ ~IsAbort(r.dep)
            /\ IF j = 0 THEN same
               ELSE ~IsCommit(r.dep) /\ de.tid = r.dep /\ de.ix = r.dseq

(* The dependency a dirty read takes on the latest writer.                 *)
ReadDeps(t, k) ==
    IF LatestWrite(k) = 0 THEN {} ELSE Foreign(t, {list[k][LatestWrite(k)].tid})

ExposeRead(t) ==
    /\ pc[t] = "eread"
    /\ ix[t] <= Len(rset[t])
    /\ LET r == rset[t][ix[t]] IN
        /\ EarlyValid(t, r)
        /\ IF r.occ THEN UNCHANGED <<deps, dirty>>
           ELSE /\ deps' = [deps EXCEPT ![t] = @ \cup ReadDeps(t, r.key)]
                /\ dirty' = [dirty EXCEPT ![t] = @ \cup ReadDeps(t, r.key)]
        /\ IF r.occ \/ r.ow THEN UNCHANGED list
           ELSE list' = [list EXCEPT ![r.key] = Append(@, ReadEntry(t, ix[t]))]
    /\ ix' = [ix EXCEPT ![t] = @ + 1]
    /\ UNCHANGED <<control, sets, vdeps, todo, ctid, clock, lock, intent,
                    record, ghost>>

ReadsExposed(t) ==
    /\ pc[t] = "eread"
    /\ ix[t] > Len(rset[t])
    /\ ix' = [ix EXCEPT ![t] = wstart[t]]
    /\ Goto(t, "ewrite")
    /\ UNCHANGED <<run, state, prog, pos, base, step, sets, waiting, ctid,
                    clock, lock, intent, record, list, ghost>>

ExposeWrite(t) ==
    /\ pc[t] = "ewrite"
    /\ ix[t] <= Len(wset[t])
    /\ LET k == wset[t][ix[t]].key
           D == Foreign(t, {list[k][j].tid : j \in LatestDependents(k)})
       IN /\ deps' = [deps EXCEPT ![t] = @ \cup D]
          /\ list' = [list EXCEPT ![k] = Append(@, WriteEntry(t, ix[t]))]
    /\ ix' = [ix EXCEPT ![t] = @ + 1]
    /\ UNCHANGED <<control, sets, dirty, vdeps, todo, ctid, clock, lock,
                    intent, record, ghost>>

ReleaseAll(t) ==
    /\ lock' = [k \in Keys |-> IF lock[k] = t THEN NoTxn ELSE lock[k]]
    /\ intent' = [k \in Keys |-> intent[k] /\ lock[k] # t]

(* The piece is exposed: it will not be retried.                           *)
ExposeDone(t) ==
    /\ pc[t] = "ewrite"
    /\ ix[t] > Len(wset[t])
    /\ ReleaseAll(t)
    /\ rstart' = [rstart EXCEPT ![t] = Len(rset[t]) + 1]
    /\ wstart' = [wstart EXCEPT ![t] = Len(wset[t]) + 1]
    /\ vdeps' = [vdeps EXCEPT ![t] = deps[t]]
    /\ base' = [base EXCEPT ![t] = pos[t]]
    /\ Goto(t, "exec")
    /\ UNCHANGED <<run, state, prog, pos, step, rset, wset, deps, dirty, todo,
                    ix, ctid, clock, record, list, ghost>>

(* Mutant: the records stay locked during the rollback.                    *)
ExposeFailLocked(t) ==
    /\ pc[t] = "eread"
    /\ ix[t] <= Len(rset[t])
    /\ ~EarlyValid(t, rset[t][ix[t]])
    /\ Goto(t, "undo")
    /\ UNCHANGED <<run, state, prog, pos, base, step, sets, waiting, ix, ctid,
                    clock, lock, intent, record, list, ghost>>

(* A read failed its early validation: the rest of the piece is not linked.*)
ExposeFail(t) ==
    /\ pc[t] = "eread"
    /\ ix[t] <= Len(rset[t])
    /\ ~EarlyValid(t, rset[t][ix[t]])
    /\ ReleaseAll(t)
    /\ Goto(t, "undo")
    /\ UNCHANGED <<run, state, prog, pos, base, step, sets, waiting, ix, ctid,
                    clock, record, list, ghost>>

(* The rollback unlinks what the piece has linked, one record at a time,   *)
UndoOne(t) ==
    /\ pc[t] = "undo"
    /\ \E i \in rstart[t]..Len(rset[t]) :
        LET k == rset[t][i].key IN
        /\ Linked(k, ReadEntry(t, i))
        /\ lock[k] = NoTxn
        /\ list' = [list EXCEPT ![k] = Unlink(@, ReadEntry(t, i))]
    /\ UNCHANGED <<control, sets, waiting, ix, ctid, clock, lock, intent,
                    record, ghost>>

LinkedReads(t, from) ==
    {i \in from..Len(rset[t]) : Linked(rset[t][i].key, ReadEntry(t, i))}
LinkedWrites(t) ==
    {i \in DOMAIN wset[t] : Linked(wset[t][i].key, WriteEntry(t, i))}

(* Mutant: one read too many is dropped.                                   *)
RetryPieceShort(t) ==
    /\ pc[t] = "undo"
    /\ LinkedReads(t, rstart[t]) = {}
    /\ rset' = [rset EXCEPT ![t] = SubSeq(@, 1, rstart[t] - 2)]
    /\ wset' = [wset EXCEPT ![t] = SubSeq(@, 1, wstart[t] - 1)]
    /\ deps' = [deps EXCEPT ![t] = vdeps[t]]
    /\ dirty' = [dirty EXCEPT ![t] = @ \cap vdeps[t]]
    /\ pos' = [pos EXCEPT ![t] = base[t]]
    /\ Goto(t, "exec")
    /\ UNCHANGED <<run, state, prog, base, step, rstart, wstart, vdeps, todo,
                    ix, ctid, clock, lock, intent, record, list, ghost>>

(* then shrinks the sets and runs the piece again.                         *)
RetryPiece(t) ==
    /\ pc[t] = "undo"
    /\ LinkedReads(t, rstart[t]) = {}
    /\ rset' = [rset EXCEPT ![t] = SubSeq(@, 1, rstart[t] - 1)]
    /\ wset' = [wset EXCEPT ![t] = SubSeq(@, 1, wstart[t] - 1)]
    /\ deps' = [deps EXCEPT ![t] = vdeps[t]]
    /\ dirty' = [dirty EXCEPT ![t] = @ \cap vdeps[t]]
    /\ pos' = [pos EXCEPT ![t] = base[t]]
    /\ Goto(t, "exec")
    /\ UNCHANGED <<run, state, prog, base, step, rstart, wstart, vdeps, todo,
                    ix, ctid, clock, lock, intent, record, list, ghost>>

-----------------------------------------------------------------------------
(* commit: wait, lock the write set, validate the read set, install.       *)

(* The dirty reads of the unexposed piece join dep_queue.                  *)
StartCommit(t) ==
    /\ pc[t] = "exec"
    /\ pos[t] = Len(prog[t])
    /\ LET D == UNION {ReadDeps(t, rset[t][i].key) :
                    i \in {i \in rstart[t]..Len(rset[t]) : ~rset[t][i].occ}}
       IN /\ deps' = [deps EXCEPT ![t] = @ \cup D]
          /\ dirty' = [dirty EXCEPT ![t] = @ \cup D]
          /\ todo' = [todo EXCEPT ![t] = (deps[t] \cup D) \X {WAIT_DEP_COMMIT}]
    /\ Goto(t, "cwait")
    /\ UNCHANGED <<run, state, prog, pos, base, step, sets, vdeps, ix, ctid,
                    clock, lock, intent, record, list, ghost>>

(* Phase 1 waits for every transaction in dep_queue to finish.             *)
CommitWaitOne(t) ==
    /\ pc[t] = "cwait"
    /\ \E x \in todo[t] :
        /\ Finished(x[1], x[2])
        /\ ~Cascades(t, x[1], x[2])
        /\ todo' = [todo EXCEPT ![t] = @ \ {x}]
    /\ UNCHANGED <<control, sets, deps, dirty, vdeps, ix, ctid, clock, lock,
                    intent, record, list, ghost>>

(* Mutant: no timeout.                                                     *)
CommitWaitFailCascades(t) ==
    /\ pc[t] = "cwait"
    /\ \E x \in todo[t] : Finished(x[1], x[2]) /\ Cascades(t, x[1], x[2])
    /\ Goto(t, "aunlink")
    /\ UNCHANGED <<run, state, prog, pos, base, step, sets, waiting, ix, ctid,
                    clock, lock, intent, record, list, ghost>>

(* It gives up on a timeout or on a cascading abort.                       *)
CommitWaitFail(t) ==
    /\ pc[t] = "cwait"
    /\ \E x \in todo[t] : Finished(x[1], x[2]) => Cascades(t, x[1], x[2])
    /\ Goto(t, "aunlink")
    /\ UNCHANGED <<run, state, prog, pos, base, step, sets, waiting, ix, ctid,
                    clock, lock, intent, record, list, ghost>>

CommitWaitEnd(t) ==
    /\ pc[t] = "cwait"
    /\ todo[t] = {}
    /\ state' = [state EXCEPT ![t] = "FINISH_EXEC"]
    /\ Goto(t, "clock")
    /\ UNCHANGED <<run, prog, pos, base, step, sets, waiting, ix, ctid, clock,
                    lock, intent, record, list, ghost>>

(* Phase 2 takes the write set's locks in address order, with intent.      *)
LockWrite(t) ==
    /\ pc[t] = "clock"
    /\ \E k \in Keys :
        /\ IsFirst(k, WriteKeys(t, 1) \ Held(t))
        /\ lock[k] = NoTxn
        /\ lock' = [lock EXCEPT ![k] = t]
        /\ intent' = [intent EXCEPT ![k] = TRUE]
    /\ UNCHANGED <<control, sets, waiting, ix, ctid, clock, record, list,
                    ghost>>

WritesLocked(t) ==
    /\ pc[t] = "clock"
    /\ WriteKeys(t, 1) \subseteq Held(t)
    /\ ix' = [ix EXCEPT ![t] = 1]
    /\ Goto(t, "validate")
    /\ UNCHANGED <<run, state, prog, pos, base, step, sets, waiting, ctid,
                    clock, lock, intent, record, list, ghost>>

(* Phase 3, one read at a time.  A read of an installed version: the       *)
(* version has not moved on, and nobody else is about to move it.          *)
Current(t) == rset[t][ix[t]]
Mine(t, k) == k \in WriteKeys(t, 1)
IsClean(r) == r.occ \/ r.dep = NoTid
CleanValidNoIntent(t, r) == TidLeq(ver[r.key], r.clean)  \* mutant
CleanValid(t, r) ==
    /\ Mine(t, r.key) \/ ~intent[r.key]
    /\ TidLeq(ver[r.key], r.clean)

ValidateClean(t) ==
    /\ pc[t] = "validate"
    /\ ix[t] <= Len(rset[t])
    /\ IsClean(Current(t))
    /\ CleanValid(t, Current(t))
    /\ ix' = [ix EXCEPT ![t] = @ + 1]
    /\ UNCHANGED <<control, sets, waiting, ctid, clock, lock, intent, record,
                    list, ghost>>

(* Mutants: the sequence number, the identity of the transaction is not    *)
(* looked at.                                                              *)
DirtyTestNoSeq(t, at) ==
    LET r == Current(t) IN
    CASE at = "validate" -> IsCommit(r.dep) /\ run[r.dep[1]] = r.dep[2]
      [] at = "vver" -> ctid[r.dep[1]] = ver[r.key]
      [] at = "vseq" -> TRUE
      [] at = "vint" -> Mine(t, r.key) \/ ~intent[r.key]
DirtyTestNoRun(t, at) ==
    LET r == Current(t) IN
    CASE at = "validate" -> state[r.dep[1]] = "COMMITED"
      [] at = "vver" -> ctid[r.dep[1]] = ver[r.key]
      [] at = "vseq" -> seq[r.key] = r.dseq
      [] at = "vint" -> Mine(t, r.key) \/ ~intent[r.key]

(* A read of an uncommitted version: its writer has committed, the         *)
(* installed version is the writer's, it is the write that was read, and   *)
(* no other transaction intends to write.  The code loads these from       *)
(* memory one after the other, and so does the model.                      *)
DirtyTest(t, at) ==
    LET r == Current(t) IN
    CASE at = "validate" -> IsCommit(r.dep) /\ run[r.dep[1]] = r.dep[2]
      [] at = "vver" -> ctid[r.dep[1]] = ver[r.key]
      [] at = "vseq" -> seq[r.key] = r.dseq
      [] at = "vint" -> Mine(t, r.key) \/ ~intent[r.key]

NextTest(at) ==
    CASE at = "validate" -> "vver" [] at = "vver" -> "vseq"
      [] at = "vseq" -> "vint" [] at = "vint" -> "validate"

DirtyTesting(t) ==
    /\ pc[t] \in {"validate", "vver", "vseq", "vint"}
    /\ ix[t] <= Len(rset[t])
    /\ ~IsClean(Current(t))

ValidateDirty(t) ==
    /\ DirtyTesting(t)
    /\ DirtyTest(t, pc[t])
    /\ Goto(t, NextTest(pc[t]))
    /\ ix' = [ix EXCEPT ![t] = IF pc[t] = "vint" THEN @ + 1 ELSE @]
    /\ UNCHANGED <<run, state, prog, pos, base, step, sets, waiting, ctid,
                    clock, lock, intent, record, list, ghost>>

ValidateFail(t) ==
    /\ \/ /\ pc[t] = "validate"
          /\ ix[t] <= Len(rset[t])
          /\ IsClean(Current(t))
          /\ ~CleanValid(t, Current(t))
       \/ DirtyTesting(t) /\ ~DirtyTest(t, pc[t])
    /\ Goto(t, "aunlock")
    /\ UNCHANGED <<run, state, prog, pos, base, step, sets, waiting, ix, ctid,
                    clock, lock, intent, record, list, ghost>>

(* Phase 4 begins with gen_commit_tid: the commit epoch is the tick of now,*)
(* and ret starts from the core's last id, or, in a new epoch, from zero.  *)
Validated(t) ==
    /\ pc[t] = "validate"
    /\ ix[t] > Len(rset[t])
    /\ IF wset[t] = <<>> THEN Goto(t, "install") /\ UNCHANGED <<epoch, ret>>
       ELSE /\ Goto(t, "gen")
            /\ epoch' = [epoch EXCEPT ![t] = tick]
            /\ ret' = [ret EXCEPT ![t] = IF EpochId(ctid[t]) = tick THEN ctid[t]
                                         ELSE MakeTid(NoTxn, 0, tick)]
    /\ ix' = [ix EXCEPT ![t] = 1]
    /\ UNCHANGED <<run, state, prog, pos, base, step, sets, waiting, ctid, tick,
                    region, lock, intent, record, list, ghost>>

(* It is raised to the version of each read: the one that was read, or, of *)
(* a dirty read, the one the record has by now; nobody locks that record.  *)
SeenTid(r) == IF IsClean(r) THEN r.clean ELSE ver[r.key]
Later(a, b) == IF TidLeq(a, b) THEN b ELSE a

GenRead(t) ==
    /\ pc[t] = "gen"
    /\ ix[t] <= Len(rset[t])
    /\ ret' = [ret EXCEPT ![t] = Later(@, SeenTid(Current(t)))]
    /\ ix' = [ix EXCEPT ![t] = @ + 1]
    /\ UNCHANGED <<control, sets, waiting, ctid, tick, region, epoch, lock,
                    intent, record, list, ghost>>

(* Then to the versions of the write set, which is locked; the id has the  *)
(* number after ret's, and the commit epoch.                               *)
SeedsRead(t) == {ret[t]}  \* mutant
Seeds(t) == {ret[t]} \cup {ver[k] : k \in WriteKeys(t, 1)}

DrawTid(t, r) ==
    /\ pc[t] = "gen"
    /\ ix[t] > Len(rset[t])
    /\ \A d \in Seeds(t) : TidLeq(d, r)
    /\ ret' = [ret EXCEPT ![t] = r]
    /\ ctid' = [ctid EXCEPT ![t] = MakeTid(t, NumId(r) + 1, epoch[t])]
    /\ ix' = [ix EXCEPT ![t] = 1]
    /\ Goto(t, "install")
    /\ UNCHANGED <<run, state, prog, pos, base, step, sets, waiting, tick,
                    region, epoch, lock, intent, record, list, ghost>>

(* ret is of the commit epoch, as an INVARIANT of the code has it, unless a*)
(* dirty read has met a version of a later tick.  The INVARIANT is compiled*)
(* out, and the id drawn may be below versions of its own epoch.           *)
Overtaken(t) == EpochId(ret[t]) # epoch[t]
GenCommitTid(t) ==
    \E r \in Seeds(t) : EpochId(r) = epoch[t] /\ DrawTid(t, r)
GenCommitTidOvertaken(t) ==
    \E r \in Seeds(t) : EpochId(r) # epoch[t] /\ DrawTid(t, r)

(* Only the last write of a record is installed (do_write).                *)
DoWrite(t, i) ==
    \A j \in DOMAIN wset[t] : wset[t][j].key = wset[t][i].key => j <= i

UnlinkWrite(t, i, l) ==
    LET w == wset[t][i] IN
    Unlink(Unlink(l, WriteEntry(t, i)), ReadEntry(t, w.re))

SkipWrite(t) ==
    /\ pc[t] = "install"
    /\ ix[t] <= Len(wset[t])
    /\ ~DoWrite(t, ix[t])
    /\ list' = [list EXCEPT ![wset[t][ix[t]].key] = UnlinkWrite(t, ix[t], @)]
    /\ ix' = [ix EXCEPT ![t] = @ + 1]
    /\ UNCHANGED <<control, sets, waiting, ctid, clock, lock, intent, record,
                    ghost>>

(* write_record_at,                                                        *)
InstallWrite(t) ==
    /\ pc[t] = "install"
    /\ ix[t] <= Len(wset[t])
    /\ DoWrite(t, ix[t])
    /\ LET k == wset[t][ix[t]].key IN
        /\ ver' = [ver EXCEPT ![k] = ctid[t]]
        /\ val' = [val EXCEPT ![k] = [tid |-> Tid(t), ix |-> ix[t]]]
        /\ chain' = [chain EXCEPT ![k] = Append(@, val'[k])]
    /\ Goto(t, "release")
    /\ UNCHANGED <<run, state, prog, pos, base, step, sets, waiting, ix, ctid,
                    clock, lock, intent, seq, list, hist>>

(* then set_last_writer_seq, unlinking and unlocking.                      *)
ReleaseWrite(t) ==
    /\ pc[t] = "release"
    /\ ix[t] <= Len(wset[t])
    /\ LET k == wset[t][ix[t]].key IN
        /\ seq' = [seq EXCEPT ![k] = ix[t]]
        /\ list' = [list EXCEPT ![k] = UnlinkWrite(t, ix[t], @)]
        /\ lock' = [lock EXCEPT ![k] = NoTxn]
        /\ intent' = [intent EXCEPT ![k] = FALSE]
    /\ ix' = [ix EXCEPT ![t] = @ + 1]
    /\ Goto(t, "install")
    /\ UNCHANGED <<run, state, prog, pos, base, step, sets, waiting, ctid,
                    clock, ver, val, ghost>>

Installed(t) ==
    /\ pc[t] = "install"
    /\ ix[t] > Len(wset[t])
    /\ Goto(t, "cleanup")
    /\ UNCHANGED <<run, state, prog, pos, base, step, sets, waiting, ix, ctid,
                    clock, lock, intent, record, list, ghost>>

(* Phase 5 unlinks the read entries, one record at a time.  The abort path *)
(* does the same after its write entries.                                  *)
UnlinkRead(t) ==
    /\ pc[t] \in {"cleanup", "aunlink"}
    /\ pc[t] = "aunlink" => LinkedWrites(t) = {}
    /\ \E i \in LinkedReads(t, 1) :
        LET k == rset[t][i].key IN
        /\ lock[k] = NoTxn
        /\ list' = [list EXCEPT ![k] = Unlink(@, ReadEntry(t, i))]
    /\ UNCHANGED <<control, sets, waiting, ix, ctid, clock, lock, intent,
                    record, ghost>>

LeaveRegion(t) == region' = [region EXCEPT ![t] = None]

Reads(t) ==
    {[key |-> rset[t][i].key, val |-> rset[t][i].val] : i \in DOMAIN rset[t]}

Finish(t) ==
    /\ pc[t] = "cleanup"
    /\ LinkedReads(t, 1) = {}
    /\ state' = [state EXCEPT ![t] = "COMMITED"]
    /\ hist' = hist \cup {[tid |-> Tid(t), reads |-> Reads(t)]}
    /\ Goto(t, "idle")
    /\ LeaveRegion(t) /\ ret' = [ret EXCEPT ![t] = MIN_TID]
    /\ UNCHANGED <<run, prog, pos, base, step, sets, waiting, ix, ctid, tick,
                    epoch, lock, intent, record, list, chain>>

-----------------------------------------------------------------------------
(* chamcc_abort_impl: unlock, unlink every entry, then set the state.      *)

AbortUnlock(t) ==
    /\ pc[t] = "aunlock"
    /\ ReleaseAll(t)
    /\ Goto(t, "aunlink")
    /\ UNCHANGED <<run, state, prog, pos, base, step, sets, waiting, ix, ctid,
                    clock, record, list, ghost>>

AbortUnlinkWrite(t) ==
    /\ pc[t] = "aunlink"
    /\ \E i \in LinkedWrites(t) :
        LET k == wset[t][i].key IN
        /\ lock[k] = NoTxn
        /\ list' = [list EXCEPT ![k] = UnlinkWrite(t, i, @)]
    /\ UNCHANGED <<control, sets, waiting, ix, ctid, clock, lock, intent,
                    record, ghost>>

(* Mutant: the read entries are left behind.                               *)
AbortedEarly(t) ==
    /\ pc[t] = "aunlink"
    /\ LinkedWrites(t) = {}
    /\ state' = [state EXCEPT ![t] = "ABRT"]
    /\ Goto(t, "idle")
    /\ LeaveRegion(t)
    /\ UNCHANGED <<run, prog, pos, base, step, sets, waiting, ix, ctid, tick,
                    epoch, ret, lock, intent, record, list, ghost>>

Aborted(t) ==
    /\ pc[t] = "aunlink"
    /\ LinkedWrites(t) = {} /\ LinkedReads(t, 1) = {}
    /\ state' = [state EXCEPT ![t] = "ABRT"]
    /\ Goto(t, "idle")
    /\ LeaveRegion(t)
    /\ UNCHANGED <<run, prog, pos, base, step, sets, waiting, ix, ctid, tick,
                    epoch, ret, lock, intent, record, list, ghost>>

-----------------------------------------------------------------------------
Execute(t) ==
    \/ NewTid(t) \/ StartWait(t) \/ WaitOne(t) \/ WaitEnd(t) \/ WaitThrow(t)
    \/ Get(t) \/ Put(t) \/ Update(t)
    \/ NoPieceEnd(t) \/ PieceEnd(t) \/ UserAbort(t)

Expose(t) ==
    \/ ExposeLock(t) \/ CheckRmw(t) \/ ExposeRead(t) \/ ReadsExposed(t)
    \/ ExposeWrite(t) \/ ExposeDone(t) \/ ExposeFail(t)
    \/ UndoOne(t) \/ RetryPiece(t)

Commit(t) ==
    \/ StartCommit(t)
    \/ CommitWaitOne(t) \/ CommitWaitFail(t) \/ CommitWaitEnd(t)
    \/ LockWrite(t) \/ WritesLocked(t)
    \/ ValidateClean(t) \/ ValidateDirty(t) \/ ValidateFail(t) \/ Validated(t)
    \/ GenRead(t) \/ GenCommitTid(t) \/ GenCommitTidOvertaken(t)
    \/ SkipWrite(t) \/ InstallWrite(t) \/ ReleaseWrite(t) \/ Installed(t)
    \/ UnlinkRead(t) \/ Finish(t)

Abort(t) == AbortUnlock(t) \/ AbortUnlinkWrite(t) \/ Aborted(t)

(* The ticker moves on when no transaction is left in an earlier tick: what*)
(* Epochs promises, in one step (see Ticker).                              *)
Tick ==
    /\ tick < MaxTick
    /\ \A t \in Txns : region[t] \in {None, tick}
    /\ tick' = tick + 1
    /\ UNCHANGED <<control, sets, waiting, ix, ctid, region, epoch, ret, lock,
                    intent, record, list, ghost>>

(* Every worker has used up its bound.                                     *)
Stop ==
    /\ \A t \in Txns : pc[t] = "idle" /\ run[t] = MaxRuns[t]
    /\ UNCHANGED vars

Next ==
    \/ \E t \in Txns :
          Begin(t) \/ Execute(t) \/ Expose(t) \/ Commit(t) \/ Abort(t)
    \/ Tick \/ Stop

Spec == Init /\ [][Next]_vars

(* The fairness of the workers.  Each is a thread that keeps running its   *)
(* transaction (starting another is up to the benchmark); a spin lock that *)
(* is free again and again is acquired eventually, and the 100 ms timeout  *)
(* ends a wait whose transaction does not finish.                          *)
Running(t) == Execute(t) \/ Expose(t) \/ Commit(t) \/ Abort(t)
Locking(t) ==
    \/ Get(t) \/ Update(t) \/ ExposeLock(t) \/ UndoOne(t) \/ LockWrite(t)
    \/ UnlinkRead(t) \/ AbortUnlinkWrite(t)
FairSpec == Spec /\ \A t \in Txns : WF_vars(Running(t)) /\ SF_vars(Locking(t))

-----------------------------------------------------------------------------
(* Properties.                                                             *)

(* The types of the state.                                                 *)
CommitTids == Nat \X Nat \X (Txns \cup {NoTxn})
RunTids == Txns \X Nat
ReadRecords == [key : Keys, occ : BOOLEAN, clean : CommitTids, dep : Tids,
                dseq : Nat, val : Values, ow : BOOLEAN]
WriteRecords == [key : Keys, re : Nat]
Entries == [tid : RunTids, kind : {"r", "w"}, ix : Nat]
States == {"ACTIVE", "FINISH_EXEC", "COMMITED", "ABRT"}
Pcs == {"idle", "ctor", "exec", "wait", "access", "piece", "pwait", "elock",
        "eread", "ewrite", "undo", "cwait", "clock", "validate", "vver", "vseq",
        "vint", "gen", "install", "release", "cleanup", "aunlock", "aunlink"}
PieceInSets(t) == rstart[t] <= Len(rset[t]) + 1 /\ wstart[t] <= Len(wset[t]) + 1
TypeOK ==
    /\ pc \in [Txns -> Pcs]
    /\ run \in [Txns -> Nat]
    /\ state \in [Txns -> States]
    /\ prog \in [Txns -> Seq(Accesses)]
    /\ pos \in [Txns -> Nat] /\ base \in [Txns -> Nat] /\ step \in [Txns -> Nat]
    /\ rset \in [Txns -> Seq(ReadRecords)]
    /\ wset \in [Txns -> Seq(WriteRecords)]
    /\ rstart \in [Txns -> Nat \ {0}] /\ wstart \in [Txns -> Nat \ {0}]
    /\ \A t \in Txns : PieceInSets(t)
    /\ deps \in [Txns -> SUBSET RunTids] /\ dirty \in [Txns -> SUBSET RunTids]
    /\ vdeps \in [Txns -> SUBSET RunTids]
    /\ todo \in [Txns -> SUBSET (RunTids \X Nat)]
    /\ ix \in [Txns -> Nat \ {0}]
    /\ ctid \in [Txns -> CommitTids] /\ ret \in [Txns -> CommitTids]
    /\ tick \in Nat /\ region \in [Txns -> Nat] /\ epoch \in [Txns -> Nat]
    /\ lock \in [Keys -> Txns \cup {NoTxn}] /\ intent \in [Keys -> BOOLEAN]
    /\ ver \in [Keys -> CommitTids] /\ seq \in [Keys -> Nat]
    /\ val \in [Keys -> Values]
    /\ list \in [Keys -> Seq(Entries)]

INSTANCE History

(* The committed transactions are equivalent to some serial execution of   *)
(* them: what a serializable interface promises (txn_btree.h, abstract).   *)
Serializable == IsSerializable(hist, chain, NoTid)

(* A transaction that is past its validation will commit.                  *)
Decided(d) ==
    \/ \E h \in hist : h.tid = d
    \/ /\ d[1] \in Txns /\ d = Tid(d[1])
       /\ pc[d[1]] \in {"gen", "install", "release", "cleanup"}

(* Whoever installs or has committed has read nothing but loaded values,   *)
(* values of its own, and values of transactions that commit: none of one  *)
(* that aborts, retries in the same object, or may still abort, although   *)
(* dirty reads see all of these.                                           *)
ReadsRecoverable ==
    /\ \A h \in hist : \A r \in h.reads :
          r.val.tid \in {h.tid, NoTid} \/ Decided(r.val.tid)
    /\ \A t \in Txns : pc[t] \in {"gen", "install", "release", "cleanup"} =>
          \A r \in Reads(t) : r.val.tid \in {Tid(t), NoTid} \/ Decided(r.val.tid)

(* The tests of a dirty read are the right ones: if all held at the same   *)
(* moment, the value read is the one installed, whatever became of its     *)
(* writer, of its object and of the record in between (txn_impl.h:1060).   *)
(* What is wrong with them is only that they are made one after the other  *)
(* (see Serializable with three transactions).                             *)
Tests == {"validate", "vver", "vseq", "vint"}
TestsSuffice ==
    \A t \in Txns :
        /\ pc[t] \in Tests /\ ix[t] <= Len(rset[t]) /\ ~IsClean(Current(t))
        /\ \A at \in Tests : DirtyTest(t, at)
        => Current(t).val = val[Current(t).key]

(* An access list names only running transactions, and only by the entries *)
(* of their current sets: whoever finds an entry may follow it to a live   *)
(* transaction object (entries are recycled when the transaction ends).    *)
NoDanglingEntries ==
    \A k \in Keys : \A j \in DOMAIN list[k] :
        LET e == list[k][j]
            t == e.tid[1]
        IN /\ e.tid = Tid(t) /\ pc[t] \notin {"idle", "ctor"}
           /\ IF e.kind = "r"
              THEN e.ix \in DOMAIN rset[t] /\ rset[t][e.ix].key = k
              ELSE e.ix \in DOMAIN wset[t] /\ wset[t][e.ix].key = k
           /\ \A i \in DOMAIN list[k] : list[k][i] = e => i = j

(* A lock is held only by a transaction that is exposing or committing, a  *)
(* write intent only by one that is committing and writes the record:      *)
(* nobody waits for a transaction, or ends, with a record locked.          *)
LockDiscipline ==
    \A k \in Keys :
        /\ intent[k] => lock[k] # NoTxn
        /\ lock[k] # NoTxn =>
            LET t == lock[k] IN
            IF intent[k]
            THEN /\ pc[t] \in {"clock", "validate", "vver", "vseq", "vint",
                               "gen", "install", "release", "aunlock"}
                 /\ k \in WriteKeys(t, 1)
            ELSE pc[t] \in {"elock", "eread", "ewrite"} /\ k \in PieceKeys(t)

(* A value is replaced only under its record's lock and write intent, and  *)
(* never by a version of an earlier epoch.  The new version is greater than*)
(* the old: so the order of commit ids is the order of installs, and a     *)
(* version, which clean validation trusts, never comes back.  The exception*)
(* is a writer that has dirty reads and was overtaken by a tick between the*)
(* two loads of gen_commit_tid (txn_ic3_impl.h:980 and :1014).             *)
VersionsIncrease ==
    [][\A k \in Keys : <<ver[k], val[k]>>' # <<ver[k], val[k]>> =>
          LET t == lock[k] IN
          /\ t # NoTxn /\ intent[k]
          /\ EpochId(ver[k]) <= EpochId(ver'[k])
          /\ \/ ~TidLeq(ver'[k], ver[k])
             \/ /\ Overtaken(t) /\ epoch[t] < tick
                /\ \E i \in DOMAIN rset[t] : ~IsClean(rset[t][i])]_vars

(* Every transaction that begins ends.                                     *)
EveryTxnEnds == \A t \in Txns : pc[t] # "idle" ~> pc[t] = "idle"

=============================================================================
