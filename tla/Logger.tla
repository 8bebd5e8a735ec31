------------------------------- MODULE Logger -------------------------------
(* The logger (txn_ic3_impl.{h,cc}): cores fill buffers with committed     *)
(* transactions and push full ones to their logger, loggers write them and *)
(* give them back, and the persister declares epochs durable.  The clock is*)
(* Epochs, the rings are the queues of Fifo.                               *)
EXTENDS Epochs, Sequences, SequencesExt

CONSTANTS
    Loggers,
    LoggerOf,             \* assignments: the logger of each core
    g_perthread_buffers,  \* buffers of a core
    BufferSize,           \* transactions that fit into a buffer
    MaxIovs,              \* buffers in a writev
    g_max_lag_epochs,     \* epochs that loggers may be ahead of the persister
    MaxTick,              \* bound: the tick the ticker stops at
    MaxTxns               \* bound: the transactions of each core

ASSUME LoggerAssumption ==
    /\ Cores \subseteq Nat
    /\ LoggerOf \in [Cores -> Loggers]
    /\ {g_perthread_buffers, BufferSize, MaxIovs, g_max_lag_epochs} \subseteq Nat \ {0}
    /\ MaxTick \in Nat /\ MaxTxns \in [Cores -> Nat]

VARIABLES
    wk,                   \* "idle", "log": has a commit id, "end": thread_end is done
    commit_epoch,         \* the epoch of that commit id
    all_buffers,          \* buffers the core may fill, the first is being filled
    persist_buffers,      \* buffers for the logger
    lpc, left,            \* where a logger is in its loop, the cores it still has to visit
    cur_sync_epoch_ex, niovs, sense, x0,   \* locals of writer
    epoch_prefixes,       \* of each core, for each sense
    epochs,               \* per_thread_sync_epochs_, of each core at its logger
    system_sync_epoch,
    ppc, pleft,           \* the same of the persister
    pmissed,              \* has peek missed a dequeue?
    best_tick_inc, min_so_far,
    committed,            \* history: the epochs of each core's transactions
    disk                  \* history: the numbers of those that were written

worker == <<wk, commit_epoch, committed>>
rings == <<all_buffers, persist_buffers>>
logger == <<lpc, left, cur_sync_epoch_ex, niovs, sense, x0, epoch_prefixes, disk>>
persister == <<ppc, pleft, pmissed, best_tick_inc, min_so_far, system_sync_epoch>>
logvars == <<vars, worker, rings, logger, epochs, persister>>

Assigned(l) == {c \in Cores : LoggerOf[c] = l}

(* A buffer: its transactions by number, their epoch (header()->last_tid_).*)
EmptyBuffer == [txns |-> <<>>, epoch |-> 0, io_scheduled |-> FALSE]
Buffers == [txns : Seq(Nat), epoch : Nat, io_scheduled : BOOLEAN]
Contents(bs) == FlattenSeq([i \in DOMAIN bs |-> bs[i].txns])

LogInit ==
    /\ Init
    /\ wk = [c \in Cores |-> "idle"] /\ commit_epoch = [c \in Cores |-> 0]
    /\ all_buffers = [c \in Cores |-> [i \in 1..g_perthread_buffers |-> EmptyBuffer]]
    /\ persist_buffers = [c \in Cores |-> <<>>]
    /\ lpc = [l \in Loggers |-> "sleep"] /\ left = [l \in Loggers |-> {}]
    /\ cur_sync_epoch_ex = [l \in Loggers |-> 0] /\ niovs = [l \in Loggers |-> 0]
    /\ sense = [l \in Loggers |-> 0] /\ x0 = [l \in Loggers |-> 0]
    /\ epoch_prefixes = [c \in Cores |-> [s \in {0, 1} |-> 0]]
    /\ epochs = [c \in Cores |-> 0] /\ system_sync_epoch = 0
    /\ ppc = "sleep" /\ pleft = {} /\ pmissed = FALSE
    /\ best_tick_inc = 0 /\ min_so_far = 0
    /\ committed = [c \in Cores |-> <<>>] /\ disk = [c \in Cores |-> <<>>]

-----------------------------------------------------------------------------
(* The clock.  A region needs the core's ticker lock, which the persister  *)
(* may hold, and lasts until its transaction is in a buffer.               *)

pcur == Min(pleft)  \* the core the persister is at
PersisterHolds(c) == ppc \in {"peek2", "advance"} /\ pcur = c

Clock ==
    /\ \/ now < MaxTick /\ Advance
       \/ DeclareOver
       \/ \E c \in Cores : \/ wk[c] # "end" /\ ~PersisterHolds(c) /\ Start(c)
                           \/ wk[c] # "log" /\ End(c)
    /\ UNCHANGED <<worker, rings, logger, epochs, persister>>

-----------------------------------------------------------------------------
(* A core.  gen_commit_tid reads the epoch; on_tid_finish puts the         *)
(* transaction into the first buffer, or pushes that and tries the next.   *)

GenCommitTid(c) ==
    /\ wk[c] = "idle" /\ region[c] # None
    /\ Len(committed[c]) < MaxTxns[c]
    /\ commit_epoch' = [commit_epoch EXCEPT ![c] = now]
    /\ wk' = [wk EXCEPT ![c] = "log"]
    /\ UNCHANGED <<vars, committed, rings, logger, epochs, persister>>

can_hold_any(px, e) == TRUE                        \* mutant: epochs are mixed
can_hold_tid(px, e) == px.txns = <<>> \/ px.epoch = e
HasRoom(px, e) == Len(px.txns) < BufferSize /\ can_hold_tid(px, e)

WriteTxn(c) ==
    /\ wk[c] = "log" /\ all_buffers[c] # <<>>
    /\ LET px == Head(all_buffers[c]) IN
       /\ HasRoom(px, commit_epoch[c])
       /\ all_buffers' = [all_buffers EXCEPT ![c][1] =
             [px EXCEPT !.txns = Append(@, Len(committed[c]) + 1),
                        !.epoch = commit_epoch[c]]]
    /\ committed' = [committed EXCEPT ![c] = Append(@, commit_epoch[c])]
    /\ wk' = [wk EXCEPT ![c] = "idle"]
    /\ commit_epoch' = [commit_epoch EXCEPT ![c] = 0]
    /\ UNCHANGED <<vars, persist_buffers, logger, epochs, persister>>

PushHead(c) ==
    /\ persist_buffers' = [persist_buffers EXCEPT ![c] = Append(@, Head(all_buffers[c]))]
    /\ all_buffers' = [all_buffers EXCEPT ![c] = Tail(@)]

PushBuffer(c) ==
    /\ wk[c] = "log" /\ all_buffers[c] # <<>>
    /\ ~HasRoom(Head(all_buffers[c]), commit_epoch[c])
    /\ PushHead(c)
    /\ UNCHANGED <<vars, worker, logger, epochs, persister>>

(* thread_end pushes what is left, outside a region.                       *)
ThreadEnd(c) ==
    /\ wk[c] = "idle" /\ region[c] = None
    /\ wk' = [wk EXCEPT ![c] = "end"]
    /\ IF all_buffers[c] # <<>> /\ Head(all_buffers[c]).txns # <<>>
       THEN PushHead(c)
       ELSE UNCHANGED rings
    /\ UNCHANGED <<vars, commit_epoch, committed, logger, epochs, persister>>

Core(c) == GenCommitTid(c) \/ WriteTxn(c) \/ PushBuffer(c) \/ ThreadEnd(c)

-----------------------------------------------------------------------------
(* writer: collect the pushed buffers of all cores of the logger, write    *)
(* them, note how far each core is persisted, give the buffers back.       *)

WriterStart(l) ==
    /\ lpc[l] = "sleep"
    /\ cur_sync_epoch_ex' = [cur_sync_epoch_ex EXCEPT ![l] = system_sync_epoch + 1]
    /\ niovs' = [niovs EXCEPT ![l] = 0]
    /\ left' = [left EXCEPT ![l] = Assigned(l)]
    /\ lpc' = [lpc EXCEPT ![l] = "peek"]
    /\ UNCHANGED <<vars, worker, rings, sense, x0, epoch_prefixes, disk, epochs, persister>>

(* The buffers up to the limit of writev and of the lag.                   *)
Schedulable(l, c) ==
    {n \in 0..Len(persist_buffers[c]) :
        /\ niovs[l] + n <= MaxIovs
        /\ \A i \in 1..n : persist_buffers[c][i].epoch < cur_sync_epoch_ex[l] + g_max_lag_epochs}

(* The last epoch that the buffer shows to be complete.                     *)
PrefixOf(px) == px.epoch - 1

Schedule(l) ==
    /\ lpc[l] = "peek" /\ left[l] # {}
    /\ LET c == Min(left[l])
           n == Max(Schedulable(l, c)) IN
       /\ persist_buffers' = [persist_buffers EXCEPT ![c] =
             [i \in DOMAIN @ |-> IF i <= n THEN [@[i] EXCEPT !.io_scheduled = TRUE] ELSE @[i]]]
       /\ niovs' = [niovs EXCEPT ![l] = @ + n]
       /\ epoch_prefixes' = [epoch_prefixes EXCEPT ![c][sense[l]] =
             IF n = 0 THEN @ ELSE PrefixOf(persist_buffers[c][n])]
    /\ left' = [left EXCEPT ![l] = @ \ {Min(@)}]
    /\ UNCHANGED <<vars, worker, all_buffers, lpc, cur_sync_epoch_ex, sense, x0, disk, epochs, persister>>

NothingToWrite(l) ==
    /\ lpc[l] = "peek" /\ left[l] = {} /\ niovs[l] = 0
    /\ lpc' = [lpc EXCEPT ![l] = "sleep"]
    /\ cur_sync_epoch_ex' = [cur_sync_epoch_ex EXCEPT ![l] = 0]
    /\ UNCHANGED <<vars, worker, rings, left, niovs, sense, x0, epoch_prefixes, disk, epochs, persister>>

(* The buffers with io_scheduled_ set: the first ones of the ring.         *)
ScheduledTo(c) ==
    Max({n \in 0..Len(persist_buffers[c]) :
           \A i \in 1..n : persist_buffers[c][i].io_scheduled})
Scheduled(c) == SubSeq(persist_buffers[c], 1, ScheduledTo(c))

Writev(l) ==
    /\ lpc[l] = "peek" /\ left[l] = {} /\ niovs[l] # 0
    /\ disk' = [c \in Cores |->
          IF c \in Assigned(l) THEN disk[c] \o Contents(Scheduled(c)) ELSE disk[c]]
    /\ left' = [left EXCEPT ![l] = Assigned(l)]
    /\ niovs' = [niovs EXCEPT ![l] = 0]
    /\ cur_sync_epoch_ex' = [cur_sync_epoch_ex EXCEPT ![l] = 0]
    /\ lpc' = [lpc EXCEPT ![l] = "load"]
    /\ UNCHANGED <<vars, worker, rings, sense, x0, epoch_prefixes, epochs, persister>>

(* For one core after the other: epochs_ is read, raised, and the buffers  *)
(* written are emptied and go back.                                        *)
LoadEpoch(l) ==
    /\ lpc[l] = "load" /\ left[l] # {}
    /\ x0' = [x0 EXCEPT ![l] = epochs[Min(left[l])]]
    /\ lpc' = [lpc EXCEPT ![l] = "store"]
    /\ UNCHANGED <<vars, worker, rings, left, cur_sync_epoch_ex, niovs, sense, epoch_prefixes, disk, epochs, persister>>

StoreEpoch(l) ==
    /\ lpc[l] = "store"
    /\ LET c == Min(left[l])
           x1 == epoch_prefixes[c][sense[l]] IN
       epochs' = [epochs EXCEPT ![c] = IF x1 > x0[l] THEN x1 ELSE @]
    /\ lpc' = [lpc EXCEPT ![l] = "return"]
    /\ x0' = [x0 EXCEPT ![l] = 0]
    /\ UNCHANGED <<vars, worker, rings, left, cur_sync_epoch_ex, niovs, sense, epoch_prefixes, disk, persister>>

(* Mutant: every buffer in the ring is given back.                         *)
WrittenAny(px) == TRUE
Written(px) == px.io_scheduled

(* A dequeue that peek misses makes the ring look empty (see Circbuf).     *)
ReturnBuffer(l) ==
    /\ lpc[l] = "return"
    /\ LET c == Min(left[l]) IN
       /\ persist_buffers[c] # <<>> /\ Written(Head(persist_buffers[c]))
       /\ persist_buffers' = [persist_buffers EXCEPT ![c] = Tail(@)]
       /\ all_buffers' = [all_buffers EXCEPT ![c] = Append(@, EmptyBuffer)]
       /\ pmissed' = (pmissed \/ (ppc \in {"peek1", "peek2"} /\ pcur = c))
    /\ UNCHANGED <<vars, worker, logger, epochs, ppc, pleft, best_tick_inc, min_so_far, system_sync_epoch>>

NextCore(l) ==
    /\ lpc[l] = "return"
    /\ LET c == Min(left[l]) IN
       /\ ~(persist_buffers[c] # <<>> /\ Written(Head(persist_buffers[c])))
       /\ left' = [left EXCEPT ![l] = @ \ {c}]
    /\ lpc' = [lpc EXCEPT ![l] = "load"]
    /\ UNCHANGED <<vars, worker, rings, cur_sync_epoch_ex, niovs, sense, x0, epoch_prefixes, disk, epochs, persister>>

WriterDone(l) ==
    /\ lpc[l] = "load" /\ left[l] = {}
    /\ sense' = [sense EXCEPT ![l] = 1 - @]
    /\ lpc' = [lpc EXCEPT ![l] = "sleep"]
    /\ UNCHANGED <<vars, worker, rings, left, cur_sync_epoch_ex, niovs, x0, epoch_prefixes, disk, epochs, persister>>

Writer(l) ==
    \/ WriterStart(l) \/ Schedule(l) \/ NothingToWrite(l)
    \/ Writev(l) \/ LoadEpoch(l) \/ StoreEpoch(l) \/ ReturnBuffer(l) \/ NextCore(l)
    \/ WriterDone(l)

-----------------------------------------------------------------------------
(* advance_system_sync_epoch: a core that is in no region and has nothing  *)
(* pushed is moved to the last tick that is complete, any other counts with*)
(* what its logger has persisted.                                          *)

PersisterStart ==
    /\ ppc = "sleep"
    /\ best_tick_inc' = now - 1
    /\ min_so_far' = MaxTick
    /\ pleft' = Cores
    /\ ppc' = "next"
    /\ UNCHANGED <<vars, worker, rings, logger, epochs, pmissed, system_sync_epoch>>

Goto(p) == ppc' = p /\ pmissed' = FALSE

FirstPeek ==
    /\ ppc = "next" /\ pleft # {}
    /\ Goto("peek1")
    /\ UNCHANGED <<vars, worker, rings, logger, epochs, pleft, best_tick_inc, min_so_far, system_sync_epoch>>

SeesEmpty == pmissed \/ persist_buffers[pcur] = <<>>

FirstPeekDone ==
    /\ ppc = "peek1"
    /\ Goto(IF SeesEmpty THEN "lock" ELSE "load")
    /\ UNCHANGED <<vars, worker, rings, logger, epochs, pleft, best_tick_inc, min_so_far, system_sync_epoch>>

(* Mutant: the lock is not taken.                                          *)
LockNothing ==
    /\ ppc = "lock"
    /\ Goto("peek2")
    /\ UNCHANGED <<vars, worker, rings, logger, epochs, pleft, best_tick_inc, min_so_far, system_sync_epoch>>

LockCore ==
    /\ ppc = "lock" /\ region[pcur] = None
    /\ Goto("peek2")
    /\ UNCHANGED <<vars, worker, rings, logger, epochs, pleft, best_tick_inc, min_so_far, system_sync_epoch>>

(* try_lock fails: a region, its constructor or the ticker has the lock.   *)
LockFails ==
    /\ ppc = "lock"
    /\ Goto("load")
    /\ UNCHANGED <<vars, worker, rings, logger, epochs, pleft, best_tick_inc, min_so_far, system_sync_epoch>>

SecondPeekDone ==
    /\ ppc = "peek2"
    /\ Goto(IF SeesEmpty THEN "advance" ELSE "load")
    /\ UNCHANGED <<vars, worker, rings, logger, epochs, pleft, best_tick_inc, min_so_far, system_sync_epoch>>

CoreDone(e) ==
    /\ min_so_far' = Min({min_so_far, e})
    /\ pleft' = pleft \ {pcur}
    /\ Goto("next")

AdvanceCore ==
    /\ ppc = "advance"
    /\ epochs' = [epochs EXCEPT ![pcur] = best_tick_inc]
    /\ CoreDone(best_tick_inc)
    /\ UNCHANGED <<vars, worker, rings, logger, best_tick_inc, system_sync_epoch>>

CountCore ==
    /\ ppc = "load"
    /\ CoreDone(epochs[pcur])
    /\ UNCHANGED <<vars, worker, rings, logger, epochs, best_tick_inc, system_sync_epoch>>

PersisterDone ==
    /\ ppc = "next" /\ pleft = {}
    /\ system_sync_epoch' = min_so_far
    /\ min_so_far' = 0 /\ best_tick_inc' = 0
    /\ Goto("sleep")
    /\ UNCHANGED <<vars, worker, rings, logger, epochs, pleft>>

Persister ==
    \/ PersisterStart \/ FirstPeek \/ FirstPeekDone \/ LockCore \/ LockFails
    \/ SecondPeekDone \/ AdvanceCore \/ CountCore \/ PersisterDone

LogNext ==
    \/ Clock \/ Persister
    \/ \E c \in Cores : Core(c)
    \/ \E l \in Loggers : Writer(l)

LogSpec == LogInit /\ [][LogNext]_logvars

-----------------------------------------------------------------------------
(* Properties.                                                             *)

(* A core's log on disk, what is pushed and not yet written, and what the  *)
(* core still holds are its transactions in commit order: none is lost,    *)
(* written twice, or written before an earlier one.                        *)
Unwritten(c) ==
    IF lpc[LoggerOf[c]] \in {"load", "store", "return"}
    THEN SubSeq(persist_buffers[c], ScheduledTo(c) + 1, Len(persist_buffers[c]))
    ELSE persist_buffers[c]
LogInOrder ==
    \A c \in Cores :
        disk[c] \o Contents(Unwritten(c)) \o Contents(all_buffers[c])
          = [n \in 1..Len(committed[c]) |-> n]

(* The transactions of a buffer are of its one epoch.                      *)
OneEpochPerBuffer ==
    \A c \in Cores : \A px \in ToSet(all_buffers[c] \o persist_buffers[c]) :
        \A i \in DOMAIN px.txns : committed[c][px.txns[i]] = px.epoch

(* A core that was moved on will not commit into an epoch declared durable:*)
(* "the next time it does any actions will be in epoch > best_tick_inc"    *)
(* (txn_ic3_impl.cc:166).                                                  *)
CommitsAreLater ==
    \A c \in Cores : wk[c] = "log" =>
        commit_epoch[c] > epochs[c] /\ commit_epoch[c] > system_sync_epoch
=============================================================================
