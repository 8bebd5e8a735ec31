-------------------------------- MODULE Rcu --------------------------------
(* Memory reclamation by epochs (rcu.h, rcu.cc, pxqueue.h) on top of the   *)
(* ticker: a thread reads shared pointers inside a scoped_rcu_region, puts *)
(* what it has unlinked on its own queue with the tick after its own, and  *)
(* frees what is old enough when it leaves its outermost region.           *)
EXTENDS Ticker, Sequences, FiniteSets

CONSTANTS
    Objects,             \* the shared objects
    EpochTimeMultiplier  \* ticker ticks in an RCU tick

ASSUME RcuAssumption == EpochTimeMultiplier \in Nat \ {0}

VARIABLES
    shared,     \* the objects a reader can still find
    refs,       \* refs[c]: the objects the region on c has found
    queue,      \* queue_ of each core: [obj, tick] in the order of free()
    scratch,    \* scratch_: what do_cleanup is about to free
    reaped,     \* last_reaped_epoch_
    freed,      \* the objects whose memory was released
    cpc         \* "run", or where the core is in do_cleanup

rcu == <<shared, refs, queue, scratch, reaped, freed, cpc>>
rcuvars == <<vars, rcu>>

to_rcu_ticks(ticks) == ticks \div EpochTimeMultiplier
DeleteEntries == [obj : Objects, tick : Nat]

RcuInit ==
    /\ Init
    /\ shared = Objects /\ freed = {}
    /\ refs = [c \in Cores |-> {}]
    /\ queue = [c \in Cores |-> <<>>]
    /\ scratch = [c \in Cores |-> <<>>]
    /\ reaped = [c \in Cores |-> 0]
    /\ cpc = [c \in Cores |-> "run"]

InRegion(c) == gpc[c] = "in"

(* A pointer is read from a shared structure.                              *)
Find(c, o) ==
    /\ cpc[c] = "run" /\ InRegion(c)
    /\ o \in shared
    /\ refs' = [refs EXCEPT ![c] = @ \cup {o}]
    /\ UNCHANGED <<vars, shared, queue, scratch, reaped, freed, cpc>>

(* Mutant: the entry is stamped with the core's own tick.                  *)
RetireNow(c, o) ==
    /\ cpc[c] = "run" /\ InRegion(c)
    /\ o \in shared
    /\ shared' = shared \ {o}
    /\ queue' = [queue EXCEPT ![c] =
          Append(@, [obj |-> o, tick |-> to_rcu_ticks(ti_tick[c])])]
    /\ UNCHANGED <<vars, refs, scratch, reaped, freed, cpc>>

(* An object is unlinked and handed to free_with_fn.                       *)
Retire(c, o) ==
    /\ cpc[c] = "run" /\ InRegion(c)
    /\ o \in shared
    /\ shared' = shared \ {o}
    /\ queue' = [queue EXCEPT ![c] =
          Append(@, [obj |-> o, tick |-> to_rcu_ticks(ti_tick[c] + 1)])]
    /\ UNCHANGED <<vars, refs, scratch, reaped, freed, cpc>>

(* The guards of the ticker; do_cleanup opens a region of its own when it  *)
(* has something to free.                                                  *)
RcuEnter(c) ==
    /\ cpc[c] \in {"run", "open"}
    /\ Enter(c) \/ Lock(c) \/ ReadTick(c) \/ StoreTick(c)
    /\ UNCHANGED rcu

RcuNested(c) ==
    /\ cpc[c] = "run"
    /\ EnterNested(c) \/ ExitNested(c)
    /\ UNCHANGED rcu

(* ~scoped_rcu_base of the outermost region calls do_cleanup, also when the*)
(* region is do_cleanup's own.                                             *)
RcuExit(c) ==
    /\ cpc[c] \in {"run", "done"}
    /\ Exit(c)
    /\ refs' = [refs EXCEPT ![c] = {}]
    /\ cpc' = [cpc EXCEPT ![c] = "clean"]
    /\ UNCHANGED <<shared, queue, scratch, reaped, freed>>

(* do_cleanup: the groups of the queue up to the tick before the last one  *)
(* that is over (empty_accept_from).                                       *)
cleaning_rcu_tick_exclusive == to_rcu_ticks(last_tick_inclusive + 1)
UpToBefore(q, t) == {n \in 0..Len(q) : \A i \in 1..n : q[i].tick < t}  \* mutant
UpTo(q, t) == {n \in 0..Len(q) : \A i \in 1..n : q[i].tick <= t}

(* Mutants: before the first tick is over; the queue keeps its entries.    *)
DoCleanupEarly(c) ==
    LET clean_tick == cleaning_rcu_tick_exclusive - 1 IN
    /\ cpc[c] = "clean"
    /\ \E n \in UpTo(queue[c], clean_tick) :
          /\ n + 1 \notin UpTo(queue[c], clean_tick)
          /\ scratch' = [scratch EXCEPT ![c] = SubSeq(queue[c], 1, n)]
          /\ queue' = [queue EXCEPT ![c] = SubSeq(@, n + 1, Len(@))]
          /\ reaped' = [reaped EXCEPT ![c] = clean_tick]
          /\ cpc' = [cpc EXCEPT ![c] = IF n = 0 THEN "run" ELSE "open"]
    /\ UNCHANGED <<vars, shared, refs, freed>>
DoCleanupCopy(c) ==
    LET clean_tick == cleaning_rcu_tick_exclusive - 1 IN
    /\ cpc[c] = "clean"
    /\ IF cleaning_rcu_tick_exclusive = 0 \/ reaped[c] = clean_tick
       THEN cpc' = [cpc EXCEPT ![c] = "run"] /\ UNCHANGED <<scratch, reaped>>
       ELSE \E n \in UpTo(queue[c], clean_tick) :
              /\ n + 1 \notin UpTo(queue[c], clean_tick)
              /\ scratch' = [scratch EXCEPT ![c] = SubSeq(queue[c], 1, n)]
              /\ reaped' = [reaped EXCEPT ![c] = clean_tick]
              /\ cpc' = [cpc EXCEPT ![c] = IF n = 0 THEN "run" ELSE "open"]
    /\ UNCHANGED <<vars, shared, refs, queue, freed>>

DoCleanup(c) ==
    LET clean_tick == cleaning_rcu_tick_exclusive - 1 IN
    /\ cpc[c] = "clean"
    /\ IF cleaning_rcu_tick_exclusive = 0 \/ reaped[c] = clean_tick
       THEN cpc' = [cpc EXCEPT ![c] = "run"] /\ UNCHANGED <<queue, scratch, reaped>>
       ELSE \E n \in UpTo(queue[c], clean_tick) :
              /\ n + 1 \notin UpTo(queue[c], clean_tick)
              /\ scratch' = [scratch EXCEPT ![c] = SubSeq(queue[c], 1, n)]
              /\ queue' = [queue EXCEPT ![c] = SubSeq(@, n + 1, Len(@))]
              /\ reaped' = [reaped EXCEPT ![c] = clean_tick]
              /\ cpc' = [cpc EXCEPT ![c] = IF n = 0 THEN "run" ELSE "open"]
    /\ UNCHANGED <<vars, shared, refs, freed>>

(* The deleters run inside the region, then scratch_ is cleared.           *)
Free(c) ==
    /\ cpc[c] = "open" /\ InRegion(c)
    /\ IF scratch[c] = <<>>
       THEN cpc' = [cpc EXCEPT ![c] = "done"] /\ UNCHANGED <<freed, scratch>>
       ELSE /\ freed' = freed \cup {scratch[c][1].obj}
            /\ scratch' = [scratch EXCEPT ![c] = Tail(@)]
            /\ UNCHANGED cpc
    /\ UNCHANGED <<vars, shared, refs, queue, reaped>>

RcuStep(c) ==
    \/ \E o \in Objects : Find(c, o) \/ Retire(c, o)
    \/ RcuEnter(c) \/ RcuNested(c) \/ RcuExit(c) \/ DoCleanup(c) \/ Free(c)

RcuNext == (Daemon /\ UNCHANGED rcu) \/ \E c \in Cores : RcuStep(c)

RcuSpec == RcuInit /\ [][RcuNext]_rcuvars

(* As in Ticker: the daemon and the constructors keep running, every       *)
(* region ends, do_cleanup's own among them, and a spin lock that is free  *)
(* again and again is acquired eventually.                                 *)
RcuFairSpec ==
    /\ RcuSpec
    /\ WF_rcuvars(Daemon /\ UNCHANGED rcu) /\ SF_rcuvars(AdvanceCore /\ UNCHANGED rcu)
    /\ \A c \in Cores :
          /\ WF_rcuvars((Lock(c) \/ ReadTick(c) \/ StoreTick(c)) /\ RcuEnter(c))
          /\ WF_rcuvars(ExitNested(c) /\ RcuNested(c)) /\ WF_rcuvars(Free(c))
          /\ SF_rcuvars(RcuExit(c))

-----------------------------------------------------------------------------
(* Properties.                                                             *)

RcuTypeOK ==
    /\ shared \subseteq Objects /\ freed \subseteq Objects
    /\ refs \in [Cores -> SUBSET Objects]
    /\ queue \in [Cores -> Seq(DeleteEntries)]
    /\ scratch \in [Cores -> Seq(DeleteEntries)]
    /\ reaped \in [Cores -> Nat]
    /\ cpc \in [Cores -> {"run", "clean", "open", "done"}]

(* No region holds a pointer to memory that was released: what the comments*)
(* of free_with_fn and cleaning_rcu_tick_exclusive promise (rcu.cc, rcu.h).*)
NoUseAfterFree == \A c \in Cores : refs[c] \cap freed = {}

(* An object is retired once, waits in one place, and is freed from there: *)
(* nothing is freed twice, and nothing is lost between the queues.         *)
Waiting(c) == scratch[c] \o queue[c]
InQueues(o) ==
    UNION {{<<c, i>> : i \in {i \in DOMAIN Waiting(c) : Waiting(c)[i].obj = o}} :
             c \in Cores}
EachObjectInOnePlace ==
    \A o \in Objects :
        IF o \in shared \/ o \in freed
        THEN InQueues(o) = {} /\ ~(o \in shared /\ o \in freed)
        ELSE Cardinality(InQueues(o)) = 1

(* do_cleanup's INVARIANT(last_reaped_epoch_ <= clean_tick): a core never  *)
(* goes back to a tick it has reaped, and its queue stays in tick order,   *)
(* without which empty_accept_from would leave old entries behind.         *)
QueuesInOrder ==
    \A c \in Cores :
        /\ reaped[c] = 0 \/ reaped[c] < cleaning_rcu_tick_exclusive
        /\ \A i, j \in DOMAIN queue[c] : i < j => queue[c][i].tick <= queue[c][j].tick
        /\ \A i \in DOMAIN queue[c] : reaped[c] = 0 \/ queue[c][i].tick > reaped[c]
=============================================================================
