------------------------------- MODULE Ticker -------------------------------
(* The system-wide epoch ticker (ticker.h): a daemon thread bumps the      *)
(* current tick and walks over the cores; a region on a core holds the     *)
(* core's lock from its outermost guard's constructor to its destructor.   *)
EXTENDS Integers

CONSTANTS
    NumCores,   \* number of cores
    MaxDepth,   \* bound: nesting of guards on a core
    MaxTick     \* bound: the tick the daemon stops at

ASSUME TickerAssumption == NumCores \in Nat /\ MaxDepth \in Nat /\ MaxTick \in Nat

Cores == 0..(NumCores - 1)

VARIABLES
    current_tick,         \* the global current_tick_
    last_tick_inclusive,  \* all cores have completed the ticks up to it
    ti_tick,              \* tickinfo.current_tick_ of each core
    ti_depth,             \* tickinfo.depth_
    ti_lock,              \* does a guard hold tickinfo.lock_?
    tick,                 \* tick_ of the core's outermost guard
    gpc,                  \* where the core is in guard's constructor
    lpc,                  \* where the daemon is in its loop
    li                    \* the core it looks at

cores == <<ti_tick, ti_depth, ti_lock, tick, gpc>>
daemon == <<current_tick, last_tick_inclusive, lpc, li>>
vars == <<cores, daemon>>

Init ==
    /\ current_tick = 1 /\ last_tick_inclusive = 0
    /\ ti_tick = [c \in Cores |-> 1]
    /\ ti_depth = [c \in Cores |-> 0]
    /\ ti_lock = [c \in Cores |-> FALSE]
    /\ tick = [c \in Cores |-> 0]
    /\ gpc = [c \in Cores |-> "out"]
    /\ lpc = "sleep" /\ li = 0

-----------------------------------------------------------------------------
(* guard::guard: the depth first, then, in the outermost guard, the lock,  *)
(* then the global tick is read and stored.                                *)

Enter(c) ==
    /\ gpc[c] = "out"
    /\ ti_depth' = [ti_depth EXCEPT ![c] = @ + 1]
    /\ gpc' = [gpc EXCEPT ![c] = "lock"]
    /\ UNCHANGED <<ti_tick, ti_lock, tick, daemon>>

Lock(c) ==
    /\ gpc[c] = "lock"
    /\ ~ti_lock[c]
    /\ ti_lock' = [ti_lock EXCEPT ![c] = TRUE]
    /\ gpc' = [gpc EXCEPT ![c] = "read"]
    /\ UNCHANGED <<ti_tick, ti_depth, tick, daemon>>

(* Mutant: the core's own tick is taken for the current one.               *)
ReadTickStale(c) ==
    /\ gpc[c] = "read"
    /\ tick' = [tick EXCEPT ![c] = ti_tick[c]]
    /\ gpc' = [gpc EXCEPT ![c] = "store"]
    /\ UNCHANGED <<ti_tick, ti_depth, ti_lock, daemon>>

ReadTick(c) ==
    /\ gpc[c] = "read"
    /\ tick' = [tick EXCEPT ![c] = current_tick]
    /\ gpc' = [gpc EXCEPT ![c] = "store"]
    /\ UNCHANGED <<ti_tick, ti_depth, ti_lock, daemon>>

StoreTick(c) ==
    /\ gpc[c] = "store"
    /\ ti_tick' = [ti_tick EXCEPT ![c] = tick[c]]
    /\ gpc' = [gpc EXCEPT ![c] = "in"]
    /\ UNCHANGED <<ti_depth, ti_lock, tick, daemon>>

(* A nested guard takes no lock.                                           *)
EnterNested(c) ==
    /\ gpc[c] = "in"
    /\ ti_depth[c] < MaxDepth
    /\ ti_depth' = [ti_depth EXCEPT ![c] = @ + 1]
    /\ UNCHANGED <<ti_tick, ti_lock, tick, gpc, daemon>>

(* Mutant: a nested guard ends whatever the depth.                         *)
ExitNestedAny(c) ==
    /\ gpc[c] = "in"
    /\ ti_depth' = [ti_depth EXCEPT ![c] = @ - 1]
    /\ UNCHANGED <<ti_tick, ti_lock, tick, gpc, daemon>>

(* guard::~guard.                                                          *)
ExitNested(c) ==
    /\ gpc[c] = "in"
    /\ ti_depth[c] > 1
    /\ ti_depth' = [ti_depth EXCEPT ![c] = @ - 1]
    /\ UNCHANGED <<ti_tick, ti_lock, tick, gpc, daemon>>

Exit(c) ==
    /\ gpc[c] = "in"
    /\ ti_depth[c] = 1
    /\ ti_depth' = [ti_depth EXCEPT ![c] = 0]
    /\ ti_lock' = [ti_lock EXCEPT ![c] = FALSE]
    /\ gpc' = [gpc EXCEPT ![c] = "out"]
    /\ UNCHANGED <<ti_tick, tick, daemon>>

Guard(c) ==
    \/ Enter(c) \/ Lock(c) \/ ReadTick(c) \/ StoreTick(c)
    \/ EnterNested(c) \/ ExitNested(c) \/ Exit(c)

-----------------------------------------------------------------------------
(* tickerloop: bump the tick, bring every core to it, declare the previous *)
(* one over.                                                               *)

Bump ==
    /\ lpc = "sleep"
    /\ current_tick < MaxTick
    /\ current_tick' = current_tick + 1
    /\ lpc' = "check" /\ li' = 0
    /\ UNCHANGED <<last_tick_inclusive, cores>>

(* Mutant: no core is waited for.                                          *)
CheckCoreOnly ==
    /\ lpc = "check"
    /\ li < NumCores
    /\ li' = li + 1
    /\ UNCHANGED <<lpc, current_tick, last_tick_inclusive, cores>>

(* A core that has entered a region in the new tick is not waited for.     *)
CheckCore ==
    /\ lpc = "check"
    /\ li < NumCores
    /\ IF ti_tick[li] = current_tick
       THEN li' = li + 1 /\ UNCHANGED lpc
       ELSE lpc' = "lock" /\ UNCHANGED li
    /\ UNCHANGED <<current_tick, last_tick_inclusive, cores>>

(* Mutant: the region of the core is not waited for.                       *)
AdvanceCoreAtOnce ==
    /\ lpc = "lock"
    /\ ti_tick' = [ti_tick EXCEPT ![li] = current_tick]
    /\ li' = li + 1
    /\ lpc' = "check"
    /\ UNCHANGED <<current_tick, last_tick_inclusive, ti_depth, ti_lock, tick, gpc>>

(* Any other is brought to it under its lock, once its region has ended.   *)
AdvanceCore ==
    /\ lpc = "lock"
    /\ ~ti_lock[li]
    /\ ti_tick' = [ti_tick EXCEPT ![li] = current_tick]
    /\ li' = li + 1
    /\ lpc' = "check"
    /\ UNCHANGED <<current_tick, last_tick_inclusive, ti_depth, ti_lock, tick, gpc>>

(* Mutant: the tick that has just begun is declared over.                  *)
PublishCurrent ==
    /\ lpc = "check"
    /\ li = NumCores
    /\ last_tick_inclusive' = current_tick
    /\ lpc' = "sleep"
    /\ UNCHANGED <<current_tick, li, cores>>

(* Mutant: the loop forgets to publish.                                    *)
PublishNothing ==
    /\ lpc = "check"
    /\ li = NumCores
    /\ lpc' = "sleep"
    /\ UNCHANGED <<current_tick, last_tick_inclusive, li, cores>>

Publish ==
    /\ lpc = "check"
    /\ li = NumCores
    /\ last_tick_inclusive' = current_tick - 1
    /\ lpc' = "sleep"
    /\ UNCHANGED <<current_tick, li, cores>>

Daemon == Bump \/ CheckCore \/ AdvanceCore \/ Publish

Next == Daemon \/ \E c \in Cores : Guard(c)

Spec == Init /\ [][Next]_vars

(* The daemon and the constructors keep running, every region ends, and a  *)
(* spin lock that is free again and again is acquired eventually.          *)
FairSpec ==
    /\ Spec
    /\ WF_vars(Daemon) /\ SF_vars(AdvanceCore)
    /\ \A c \in Cores :
          /\ WF_vars(Lock(c)) /\ WF_vars(ReadTick(c)) /\ WF_vars(StoreTick(c))
          /\ WF_vars(ExitNested(c)) /\ SF_vars(Exit(c))

-----------------------------------------------------------------------------
(* Properties.                                                             *)

TypeOK ==
    /\ current_tick \in Nat /\ last_tick_inclusive \in Nat
    /\ ti_tick \in [Cores -> Nat] /\ ti_depth \in [Cores -> Nat]
    /\ ti_lock \in [Cores -> BOOLEAN] /\ tick \in [Cores -> Nat]
    /\ gpc \in [Cores -> {"out", "lock", "read", "store", "in"}]
    /\ lpc \in {"sleep", "check", "lock"} /\ li \in 0..NumCores

(* A region's tick is never declared over while the region runs: the       *)
(* INVARIANT(tick_ > impl_->global_last_tick_inclusive()) of ~guard.       *)
RegionsAreNotOver ==
    \A c \in Cores : gpc[c] \in {"store", "in"} => tick[c] > last_tick_inclusive

(* The daemon finds every core in the tick it closes or in the new one: the*)
(* INVARIANT of tickerloop, on which the lag of RCU's queues is computed.  *)
CoresLagAtMostOne ==
    \A c \in Cores :
        /\ ti_tick[c] \in {current_tick - 1, current_tick}
        /\ lpc = "sleep" => ti_tick[c] = current_tick
        /\ gpc[c] = "in" => ti_tick[c] = tick[c]

(* compute_global_last_tick_exclusive, a lock-free minimum over the cores, *)
(* is never behind the published bound (the comment above it in ticker.h). *)
ComputedBoundIsNoLower == \A c \in Cores : ti_tick[c] >= last_tick_inclusive + 1

(* Every tick is declared over in the end.                                 *)
TicksEnd == \A n \in 1..(MaxTick - 1) : current_tick > n ~> last_tick_inclusive >= n

(* The ticker keeps the promise of Epochs: a region exists from the moment *)
(* it has read its tick.                                                   *)
Region == [c \in Cores |-> IF gpc[c] \in {"store", "in"} THEN tick[c] ELSE 0]
E == INSTANCE Epochs WITH now <- current_tick, over <- last_tick_inclusive,
                          region <- Region
ImplementsEpochs == E!Spec
=============================================================================
