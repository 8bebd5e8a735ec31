------------------------------ MODULE RcuProofs ------------------------------
(* Proofs about Ticker and Rcu, for any number of cores, objects and ticks.*)
(* Ticker: its type invariant, the two INVARIANTs of ticker.h, and that it *)
(* implements Epochs.  Rcu: nothing is freed in use, nothing twice or      *)
(* never, and the queues are in order.                                     *)
EXTENDS Rcu, TLAPS, SequenceTheorems, FiniteSetTheorems

-----------------------------------------------------------------------------
(* The ticker.                                                             *)

(* The inductive invariant.  While the daemon sleeps all cores are in the  *)
(* current tick; while it walks, those it has passed are, and the others   *)
(* are at most one behind.  A core that has read the tick but not stored it*)
(* holds its lock, so that the daemon cannot pass it if it is behind.      *)
DaemonInv ==
    /\ lpc = "sleep" => last_tick_inclusive = current_tick - 1
    /\ lpc # "sleep" => last_tick_inclusive = current_tick - 2
    /\ lpc = "lock" => li < NumCores
    /\ current_tick > 0
    /\ \A c \in Cores :
        /\ ti_tick[c] \in {current_tick - 1, current_tick}
        /\ lpc = "sleep" \/ c < li => ti_tick[c] = current_tick

GuardInv ==
    \A c \in Cores :
        /\ ti_lock[c] <=> gpc[c] \in {"read", "store", "in"}
        /\ gpc[c] = "store" => ti_tick[c] <= tick[c] /\ tick[c] <= current_tick
        /\ gpc[c] = "in" => ti_tick[c] = tick[c]

Inv == TypeOK /\ DaemonInv /\ GuardInv

LEMMA InitInv == Init => Inv
BY TickerAssumption DEF Init, Inv, TypeOK, DaemonInv, GuardInv, Cores

LEMMA NextInv == Inv /\ [Next]_vars => Inv'
<1> SUFFICES ASSUME Inv, [Next]_vars PROVE Inv'
  OBVIOUS
<1> USE TickerAssumption DEF Inv, TypeOK, DaemonInv, GuardInv, Cores
<1>1. CASE Bump
  BY <1>1 DEF Bump, cores
<1>2. CASE CheckCore
  <2>1. CASE ti_tick[li] = current_tick
    <3>1. /\ lpc = "check" /\ lpc' = lpc /\ li' = li + 1 /\ li < NumCores
          /\ UNCHANGED <<current_tick, last_tick_inclusive, cores>>
      BY <1>2, <2>1 DEF CheckCore
    <3>2. TypeOK' /\ GuardInv'
      BY <3>1 DEF cores
    <3>3. ASSUME NEW c \in Cores, c < li + 1 PROVE ti_tick[c] = current_tick
      <4>1. c < li \/ c = li
        BY <3>3
      <4> QED
        BY <2>1, <4>1
    <3> QED
      BY <3>1, <3>2, <3>3 DEF cores
  <2>2. CASE ti_tick[li] # current_tick
    BY <1>2, <2>2 DEF CheckCore, cores
  <2> QED
    BY <2>1, <2>2
<1>3. CASE AdvanceCore
  BY <1>3 DEF AdvanceCore
<1>4. CASE Publish
  BY <1>4 DEF Publish, cores
<1>5. ASSUME NEW c \in Cores, Enter(c) PROVE Inv'
  BY <1>5 DEF Enter, daemon
<1>6. ASSUME NEW c \in Cores, Lock(c) PROVE Inv'
  BY <1>6 DEF Lock, daemon
<1>7. ASSUME NEW c \in Cores, ReadTick(c) PROVE Inv'
  BY <1>7 DEF ReadTick, daemon
<1>8. ASSUME NEW c \in Cores, StoreTick(c) PROVE Inv'
  BY <1>8 DEF StoreTick, daemon
<1>9. ASSUME NEW c \in Cores, EnterNested(c) PROVE Inv'
  BY <1>9 DEF EnterNested, daemon
<1>10. ASSUME NEW c \in Cores, ExitNested(c) PROVE Inv'
  BY <1>10 DEF ExitNested, daemon
<1>11. ASSUME NEW c \in Cores, Exit(c) PROVE Inv'
  BY <1>11 DEF Exit, daemon
<1>12. CASE UNCHANGED vars
  BY <1>12 DEF vars, cores, daemon
<1> QED
  BY <1>1, <1>2, <1>3, <1>4, <1>5, <1>6, <1>7, <1>8, <1>9, <1>10, <1>11, <1>12
     DEF Next, Daemon, Guard

(* The inductive invariant of the ticker and its guards, for any set of    *)
(* cores.                                                                  *)
THEOREM Invariance == Spec => []Inv
<1>1. Init => Inv
  BY InitInv
<1>2. Inv /\ [Next]_vars => Inv'
  BY NextInv
<1> QED
  BY <1>1, <1>2, PTL DEF Spec

(* The types of the state hold for every number of cores.                  *)
THEOREM TypeCorrect == Spec => []TypeOK
BY Invariance, PTL DEF Inv

(* A tick is not declared over while a region stamped with it runs.        *)
THEOREM RegionSafety == Spec => []RegionsAreNotOver
<1>1. Inv => RegionsAreNotOver
  BY DEF Inv, TypeOK, DaemonInv, GuardInv, RegionsAreNotOver
<1> QED
  BY <1>1, Invariance, PTL

(* The daemon never finds a core more than one tick behind.                *)
THEOREM LagSafety == Spec => []CoresLagAtMostOne
<1>1. Inv => CoresLagAtMostOne
  BY DEF Inv, DaemonInv, GuardInv, CoresLagAtMostOne
<1> QED
  BY <1>1, Invariance, PTL

(* The lock-free minimum over the cores is a sound bound as well.          *)
THEOREM BoundSafety == Spec => []ComputedBoundIsNoLower
<1>1. Inv => ComputedBoundIsNoLower
  BY DEF Inv, TypeOK, DaemonInv, ComputedBoundIsNoLower
<1> QED
  BY <1>1, Invariance, PTL

-----------------------------------------------------------------------------
(* Refinement: only ReadTick, Exit, Bump and Publish are steps of Epochs.  *)

LEMMA RefinementInit == Init => E!Init
BY DEF Init, E!Init, Region, E!None

LEMMA RefinementNext == Inv /\ Inv' /\ [Next]_vars => [E!Next]_E!vars
<1> SUFFICES ASSUME Inv, Inv', [Next]_vars PROVE [E!Next]_E!vars
  OBVIOUS
<1> USE DEF Inv, TypeOK, DaemonInv, GuardInv
<1>1. CASE Bump
  BY <1>1 DEF Bump, cores, Region, E!Next, E!Advance
<1>2. CASE CheckCore
  BY <1>2 DEF CheckCore, cores, Region, E!vars
<1>3. CASE AdvanceCore
  BY <1>3 DEF AdvanceCore, Region, E!vars
<1>4. CASE Publish
  <2>1. \A c \in Cores : Region[c] \in {0, current_tick}
    BY <1>4 DEF Publish, Region, Cores
  <2> QED
    BY <1>4, <2>1 DEF Publish, cores, Region, E!Next, E!DeclareOver, E!None
<1>5. ASSUME NEW c \in Cores, Enter(c) \/ Lock(c) PROVE E!vars' = E!vars
  <2>1. Region' = Region
    BY <1>5 DEF Enter, Lock, Region
  <2> QED
    BY <1>5, <2>1 DEF Enter, Lock, daemon, E!vars
<1>6. ASSUME NEW c \in Cores, ReadTick(c) PROVE E!Start(c)
  <2>1. Region[c] = 0 /\ Region' = [Region EXCEPT ![c] = current_tick]
    BY <1>6 DEF ReadTick, Region
  <2> QED
    BY <1>6, <2>1 DEF ReadTick, daemon, E!Start, E!None
<1>7. ASSUME NEW c \in Cores, StoreTick(c) \/ EnterNested(c) \/ ExitNested(c)
      PROVE E!vars' = E!vars
  <2>1. Region' = Region
    BY <1>7 DEF StoreTick, EnterNested, ExitNested, Region
  <2> QED
    BY <1>7, <2>1 DEF StoreTick, EnterNested, ExitNested, daemon, E!vars
<1>8. ASSUME NEW c \in Cores, Exit(c) PROVE E!End(c)
  <2>1. tick[c] > last_tick_inclusive
    BY <1>8 DEF Exit
  <2>2. Region[c] # 0
    BY <1>8, <2>1 DEF Exit, Region
  <2>3. Region' = [Region EXCEPT ![c] = 0]
    BY <1>8 DEF Exit, Region
  <2> QED
    BY <1>8, <2>2, <2>3 DEF Exit, daemon, E!End, E!None
<1>9. CASE UNCHANGED vars
  BY <1>9 DEF vars, cores, daemon, Region, E!vars
<1> QED
  BY <1>1, <1>2, <1>3, <1>4, <1>5, <1>6, <1>7, <1>8, <1>9
     DEF Next, Daemon, Guard, E!Next

(* The ticker implements the epoch counter its users rely on.              *)
THEOREM Refinement == Spec => ImplementsEpochs
<1>1. Init => E!Init
  BY RefinementInit
<1>2. Inv /\ Inv' /\ [Next]_vars => [E!Next]_E!vars
  BY RefinementNext
<1> QED
  BY <1>1, <1>2, Invariance, PTL DEF Spec, ImplementsEpochs, E!Spec

-----------------------------------------------------------------------------
(* Reclamation.                                                            *)

(* RCU ticks: division rounds down, and so keeps the order.                *)
LEMMA DivMonotone ==
    ASSUME NEW a \in Nat, NEW b \in Nat, a <= b
    PROVE  /\ to_rcu_ticks(a) \in Nat /\ to_rcu_ticks(b) \in Nat
           /\ to_rcu_ticks(a) <= to_rcu_ticks(b)
BY RcuAssumption, SMTT(30) DEF to_rcu_ticks

(* The inductive invariant.  An entry is stamped with a tick that no       *)
(* region that may hold its object is beyond, because a core lags at most  *)
(* one tick; what is about to be freed is stamped with a tick that is over.*)
Entries(c) ==
    {queue[c][i] : i \in DOMAIN queue[c]} \cup
    {scratch[c][i] : i \in DOMAIN scratch[c]}
RefsInRegion == \A c \in Cores : refs[c] # {} => gpc[c] = "in"
Stamped ==
    \A c \in Cores : \A e \in Entries(c) :
        /\ e.obj \notin shared
        /\ \A d \in Cores : e.obj \in refs[d] => to_rcu_ticks(ti_tick[d]) <= e.tick
ScratchIsOver ==
    \A c \in Cores : \A i \in DOMAIN scratch[c] :
        scratch[c][i].tick < cleaning_rcu_tick_exclusive
FreedNotShared == freed \cap shared = {}
RcuInv ==
    /\ Inv /\ RcuTypeOK /\ RefsInRegion /\ Stamped /\ ScratchIsOver
    /\ FreedNotShared /\ NoUseAfterFree

(* What a step of the ticker can do to the users of its ticks.             *)
LEMMA TickerStep ==
    ASSUME Inv, [Next]_vars
    PROVE  /\ last_tick_inclusive' >= last_tick_inclusive
           /\ \A d \in Cores :
                 /\ ti_tick'[d] >= ti_tick[d]
                 /\ gpc[d] = "in" /\ ~Exit(d) =>
                       gpc'[d] = "in" /\ ti_tick'[d] = ti_tick[d]
<1> USE DEF Inv, TypeOK, DaemonInv, GuardInv
<1>1. CASE Daemon
  <2>1. CASE Bump
    BY <2>1 DEF Bump, cores
  <2>2. CASE CheckCore
    BY <2>2 DEF CheckCore, cores
  <2>3. CASE AdvanceCore
    BY <2>3 DEF AdvanceCore, Cores
  <2>4. CASE Publish
    BY <2>4 DEF Publish, cores
  <2> QED
    BY <1>1, <2>1, <2>2, <2>3, <2>4 DEF Daemon
<1>2. ASSUME NEW c \in Cores, Enter(c) \/ Lock(c) \/ ReadTick(c) \/ EnterNested(c)
                              \/ ExitNested(c) \/ Exit(c)
      PROVE  /\ UNCHANGED <<last_tick_inclusive, ti_tick>>
             /\ \A d \in Cores : gpc[d] = "in" /\ ~Exit(d) => gpc'[d] = "in"
  BY <1>2 DEF Enter, Lock, ReadTick, EnterNested, ExitNested, Exit, daemon
<1>3. ASSUME NEW c \in Cores, StoreTick(c)
      PROVE  /\ UNCHANGED last_tick_inclusive
             /\ gpc[c] # "in"
             /\ ti_tick' = [ti_tick EXCEPT ![c] = tick[c]] /\ ti_tick[c] <= tick[c]
             /\ \A d \in Cores : gpc[d] = "in" => gpc'[d] = "in"
  BY <1>3 DEF StoreTick, daemon
<1>4. CASE UNCHANGED vars
  BY <1>4 DEF vars, cores, daemon
<1>5. ASSUME NEW c \in Cores, Guard(c)
      PROVE  /\ last_tick_inclusive' >= last_tick_inclusive
             /\ \A d \in Cores :
                   /\ ti_tick'[d] >= ti_tick[d]
                   /\ gpc[d] = "in" /\ ~Exit(d) =>
                         gpc'[d] = "in" /\ ti_tick'[d] = ti_tick[d]
  <2>1. CASE StoreTick(c)
    BY <1>3, <2>1
  <2>2. CASE ~StoreTick(c)
    BY <1>2, <1>5, <2>2 DEF Guard
  <2> QED
    BY <2>1, <2>2
<1> QED
  BY <1>1, <1>4, <1>5 DEF Next

(* Every step of Rcu is a step of the ticker or leaves it alone.           *)
LEMMA RcuImpliesTicker == RcuNext => [Next]_vars
BY DEF RcuNext, RcuStep, Find, Retire, RcuEnter, RcuNested, RcuExit, DoCleanup,
       Free, Next, Guard

(* Ticks pass, regions begin and nest.                                     *)
LEMMA TicksPass ==
    ASSUME RcuInv, [Next]_vars, \A d \in Cores : ~Exit(d), UNCHANGED rcu
    PROVE  RcuInv'
<1>1. Inv'
  BY NextInv DEF RcuInv
<1>2. UNCHANGED <<shared, refs, queue, scratch, reaped, freed, cpc>>
  BY DEF rcu
<1>3. RcuTypeOK' /\ FreedNotShared' /\ NoUseAfterFree'
  BY <1>2 DEF RcuInv, RcuTypeOK, FreedNotShared, NoUseAfterFree
<1>4. RefsInRegion'
  BY <1>2, TickerStep DEF RcuInv, RefsInRegion
<1>5. Stamped'
  <2>1. \A c \in Cores : Entries(c)' = Entries(c)
    BY <1>2 DEF Entries
  <2>2. \A d \in Cores : refs[d] # {} => ti_tick'[d] = ti_tick[d]
    BY TickerStep DEF RcuInv, RefsInRegion
  <2> QED
    BY <1>2, <2>1, <2>2 DEF RcuInv, Stamped
<1>6. ScratchIsOver'
  <2>1. /\ cleaning_rcu_tick_exclusive \in Nat /\ cleaning_rcu_tick_exclusive' \in Nat
        /\ cleaning_rcu_tick_exclusive <= cleaning_rcu_tick_exclusive'
    BY <1>1, TickerStep, DivMonotone
       DEF RcuInv, Inv, TypeOK, cleaning_rcu_tick_exclusive
  <2>2. ASSUME NEW c \in Cores, NEW i \in DOMAIN scratch[c]
        PROVE  scratch[c][i].tick < cleaning_rcu_tick_exclusive'
    <3>1. scratch[c][i].tick \in Nat
      <4>1. scratch[c] \in Seq(DeleteEntries)
        BY DEF RcuInv, RcuTypeOK
      <4>2. scratch[c][i] \in DeleteEntries
        BY <4>1
      <4> QED
        BY <4>2 DEF DeleteEntries
    <3>2. scratch[c][i].tick < cleaning_rcu_tick_exclusive
      BY DEF RcuInv, ScratchIsOver
    <3> QED
      BY <2>1, <3>1, <3>2
  <2> QED
    BY <1>2, <2>2 DEF ScratchIsOver
<1> QED
  BY <1>1, <1>3, <1>4, <1>5, <1>6 DEF RcuInv

LEMMA RcuExitSafe ==
    ASSUME RcuInv, NEW c \in Cores, RcuExit(c)
    PROVE  RcuInv'
<1>1. Exit(c) /\ refs' = [refs EXCEPT ![c] = {}]
      /\ UNCHANGED <<shared, queue, scratch, reaped, freed, last_tick_inclusive, ti_tick>>
  BY DEF RcuExit, Exit, daemon
<1>2. Inv'
  BY <1>1, NextInv DEF RcuInv, Next, Guard
<1>3. \A d \in Cores : refs'[d] \subseteq refs[d] /\ (refs'[d] # {} => d # c)
  BY <1>1 DEF RcuInv, RcuTypeOK
<1>4. RcuTypeOK'
  BY <1>1 DEF RcuInv, RcuTypeOK, RcuExit
<1>5. RefsInRegion'
  BY <1>1, <1>3 DEF RcuInv, RefsInRegion, Exit, Inv, TypeOK
<1>6. Stamped'
  BY <1>1, <1>3 DEF RcuInv, Stamped, Entries
<1>7. ScratchIsOver' /\ FreedNotShared' /\ NoUseAfterFree'
  BY <1>1, <1>3 DEF RcuInv, ScratchIsOver, FreedNotShared, NoUseAfterFree,
                    cleaning_rcu_tick_exclusive
<1> QED
  BY <1>2, <1>4, <1>5, <1>6, <1>7 DEF RcuInv

(* What the ticker does not see leaves its invariant alone.                *)
LEMMA TickerStutter ==
    ASSUME Inv, UNCHANGED vars
    PROVE  /\ Inv'
           /\ UNCHANGED <<last_tick_inclusive, ti_tick, gpc>>
           /\ cleaning_rcu_tick_exclusive' = cleaning_rcu_tick_exclusive
<1>1. UNCHANGED <<last_tick_inclusive, ti_tick, gpc>>
  BY DEF vars, cores, daemon
<1> QED
  BY <1>1, NextInv DEF cleaning_rcu_tick_exclusive

(* What is found is shared, hence neither freed nor queued.                *)
LEMMA FindSafe ==
    ASSUME RcuInv, NEW c \in Cores, NEW o \in Objects, Find(c, o)
    PROVE  RcuInv'
<1>1. /\ gpc[c] = "in" /\ o \in shared /\ UNCHANGED vars
      /\ refs' = [refs EXCEPT ![c] = @ \cup {o}]
      /\ UNCHANGED <<shared, queue, scratch, reaped, freed, cpc>>
  BY DEF Find, InRegion
<1>2. Inv' /\ UNCHANGED <<last_tick_inclusive, ti_tick, gpc>>
      /\ cleaning_rcu_tick_exclusive' = cleaning_rcu_tick_exclusive
  BY <1>1, TickerStutter DEF RcuInv
<1>3. RcuTypeOK' /\ RefsInRegion'
  BY <1>1, <1>2 DEF RcuInv, RcuTypeOK, RefsInRegion
<1>4. Stamped'
  <2>1. \A d \in Cores : Entries(d)' = Entries(d)
    BY <1>1 DEF Entries
  <2>2. \A d \in Cores : \A q : q \in refs'[d] => q \in refs[d] \/ q \in shared
    BY <1>1 DEF RcuInv, RcuTypeOK
  <2> QED
    BY <1>1, <1>2, <2>1, <2>2 DEF RcuInv, Stamped
<1>5. ScratchIsOver' /\ FreedNotShared' /\ NoUseAfterFree'
  BY <1>1, <1>2 DEF RcuInv, RcuTypeOK, ScratchIsOver, FreedNotShared, NoUseAfterFree
<1> QED
  BY <1>2, <1>3, <1>4, <1>5 DEF RcuInv

(* No core is beyond the tick after the one that retires.                  *)
LEMMA RetireSafe ==
    ASSUME RcuInv, NEW c \in Cores, NEW o \in Objects, Retire(c, o)
    PROVE  RcuInv'
<1> DEFINE e == [obj |-> o, tick |-> to_rcu_ticks(ti_tick[c] + 1)]
<1>1. /\ o \in shared /\ UNCHANGED vars /\ shared' = shared \ {o}
      /\ queue' = [queue EXCEPT ![c] = Append(@, e)]
      /\ UNCHANGED <<refs, scratch, reaped, freed, cpc>>
  BY DEF Retire
<1>2. Inv' /\ UNCHANGED <<last_tick_inclusive, ti_tick, gpc>>
      /\ cleaning_rcu_tick_exclusive' = cleaning_rcu_tick_exclusive
  BY <1>1, TickerStutter DEF RcuInv
<1>3. ASSUME NEW d \in Cores
      PROVE  to_rcu_ticks(ti_tick[d]) <= e.tick /\ e \in DeleteEntries
  <2>1. ti_tick[d] \in Nat /\ ti_tick[c] + 1 \in Nat /\ ti_tick[d] <= ti_tick[c] + 1
    BY DEF RcuInv, Inv, TypeOK, DaemonInv
  <2> QED
    BY <2>1, DivMonotone DEF DeleteEntries
<1> HIDE DEF e
<1>4. RcuTypeOK'
  BY <1>1, <1>3 DEF RcuInv, RcuTypeOK
<1>5. \A d \in Cores : \A f \in Entries(d)' : f \in Entries(d) \/ f = e
  BY <1>1, <1>3 DEF Entries, RcuInv, RcuTypeOK
<1>6. Stamped'
  BY <1>1, <1>2, <1>3, <1>5 DEF RcuInv, Stamped, e
<1>7. RefsInRegion' /\ ScratchIsOver' /\ FreedNotShared' /\ NoUseAfterFree'
  BY <1>1, <1>2 DEF RcuInv, RefsInRegion, ScratchIsOver, FreedNotShared,
                    NoUseAfterFree
<1> QED
  BY <1>2, <1>4, <1>6, <1>7 DEF RcuInv

-----------------------------------------------------------------------------
(* do_cleanup cuts the queue in two.                                       *)
LEMMA CutQueue ==
    ASSUME NEW q \in Seq(DeleteEntries), NEW t, NEW n \in UpTo(q, t)
    PROVE  LET q1 == SubSeq(q, 1, n)
               q2 == SubSeq(q, n + 1, Len(q))
           IN /\ q1 \in Seq(DeleteEntries) /\ q2 \in Seq(DeleteEntries)
              /\ \A i \in DOMAIN q1 : i \in DOMAIN q /\ q1[i] = q[i] /\ q[i].tick <= t
              /\ \A i \in DOMAIN q2 : i + n \in DOMAIN q /\ q2[i] = q[i + n]
<1> DEFINE q1 == SubSeq(q, 1, n)
           q2 == SubSeq(q, n + 1, Len(q))
<1>1. n \in 0..Len(q) /\ \A i \in 1..n : q[i].tick <= t
  BY DEF UpTo
<1>2. q1 \in Seq(DeleteEntries) /\ Len(q1) = n /\ \A i \in 1..n : q1[i] = q[i]
  <2>1. \A i \in 1..n : q[i] \in DeleteEntries
    BY <1>1
  <2> QED
    BY <1>1, <2>1, SubSeqProperties
<1>3. /\ q2 \in Seq(DeleteEntries) /\ Len(q2) = Len(q) - n
      /\ \A i \in 1..(Len(q) - n) : q2[i] = q[i + n]
  <2>1. \A i \in (n + 1)..Len(q) : q[i] \in DeleteEntries
    BY <1>1
  <2> QED
    BY <1>1, <2>1, SubSeqProperties
<1> HIDE DEF q1, q2
<1>4. DOMAIN q1 = 1..n /\ DOMAIN q2 = 1..(Len(q) - n) /\ DOMAIN q = 1..Len(q)
  BY <1>1, <1>2, <1>3
<1>5. \A i \in 1..n : i \in 1..Len(q)
  BY <1>1
<1>6. \A i \in 1..(Len(q) - n) : i + n \in 1..Len(q)
  BY <1>1
<1> QED
  BY <1>1, <1>2, <1>3, <1>4, <1>5, <1>6 DEF q1, q2

LEMMA DoCleanupSafe ==
    ASSUME RcuInv, NEW c \in Cores, DoCleanup(c)
    PROVE  RcuInv'
<1>1. UNCHANGED vars /\ UNCHANGED <<shared, refs, freed>>
  BY DEF DoCleanup
<1>2. Inv' /\ UNCHANGED <<last_tick_inclusive, ti_tick, gpc>>
      /\ cleaning_rcu_tick_exclusive' = cleaning_rcu_tick_exclusive
  BY <1>1, TickerStutter DEF RcuInv
<1>3. RefsInRegion' /\ FreedNotShared' /\ NoUseAfterFree'
  BY <1>1, <1>2 DEF RcuInv, RefsInRegion, FreedNotShared, NoUseAfterFree
<1>4. cleaning_rcu_tick_exclusive \in Nat
  BY DivMonotone DEF RcuInv, Inv, TypeOK, cleaning_rcu_tick_exclusive
<1>5. RcuTypeOK' /\ ScratchIsOver' /\ \A d \in Cores : Entries(d)' \subseteq Entries(d)
  <2>1. CASE UNCHANGED <<queue, scratch, reaped>>
    <3>1. cpc' \in [Cores -> {"run", "clean", "open", "done"}]
      BY DEF DoCleanup, RcuInv, RcuTypeOK
    <3>2. RcuTypeOK'
      BY <1>1, <2>1, <3>1 DEF RcuInv, RcuTypeOK
    <3>3. ScratchIsOver' /\ \A d \in Cores : Entries(d)' = Entries(d)
      BY <1>2, <2>1 DEF RcuInv, ScratchIsOver, Entries
    <3> QED
      BY <3>2, <3>3
  <2>2. CASE ~UNCHANGED <<queue, scratch, reaped>>
    <3> DEFINE clean_tick == cleaning_rcu_tick_exclusive - 1
    <3>1. PICK n \in UpTo(queue[c], clean_tick) :
            /\ scratch' = [scratch EXCEPT ![c] = SubSeq(queue[c], 1, n)]
            /\ queue' = [queue EXCEPT ![c] = SubSeq(@, n + 1, Len(@))]
            /\ reaped' = [reaped EXCEPT ![c] = clean_tick]
            /\ cpc' = [cpc EXCEPT ![c] = IF n = 0 THEN "run" ELSE "open"]
            /\ cleaning_rcu_tick_exclusive # 0
      BY <2>2 DEF DoCleanup
    <3> DEFINE q1 == SubSeq(queue[c], 1, n)
               q2 == SubSeq(queue[c], n + 1, Len(queue[c]))
    <3>2. queue[c] \in Seq(DeleteEntries)
      BY DEF RcuInv, RcuTypeOK
    <3>3. /\ q1 \in Seq(DeleteEntries) /\ q2 \in Seq(DeleteEntries)
          /\ \A i \in DOMAIN q1 : /\ i \in DOMAIN queue[c] /\ q1[i] = queue[c][i]
                                  /\ queue[c][i].tick <= clean_tick
          /\ \A i \in DOMAIN q2 : i + n \in DOMAIN queue[c] /\ q2[i] = queue[c][i + n]
      BY <3>2, CutQueue
    <3>4. scratch' = [scratch EXCEPT ![c] = q1] /\ queue' = [queue EXCEPT ![c] = q2]
      BY <3>1
    <3> HIDE DEF q1, q2
    <3>5. RcuTypeOK'
      <4>1. scratch' \in [Cores -> Seq(DeleteEntries)]
            /\ queue' \in [Cores -> Seq(DeleteEntries)]
        BY <3>3, <3>4 DEF RcuInv, RcuTypeOK
      <4>2. clean_tick \in Nat
        BY <1>4, <3>1
      <4>3. reaped' \in [Cores -> Nat]
        BY <3>1, <4>2 DEF RcuInv, RcuTypeOK
      <4>4. cpc' \in [Cores -> {"run", "clean", "open", "done"}]
        BY <3>1 DEF RcuInv, RcuTypeOK
      <4> QED
        BY <1>1, <4>1, <4>3, <4>4 DEF RcuInv, RcuTypeOK
    <3>6. ASSUME NEW i \in DOMAIN q1 PROVE q1[i].tick < cleaning_rcu_tick_exclusive
      <4>1. q1[i] \in DeleteEntries /\ q1[i].tick <= clean_tick
        BY <3>3
      <4> QED
        BY <1>4, <4>1 DEF DeleteEntries
    <3>7. ScratchIsOver'
      BY <1>2, <3>4, <3>6 DEF RcuInv, RcuTypeOK, ScratchIsOver
    <3>8. ASSUME NEW d \in Cores PROVE Entries(d)' \subseteq Entries(d)
      <4>1. CASE d = c
        <5>1. queue'[c] = q2 /\ scratch'[c] = q1
          BY <3>4 DEF RcuInv, RcuTypeOK
        <5> QED
          BY <3>3, <4>1, <5>1 DEF Entries
      <4>2. CASE d # c
        BY <3>4, <4>2 DEF Entries, RcuInv, RcuTypeOK
      <4> QED
        BY <4>1, <4>2
    <3> QED
      BY <3>5, <3>7, <3>8
  <2> QED
    BY <2>1, <2>2
<1>6. Stamped'
  BY <1>1, <1>2, <1>5 DEF RcuInv, Stamped
<1> QED
  BY <1>2, <1>3, <1>5, <1>6 DEF RcuInv

(* The region of a reader that still held the object would be over.        *)
LEMMA FreeSafe ==
    ASSUME RcuInv, NEW c \in Cores, Free(c)
    PROVE  RcuInv'
<1>1. UNCHANGED vars /\ UNCHANGED <<shared, refs, queue, reaped>>
  BY DEF Free
<1>2. Inv' /\ UNCHANGED <<last_tick_inclusive, ti_tick, gpc>>
      /\ cleaning_rcu_tick_exclusive' = cleaning_rcu_tick_exclusive
  BY <1>1, TickerStutter DEF RcuInv
<1>3. RefsInRegion'
  BY <1>1, <1>2 DEF RcuInv, RefsInRegion
<1>4. scratch[c] \in Seq(DeleteEntries)
  BY DEF RcuInv, RcuTypeOK
<1>5. CASE scratch[c] = <<>>
  <2>1. UNCHANGED <<freed, scratch>> /\ cpc' = [cpc EXCEPT ![c] = "done"]
    BY <1>5 DEF Free
  <2> QED
    BY <1>1, <1>2, <1>3, <2>1
       DEF RcuInv, RcuTypeOK, Stamped, Entries, ScratchIsOver, FreedNotShared,
           NoUseAfterFree
<1>6. CASE scratch[c] # <<>>
  <2> DEFINE e == scratch[c][1]
  <2>1. /\ freed' = freed \cup {e.obj} /\ UNCHANGED cpc
        /\ scratch' = [scratch EXCEPT ![c] = Tail(@)]
    BY <1>6 DEF Free
  <2>2. /\ 1 \in DOMAIN scratch[c] /\ e \in DeleteEntries /\ e \in Entries(c)
        /\ Tail(scratch[c]) \in Seq(DeleteEntries)
        /\ \A i \in DOMAIN Tail(scratch[c]) :
              i + 1 \in DOMAIN scratch[c] /\ Tail(scratch[c])[i] = scratch[c][i + 1]
    BY <1>4, <1>6 DEF Entries
  <2>3. e.tick < cleaning_rcu_tick_exclusive
    BY <2>2 DEF RcuInv, ScratchIsOver
  <2>4. e.tick \in Nat /\ e.obj \in Objects /\ e.obj \notin shared
    BY <2>2 DEF DeleteEntries, RcuInv, Stamped
  <2>5. ASSUME NEW d \in Cores, e.obj \in refs[d] PROVE FALSE
    <3>1. to_rcu_ticks(ti_tick[d]) <= e.tick
      BY <2>2, <2>5 DEF RcuInv, Stamped
    <3>2. /\ last_tick_inclusive + 1 \in Nat /\ ti_tick[d] \in Nat
          /\ last_tick_inclusive + 1 <= ti_tick[d]
      BY DEF RcuInv, Inv, TypeOK, DaemonInv
    <3>3. /\ cleaning_rcu_tick_exclusive \in Nat /\ to_rcu_ticks(ti_tick[d]) \in Nat
          /\ cleaning_rcu_tick_exclusive <= to_rcu_ticks(ti_tick[d])
      BY <3>2, DivMonotone DEF cleaning_rcu_tick_exclusive
    <3> QED
      BY <2>3, <2>4, <3>1, <3>3
  <2> HIDE DEF e
  <2>6. RcuTypeOK'
    BY <1>1, <2>1, <2>2, <2>4 DEF RcuInv, RcuTypeOK
  <2>7. \A d \in Cores : Entries(d)' \subseteq Entries(d)
    BY <1>1, <2>1, <2>2 DEF Entries, RcuInv, RcuTypeOK
  <2>8. Stamped'
    BY <1>1, <1>2, <2>7 DEF RcuInv, Stamped
  <2>9. ScratchIsOver'
    BY <1>2, <2>1, <2>2 DEF RcuInv, RcuTypeOK, ScratchIsOver
  <2>10. FreedNotShared' /\ NoUseAfterFree'
    BY <1>1, <2>1, <2>4, <2>5 DEF RcuInv, FreedNotShared, NoUseAfterFree
  <2> QED
    BY <1>2, <1>3, <2>6, <2>8, <2>9, <2>10 DEF RcuInv
<1> QED
  BY <1>5, <1>6
-----------------------------------------------------------------------------
LEMMA InitRcu == RcuInit => RcuInv
<1> SUFFICES ASSUME RcuInit PROVE RcuInv
  OBVIOUS
<1>1. Inv
  BY InitInv DEF RcuInit
<1>2. RcuTypeOK
  BY DEF RcuInit, RcuTypeOK
<1>3. RefsInRegion /\ Stamped /\ ScratchIsOver /\ FreedNotShared /\ NoUseAfterFree
  BY DEF RcuInit, RefsInRegion, Stamped, Entries, ScratchIsOver, FreedNotShared,
         NoUseAfterFree
<1> QED
  BY <1>1, <1>2, <1>3 DEF RcuInv

(* A region ends in RcuExit only.                                          *)
LEMMA OnlyExitEnds ==
    ASSUME RcuInv, Daemon \/ \E c \in Cores : RcuEnter(c) \/ RcuNested(c)
    PROVE  \A d \in Cores : ~Exit(d)
<1> USE DEF RcuInv, Inv, TypeOK
<1>1. CASE Daemon
  BY <1>1 DEF Daemon, Bump, CheckCore, AdvanceCore, Publish, cores, Exit
<1>2. ASSUME NEW c \in Cores, RcuEnter(c) PROVE \A d \in Cores : ~Exit(d)
  BY <1>2 DEF RcuEnter, Enter, Lock, ReadTick, StoreTick, Exit
<1>3. ASSUME NEW c \in Cores, RcuNested(c) PROVE \A d \in Cores : ~Exit(d)
  BY <1>3 DEF RcuNested, EnterNested, ExitNested, Exit
<1> QED
  BY <1>1, <1>2, <1>3

LEMMA NextRcu == RcuInv /\ [RcuNext]_rcuvars => RcuInv'
<1> SUFFICES ASSUME RcuInv, [RcuNext]_rcuvars PROVE RcuInv'
  OBVIOUS
<1>1. CASE Daemon /\ UNCHANGED rcu
  BY <1>1, OnlyExitEnds, TicksPass DEF Next
<1>2. ASSUME NEW c \in Cores, RcuEnter(c) \/ RcuNested(c) PROVE RcuInv'
  <2>1. [Next]_vars /\ UNCHANGED rcu
    BY <1>2 DEF RcuEnter, RcuNested, Next, Guard
  <2> QED
    BY <1>2, <2>1, OnlyExitEnds, TicksPass
<1>3. ASSUME NEW c \in Cores, NEW o \in Objects, Find(c, o) \/ Retire(c, o)
      PROVE  RcuInv'
  BY <1>3, FindSafe, RetireSafe
<1>4. ASSUME NEW c \in Cores, RcuExit(c) \/ DoCleanup(c) \/ Free(c) PROVE RcuInv'
  BY <1>4, RcuExitSafe, DoCleanupSafe, FreeSafe
<1>5. CASE UNCHANGED rcuvars
  <2>1. UNCHANGED vars /\ UNCHANGED rcu
    BY <1>5 DEF rcuvars
  <2>2. \A d \in Cores : ~Exit(d)
    BY <2>1 DEF RcuInv, Inv, TypeOK, vars, cores, Exit
  <2> QED
    BY <2>1, <2>2, TicksPass
<1> QED
  BY <1>1, <1>2, <1>3, <1>4, <1>5 DEF RcuNext, RcuStep

(* The inductive invariant holds in every state of the deferred frees, for *)
(* any number of threads, objects and passes.                              *)
THEOREM RcuInvariance == RcuSpec => []RcuInv
<1>1. RcuInit => RcuInv
  BY InitRcu
<1>2. RcuInv /\ [RcuNext]_rcuvars => RcuInv'
  BY NextRcu
<1> QED
  BY <1>1, <1>2, PTL DEF RcuSpec

(* The types of the state hold for every number of cores and objects.      *)
THEOREM RcuTypeCorrect == RcuSpec => []RcuTypeOK
BY RcuInvariance, PTL DEF RcuInv

(* Memory is released only when no region can still hold a pointer to it.  *)
THEOREM ReclamationSafety == RcuSpec => []NoUseAfterFree
BY RcuInvariance, PTL DEF RcuInv

(* The ticks RCU waits for keep the promise of Epochs: using the guards of *)
(* the ticker does not take them outside its specification.                *)
THEOREM RcuKeepsEpochs == RcuSpec => ImplementsEpochs
<1>1. RcuInit => Init
  BY DEF RcuInit
<1>2. [RcuNext]_rcuvars => [Next]_vars
  BY RcuImpliesTicker DEF rcuvars
<1>3. RcuSpec => Spec
  BY <1>1, <1>2, PTL DEF RcuSpec, Spec
<1> QED
  BY <1>3, Refinement

-----------------------------------------------------------------------------
(* Where objects wait.  scratch_ is empty unless do_cleanup is freeing, so *)
(* that cutting the queue in two moves no entry: scratch_ followed by the  *)
(* queue changes at its ends only.                                         *)
Entry(c, i) == Waiting(c)[i].obj
Placed ==
    /\ \A c, d \in Cores : \A i \in DOMAIN Waiting(c), j \in DOMAIN Waiting(d) :
          Entry(c, i) = Entry(d, j) => c = d /\ i = j
    /\ \A c \in Cores : \A i \in DOMAIN Waiting(c) : Entry(c, i) \notin shared \cup freed
    /\ \A o \in Objects \ (shared \cup freed) :
          \E c \in Cores : \E i \in DOMAIN Waiting(c) : Entry(c, i) = o
ScratchWhileOpen == \A c \in Cores : scratch[c] # <<>> => cpc[c] = "open"

(* A core's entries are stamped no later than it would stamp one now.      *)
StampsInReach ==
    \A c \in Cores : \A i \in DOMAIN queue[c] :
        queue[c][i].tick <= to_rcu_ticks(ti_tick[c] + 1)
WaitInv == Placed /\ ScratchWhileOpen /\ StampsInReach /\ QueuesInOrder

LEMMA WaitingTypes ==
    ASSUME RcuInv, NEW c \in Cores
    PROVE  /\ queue[c] \in Seq(DeleteEntries) /\ scratch[c] \in Seq(DeleteEntries)
           /\ Waiting(c) \in Seq(DeleteEntries)
           /\ Len(Waiting(c)) = Len(scratch[c]) + Len(queue[c])
           /\ \A i \in DOMAIN queue[c] : queue[c][i].tick \in Nat
<1>1. queue[c] \in Seq(DeleteEntries) /\ scratch[c] \in Seq(DeleteEntries)
  BY DEF RcuInv, RcuTypeOK
<1>2. \A i \in DOMAIN queue[c] : queue[c][i].tick \in Nat
  <2>1. \A i \in DOMAIN queue[c] : queue[c][i] \in DeleteEntries
    BY <1>1
  <2> QED
    BY <2>1 DEF DeleteEntries
<1> QED
  BY <1>1, <1>2, ConcatProperties DEF Waiting

LEMMA AppendToConcat ==
    ASSUME NEW s \in Seq(DeleteEntries), NEW q \in Seq(DeleteEntries), NEW e \in DeleteEntries
    PROVE  s \o Append(q, e) = Append(s \o q, e)
<1>1. /\ Append(q, e) = q \o <<e>> /\ <<e>> \in Seq(DeleteEntries)
      /\ s \o q \in Seq(DeleteEntries) /\ Append(s \o q, e) = (s \o q) \o <<e>>
  BY AppendIsConcat, ConcatProperties
<1>2. s \o (q \o <<e>>) = (s \o q) \o <<e>>
  BY <1>1, ConcatAssociative
<1> QED
  BY <1>1, <1>2

(* A step that moves no object.                                            *)
LEMMA NothingMoves ==
    ASSUME Placed, UNCHANGED <<shared, freed>>, \A c \in Cores : Waiting(c)' = Waiting(c)
    PROVE  Placed'
BY DEF Placed, Entry

(* Ticks pass: cores and the published tick go forward.                    *)
LEMMA TicksKeepOrder ==
    ASSUME RcuInv, WaitInv, [Next]_vars, UNCHANGED <<queue, reaped>>
    PROVE  StampsInReach' /\ QueuesInOrder'
<1>1. Inv' /\ last_tick_inclusive' >= last_tick_inclusive
      /\ \A d \in Cores : ti_tick'[d] >= ti_tick[d]
  BY NextInv, TickerStep DEF RcuInv
<1>2. /\ last_tick_inclusive \in Nat /\ last_tick_inclusive' \in Nat
      /\ ti_tick \in [Cores -> Nat] /\ ti_tick' \in [Cores -> Nat]
      /\ reaped \in [Cores -> Nat]
  BY <1>1 DEF RcuInv, RcuTypeOK, Inv, TypeOK
<1>3. /\ cleaning_rcu_tick_exclusive \in Nat /\ cleaning_rcu_tick_exclusive' \in Nat
      /\ cleaning_rcu_tick_exclusive <= cleaning_rcu_tick_exclusive'
  BY <1>1, <1>2, DivMonotone DEF cleaning_rcu_tick_exclusive
<1>4. ASSUME NEW c \in Cores, NEW i \in DOMAIN queue[c]
      PROVE  queue[c][i].tick <= to_rcu_ticks(ti_tick'[c] + 1)
  <2>1. ti_tick[c] + 1 \in Nat /\ ti_tick'[c] + 1 \in Nat /\ ti_tick[c] + 1 <= ti_tick'[c] + 1
    BY <1>1, <1>2
  <2>2. /\ to_rcu_ticks(ti_tick[c] + 1) \in Nat /\ to_rcu_ticks(ti_tick'[c] + 1) \in Nat
        /\ to_rcu_ticks(ti_tick[c] + 1) <= to_rcu_ticks(ti_tick'[c] + 1)
    BY <2>1, DivMonotone
  <2>3. queue[c][i].tick \in Nat /\ queue[c][i].tick <= to_rcu_ticks(ti_tick[c] + 1)
    BY WaitingTypes DEF WaitInv, StampsInReach
  <2> QED
    BY <2>2, <2>3
<1>5. StampsInReach'
  BY <1>4 DEF StampsInReach
<1>6. ASSUME NEW c \in Cores
      PROVE  reaped[c] = 0 \/ reaped[c] < cleaning_rcu_tick_exclusive'
  <2>1. reaped[c] \in Nat /\ (reaped[c] = 0 \/ reaped[c] < cleaning_rcu_tick_exclusive)
    BY <1>2 DEF WaitInv, QueuesInOrder
  <2> QED
    BY <1>3, <2>1
<1>7. QueuesInOrder'
  BY <1>6 DEF WaitInv, QueuesInOrder
<1> QED
  BY <1>5, <1>7

(* What the ticker does not see.                                           *)
LEMMA OrderFrame ==
    ASSUME RcuInv, WaitInv, UNCHANGED vars, UNCHANGED <<queue, reaped>>
    PROVE  StampsInReach' /\ QueuesInOrder'
BY TicksKeepOrder

(* Steps that move no object, with or without the ticker.                  *)
LEMMA WaitFrame ==
    ASSUME RcuInv, WaitInv, [Next]_vars, UNCHANGED <<shared, freed, queue, scratch, reaped>>,
           \A c \in Cores : scratch[c] # <<>> => cpc'[c] = "open"
    PROVE  WaitInv'
<1>1. Placed'
  BY NothingMoves DEF WaitInv, Waiting
<1>2. ScratchWhileOpen'
  BY DEF ScratchWhileOpen
<1> QED
  BY <1>1, <1>2, TicksKeepOrder DEF WaitInv

(* Only a core that is not freeing ends its region.                        *)
LEMMA RcuExitWaits ==
    ASSUME RcuInv, WaitInv, NEW c \in Cores, RcuExit(c)
    PROVE  WaitInv'
<1>1. /\ cpc[c] # "open" /\ cpc' = [cpc EXCEPT ![c] = "clean"] /\ Exit(c)
      /\ UNCHANGED <<shared, queue, scratch, reaped, freed>>
  BY DEF RcuExit
<1>2. \A d \in Cores : scratch[d] # <<>> => cpc'[d] = "open"
  BY <1>1 DEF WaitInv, ScratchWhileOpen, RcuInv, RcuTypeOK
<1>3. [Next]_vars
  BY <1>1 DEF Next, Guard
<1> QED
  BY <1>1, <1>2, <1>3, WaitFrame

(* The retired object goes to the end, with the latest stamp of its core.  *)
LEMMA RetireWaits ==
    ASSUME RcuInv, WaitInv, NEW c \in Cores, NEW o \in Objects, Retire(c, o)
    PROVE  WaitInv'
<1> DEFINE e == [obj |-> o, tick |-> to_rcu_ticks(ti_tick[c] + 1)]
           q == queue[c]
<1>1. /\ o \in shared /\ UNCHANGED vars /\ shared' = shared \ {o}
      /\ queue' = [queue EXCEPT ![c] = Append(q, e)]
      /\ UNCHANGED <<refs, scratch, reaped, freed, cpc>>
  BY DEF Retire
<1>2. /\ UNCHANGED <<last_tick_inclusive, ti_tick, gpc>>
      /\ cleaning_rcu_tick_exclusive' = cleaning_rcu_tick_exclusive
      /\ ti_tick[c] \in Nat /\ last_tick_inclusive \in Nat
      /\ last_tick_inclusive + 1 <= ti_tick[c] /\ reaped[c] \in Nat
  <2>1. /\ UNCHANGED <<last_tick_inclusive, ti_tick, gpc>>
        /\ cleaning_rcu_tick_exclusive' = cleaning_rcu_tick_exclusive
    BY <1>1, TickerStutter DEF RcuInv
  <2>2. reaped[c] \in Nat
    BY DEF RcuInv, RcuTypeOK
  <2> QED
    BY <2>1, <2>2 DEF RcuInv, Inv, TypeOK, DaemonInv
<1>3. q \in Seq(DeleteEntries) /\ scratch[c] \in Seq(DeleteEntries)
      /\ queue \in [Cores -> Seq(DeleteEntries)]
  BY WaitingTypes DEF RcuInv, RcuTypeOK
<1>4. e.tick \in Nat /\ e \in DeleteEntries /\ e.obj = o /\ e.tick = to_rcu_ticks(ti_tick[c] + 1)
  BY <1>2, DivMonotone DEF DeleteEntries
<1> HIDE DEF e
<1>5. /\ queue'[c] = Append(q, e) /\ Append(q, e) \in Seq(DeleteEntries)
      /\ Len(Append(q, e)) = Len(q) + 1 /\ Append(q, e)[Len(q) + 1] = e
      /\ \A i \in 1..Len(q) : Append(q, e)[i] = q[i]
      /\ \A d \in Cores \ {c} : queue'[d] = queue[d]
  BY <1>1, <1>3, <1>4, AppendProperties
<1>6. StampsInReach'
  <2>1. \A i \in DOMAIN Append(q, e) : i \in DOMAIN q \/ Append(q, e)[i] = e
    BY <1>3, <1>5
  <2>2. \A i \in DOMAIN q : q[i].tick <= to_rcu_ticks(ti_tick[c] + 1) /\ Append(q, e)[i] = q[i]
    BY <1>3, <1>5 DEF WaitInv, StampsInReach
  <2>3. \A i \in DOMAIN Append(q, e) : Append(q, e)[i].tick <= to_rcu_ticks(ti_tick[c] + 1)
    BY <1>4, <2>1, <2>2
  <2> QED
    BY <1>1, <1>2, <1>5, <2>3 DEF WaitInv, StampsInReach
<1>7. reaped[c] = 0 \/ reaped[c] < e.tick
  <2>1. /\ cleaning_rcu_tick_exclusive \in Nat
        /\ cleaning_rcu_tick_exclusive <= to_rcu_ticks(ti_tick[c] + 1)
    BY <1>2, DivMonotone DEF cleaning_rcu_tick_exclusive
  <2>2. reaped[c] = 0 \/ reaped[c] < cleaning_rcu_tick_exclusive
    BY DEF WaitInv, QueuesInOrder
  <2> QED
    BY <1>2, <1>4, <2>1, <2>2
<1>8. QueuesInOrder'
  <2>1. DOMAIN q = 1..Len(q) /\ DOMAIN Append(q, e) = 1..(Len(q) + 1) /\ Len(q) \in Nat
    BY <1>3, <1>5
  <2>2. ASSUME NEW i \in DOMAIN Append(q, e), NEW j \in DOMAIN Append(q, e), i < j
        PROVE  Append(q, e)[i].tick <= Append(q, e)[j].tick
    <3>1. i \in DOMAIN q /\ Append(q, e)[i] = q[i] /\ q[i].tick <= e.tick
      BY <1>4, <1>5, <2>1, <2>2 DEF WaitInv, StampsInReach
    <3>2. CASE j \in DOMAIN q
      BY <1>5, <2>1, <2>2, <3>1, <3>2 DEF WaitInv, QueuesInOrder
    <3>3. CASE j = Len(q) + 1
      BY <1>5, <3>1, <3>3
    <3> QED
      BY <2>1, <3>2, <3>3
  <2>3. ASSUME NEW i \in DOMAIN Append(q, e)
        PROVE  reaped[c] = 0 \/ Append(q, e)[i].tick > reaped[c]
    <3>1. CASE i \in DOMAIN q
      BY <1>5, <2>1, <3>1 DEF WaitInv, QueuesInOrder
    <3>2. CASE i = Len(q) + 1
      BY <1>2, <1>4, <1>5, <1>7, <3>2
    <3> QED
      BY <2>1, <3>1, <3>2
  <2>4. ASSUME NEW d \in Cores
        PROVE  /\ reaped'[d] = 0 \/ reaped'[d] < cleaning_rcu_tick_exclusive'
               /\ \A i, j \in DOMAIN queue'[d] : i < j => queue'[d][i].tick <= queue'[d][j].tick
               /\ \A i \in DOMAIN queue'[d] : reaped'[d] = 0 \/ queue'[d][i].tick > reaped'[d]
    <3>1. CASE d = c
      BY <1>1, <1>2, <1>5, <2>2, <2>3, <3>1 DEF WaitInv, QueuesInOrder
    <3>2. CASE d # c
      BY <1>1, <1>2, <1>5, <3>2 DEF WaitInv, QueuesInOrder
    <3> QED
      BY <3>1, <3>2
  <2> QED
    BY <2>4 DEF QueuesInOrder
<1>9. Placed'
  <2> DEFINE w == Waiting(c)
  <2>0. PICK n : n = Len(w) + 1
    OBVIOUS
  <2>1. /\ w \in Seq(DeleteEntries) /\ Waiting(c)' = Append(w, e)
        /\ \A d \in Cores \ {c} : Waiting(d)' = Waiting(d)
    <3>1. scratch[c] \o Append(q, e) = Append(scratch[c] \o q, e)
      <4>1. scratch[c] \in Seq(DeleteEntries) /\ q \in Seq(DeleteEntries) /\ e \in DeleteEntries
        BY <1>3, <1>4
      <4> HIDE DEF q
      <4> QED
        BY <4>1, AppendToConcat
    <3> QED
      BY <1>1, <1>5, <3>1, WaitingTypes DEF Waiting
  <2>2. /\ DOMAIN w = 1..Len(w) /\ DOMAIN Append(w, e) = 1..n /\ n = Len(w) + 1 /\ Len(w) \in Nat
        /\ Append(w, e)[n] = e /\ \A i \in DOMAIN w : Append(w, e)[i] = w[i]
    <3>1. /\ Append(w, e) \in Seq(DeleteEntries) /\ Len(Append(w, e)) = Len(w) + 1
          /\ \A i \in 1..Len(w) : Append(w, e)[i] = w[i]
          /\ Append(w, e)[Len(w) + 1] = e
      BY <1>4, <2>1, AppendProperties
    <3>2. DOMAIN w = 1..Len(w) /\ Len(w) \in Nat
      BY <2>1
    <3>3. DOMAIN Append(w, e) = 1..Len(Append(w, e))
      BY <3>1
    <3> QED
      BY <2>0, <3>1, <3>2, <3>3
  <2>3. /\ DOMAIN Waiting(c)' = DOMAIN Waiting(c) \cup {n} /\ n \notin DOMAIN Waiting(c)
        /\ Entry(c, n)' = o /\ \A i \in DOMAIN Waiting(c) : Entry(c, i)' = Entry(c, i)
    <3>1. 1..n = (1..Len(w)) \cup {n} /\ n \notin 1..Len(w)
      BY <2>2
    <3>2. DOMAIN Waiting(c)' = 1..n /\ DOMAIN Waiting(c) = 1..Len(w) /\ Waiting(c)'[n] = e
          /\ \A i \in DOMAIN Waiting(c) : Waiting(c)'[i] = Waiting(c)[i]
      BY <2>1, <2>2
    <3> QED
      BY <1>4, <3>1, <3>2 DEF Entry
  <2>4. \A d \in Cores \ {c} : /\ DOMAIN Waiting(d)' = DOMAIN Waiting(d)
                               /\ \A i : Entry(d, i)' = Entry(d, i)
    BY <2>1 DEF Entry
  <2>5. \A d \in Cores : \A i \in DOMAIN Waiting(d)' :
           \/ i \in DOMAIN Waiting(d) /\ Entry(d, i)' = Entry(d, i)
           \/ d = c /\ i = n /\ Entry(d, i)' = o
    <3> TAKE d \in Cores
    <3>1. CASE d = c
      BY <2>3, <3>1
    <3>2. CASE d # c
      BY <2>4, <3>2
    <3> QED
      BY <3>1, <3>2
  <2>6. \A d \in Cores : \A i \in DOMAIN Waiting(d) : Entry(d, i) # o
    BY <1>1 DEF WaitInv, Placed
  <2>7. \A d \in Cores : \A i \in DOMAIN Waiting(d) :
           i \in DOMAIN Waiting(d)' /\ Entry(d, i)' = Entry(d, i)
    BY <2>3, <2>4
  <2>8. o \notin freed
    BY <1>1 DEF RcuInv, FreedNotShared
  <2>9. \A d, f \in Cores : \A i \in DOMAIN Waiting(d)', j \in DOMAIN Waiting(f)' :
          Entry(d, i)' = Entry(f, j)' => d = f /\ i = j
    BY <2>5, <2>6 DEF WaitInv, Placed
  <2>10. \A d \in Cores : \A i \in DOMAIN Waiting(d)' : Entry(d, i)' \notin shared' \cup freed'
    BY <1>1, <2>5, <2>8 DEF WaitInv, Placed
  <2>11. \A p \in Objects \ (shared' \cup freed') :
            \E d \in Cores : \E i \in DOMAIN Waiting(d)' : Entry(d, i)' = p
    <3> SUFFICES ASSUME NEW p \in Objects \ (shared' \cup freed')
                 PROVE  \E d \in Cores : \E i \in DOMAIN Waiting(d)' : Entry(d, i)' = p
      OBVIOUS
    <3>1. CASE p = o
      BY <2>3, <3>1
    <3>2. CASE p # o
      <4>1. PICK d \in Cores : \E i \in DOMAIN Waiting(d) : Entry(d, i) = p
        BY <1>1, <3>2 DEF WaitInv, Placed
      <4> QED
        BY <2>7, <4>1
    <3> QED
      BY <3>1, <3>2
  <2> QED
    BY <2>9, <2>10, <2>11 DEF Placed
<1>10. ScratchWhileOpen'
  BY <1>1 DEF WaitInv, ScratchWhileOpen
<1> QED
  BY <1>6, <1>8, <1>9, <1>10 DEF WaitInv


(* The cut: what stays is later than the tick that was reaped, because the *)
(* queue is in order and its next entry is later.                          *)
LEMMA CutWaits ==
    ASSUME RcuInv, WaitInv, NEW c \in Cores, NEW t \in Nat,
           NEW n \in UpTo(queue[c], t),
           n + 1 \notin UpTo(queue[c], t)
    PROVE  LET q2 == SubSeq(queue[c], n + 1, Len(queue[c]))
           IN /\ \A i \in DOMAIN q2 : q2[i].tick > t
              /\ \A i, j \in DOMAIN q2 : i < j => q2[i].tick <= q2[j].tick
              /\ \A i \in DOMAIN q2 : q2[i].tick <= to_rcu_ticks(ti_tick[c] + 1)
              /\ SubSeq(queue[c], 1, n) \o q2 = queue[c]
<1> DEFINE q == queue[c]
           q2 == SubSeq(q, n + 1, Len(q))
<1>1. /\ q \in Seq(DeleteEntries) /\ DOMAIN q = 1..Len(q) /\ Len(q) \in Nat
      /\ \A i \in DOMAIN q : q[i].tick \in Nat
  <2>1. q \in Seq(DeleteEntries) /\ \A i \in DOMAIN q : q[i].tick \in Nat
    BY WaitingTypes
  <2> QED
    BY <2>1
<1>2. n \in 0..Len(q) /\ \A i \in 1..n : q[i].tick <= t
  BY DEF UpTo
<1>3. /\ q2 \in Seq(DeleteEntries) /\ Len(q2) = Len(q) - n
      /\ \A i \in 1..(Len(q) - n) : q2[i] = q[i + n]
  <2>1. \A i \in (n + 1)..Len(q) : q[i] \in DeleteEntries
    BY <1>1, <1>2
  <2> QED
    BY <1>1, <1>2, <2>1, SubSeqProperties
<1>4. DOMAIN q2 = 1..(Len(q) - n)
  BY <1>3
<1>5. n < Len(q) => q[n + 1].tick > t
  <2>1. SUFFICES ASSUME n < Len(q), ~(q[n + 1].tick > t) PROVE FALSE
    OBVIOUS
  <2>2. n + 1 \in 0..Len(q) /\ n + 1 \in DOMAIN q
    BY <1>1, <1>2, <2>1
  <2>3. q[n + 1].tick <= t
    BY <1>1, <2>1, <2>2
  <2>4. \A i \in 1..(n + 1) : q[i].tick <= t
    <3> TAKE i \in 1..(n + 1)
    <3>1. CASE i = n + 1
      BY <2>3, <3>1
    <3>2. CASE i # n + 1
      BY <1>2, <3>2
    <3> QED
      BY <3>1, <3>2
  <2> QED
    BY <2>2, <2>4 DEF UpTo
<1>6. ASSUME NEW i \in DOMAIN q2
      PROVE  q2[i] = q[i + n] /\ i + n \in DOMAIN q /\ q2[i].tick > t
  <2>1. q2[i] = q[i + n] /\ i + n \in DOMAIN q /\ n + 1 \in DOMAIN q /\ n < Len(q) /\ i \in Nat
    BY <1>1, <1>2, <1>3, <1>4
  <2>2. i = 1 \/ n + 1 < i + n
    BY <1>2, <1>4
  <2>3. q[n + 1].tick \in Nat /\ q[i + n].tick \in Nat
    BY <1>1, <2>1
  <2>4. n + 1 < i + n => q[n + 1].tick <= q[i + n].tick
    BY <2>1 DEF WaitInv, QueuesInOrder
  <2>5. i = 1 => n + 1 = i + n
    BY <1>2
  <2>6. q[n + 1].tick <= q[i + n].tick
    BY <2>2, <2>3, <2>4, <2>5
  <2>7. q[n + 1].tick > t
    BY <1>5, <2>1
  <2>8. q[i + n].tick > t
    BY <2>3, <2>6, <2>7
  <2> QED
    BY <2>1, <2>8
<1>7. ASSUME NEW i \in DOMAIN q2, NEW j \in DOMAIN q2, i < j
      PROVE  q2[i].tick <= q2[j].tick
  <2>1. i + n < j + n
    BY <1>2, <1>4, <1>7
  <2> QED
    BY <1>6, <2>1 DEF WaitInv, QueuesInOrder
<1>8. ASSUME NEW i \in DOMAIN q2 PROVE q2[i].tick <= to_rcu_ticks(ti_tick[c] + 1)
  BY <1>6 DEF WaitInv, StampsInReach
<1>9. SubSeq(q, 1, n) \o q2 = q
  <2>1. SubSeq(q, 1, Len(q)) = q
    BY <1>1, SubSeqFull
  <2>2. CASE n = 0
    BY <1>1, <2>1, <2>2, SubSeqEmpty, ConcatEmptySeq
  <2>3. CASE n = Len(q)
    <3>1. q2 = <<>>
      BY <1>1, <1>3, <2>3, EmptySeq
    <3> QED
      BY <1>1, <2>1, <2>3, <3>1, ConcatEmptySeq
  <2>4. CASE n # 0 /\ n # Len(q)
    <3>1. n \in 1..Len(q) /\ n + 1 \in 1..Len(q)
      BY <1>2, <2>4
    <3> QED
      BY <1>1, <2>1, <3>1, ConcatAdjacentSubSeq
  <2> QED
    BY <2>2, <2>3, <2>4
<1> QED
  BY <1>6, <1>7, <1>8, <1>9

LEMMA DoCleanupWaits ==
    ASSUME RcuInv, WaitInv, NEW c \in Cores, DoCleanup(c)
    PROVE  WaitInv'
<1> DEFINE clean_tick == cleaning_rcu_tick_exclusive - 1
           q == queue[c]
<1>1. cpc[c] = "clean" /\ UNCHANGED vars /\ UNCHANGED <<shared, refs, freed>>
  BY DEF DoCleanup
<1>2. scratch[c] = <<>>
  BY <1>1 DEF WaitInv, ScratchWhileOpen
<1>3. CASE UNCHANGED <<queue, scratch, reaped>>
  <2>1. \A d \in Cores \ {c} : cpc'[d] = cpc[d]
    BY DEF DoCleanup, RcuInv, RcuTypeOK
  <2>2. \A d \in Cores : scratch[d] # <<>> => cpc'[d] = "open"
    BY <1>2, <2>1 DEF WaitInv, ScratchWhileOpen
  <2> QED
    BY <1>1, <1>3, <2>2, WaitFrame
<1>4. CASE ~UNCHANGED <<queue, scratch, reaped>>
  <2>1. PICK n \in UpTo(q, clean_tick) :
          /\ n + 1 \notin UpTo(q, clean_tick)
          /\ scratch' = [scratch EXCEPT ![c] = SubSeq(q, 1, n)]
          /\ queue' = [queue EXCEPT ![c] = SubSeq(q, n + 1, Len(q))]
          /\ reaped' = [reaped EXCEPT ![c] = clean_tick]
          /\ cpc' = [cpc EXCEPT ![c] = IF n = 0 THEN "run" ELSE "open"]
          /\ cleaning_rcu_tick_exclusive # 0
    BY <1>4 DEF DoCleanup
  <2> DEFINE q1 == SubSeq(q, 1, n)
             q2 == SubSeq(q, n + 1, Len(q))
  <2>2. cleaning_rcu_tick_exclusive \in Nat /\ clean_tick \in Nat
        /\ clean_tick < cleaning_rcu_tick_exclusive
    <3>1. last_tick_inclusive + 1 \in Nat
      BY DEF RcuInv, Inv, TypeOK
    <3>2. cleaning_rcu_tick_exclusive \in Nat
      BY <3>1, DivMonotone DEF cleaning_rcu_tick_exclusive
    <3> QED
      BY <2>1, <3>2
  <2>3. /\ \A i \in DOMAIN q2 : q2[i].tick > clean_tick
        /\ \A i, j \in DOMAIN q2 : i < j => q2[i].tick <= q2[j].tick
        /\ \A i \in DOMAIN q2 : q2[i].tick <= to_rcu_ticks(ti_tick[c] + 1)
        /\ q1 \o q2 = q
    BY <2>1, <2>2, CutWaits
  <2>4. scratch' = [scratch EXCEPT ![c] = q1] /\ queue' = [queue EXCEPT ![c] = q2]
        /\ q \in Seq(DeleteEntries)
        /\ (n = 0 => q1 = <<>>)
    <3>1. q \in Seq(DeleteEntries)
      BY WaitingTypes
    <3>2. n = 0 => q1 = <<>>
      BY <3>1, SubSeqEmpty
    <3> QED
      BY <2>1, <3>1, <3>2
  <2> HIDE DEF q1, q2, clean_tick
  <2>5. /\ queue'[c] = q2 /\ scratch'[c] = q1 /\ reaped'[c] = clean_tick
        /\ cpc'[c] = IF n = 0 THEN "run" ELSE "open"
        /\ \A d \in Cores \ {c} : /\ queue'[d] = queue[d] /\ scratch'[d] = scratch[d]
                                  /\ reaped'[d] = reaped[d] /\ cpc'[d] = cpc[d]
    BY <2>1, <2>4 DEF RcuInv, RcuTypeOK
  <2>6. /\ UNCHANGED <<last_tick_inclusive, ti_tick, gpc>>
        /\ cleaning_rcu_tick_exclusive' = cleaning_rcu_tick_exclusive
    BY <1>1, TickerStutter DEF RcuInv
  <2>7. \A d \in Cores : Waiting(d)' = Waiting(d)
    <3>1. <<>> \o q = q
      BY <2>4, ConcatEmptySeq
    <3> QED
      BY <1>2, <2>3, <2>5, <3>1 DEF Waiting
  <2>8. Placed'
    BY <1>1, <2>7, NothingMoves DEF WaitInv
  <2>9. ScratchWhileOpen'
    BY <2>4, <2>5 DEF WaitInv, ScratchWhileOpen
  <2>10. StampsInReach'
    BY <2>3, <2>5, <2>6 DEF WaitInv, StampsInReach
  <2>11. QueuesInOrder'
    BY <2>2, <2>3, <2>5, <2>6 DEF WaitInv, QueuesInOrder
  <2> QED
    BY <2>8, <2>9, <2>10, <2>11 DEF WaitInv
<1> QED
  BY <1>3, <1>4

(* The first of what waits is freed.                                       *)
LEMMA FreeWaits ==
    ASSUME RcuInv, WaitInv, NEW c \in Cores, Free(c)
    PROVE  WaitInv'
<1>1. cpc[c] = "open" /\ UNCHANGED vars /\ UNCHANGED <<shared, refs, queue, reaped>>
  BY DEF Free
<1>2. CASE scratch[c] = <<>>
  <2>1. UNCHANGED <<freed, scratch>> /\ cpc' = [cpc EXCEPT ![c] = "done"]
    BY <1>2 DEF Free
  <2>2. \A d \in Cores : scratch[d] # <<>> => cpc'[d] = "open"
    BY <1>2, <2>1 DEF WaitInv, ScratchWhileOpen, RcuInv, RcuTypeOK
  <2> QED
    BY <1>1, <2>1, <2>2, WaitFrame
<1>3. CASE scratch[c] # <<>>
  <2> DEFINE s == scratch[c]
             w == Waiting(c)
  <2>1. /\ freed' = freed \cup {s[1].obj} /\ UNCHANGED cpc
        /\ scratch' = [scratch EXCEPT ![c] = Tail(s)]
    BY <1>3 DEF Free
  <2>2. /\ s \in Seq(DeleteEntries) /\ queue[c] \in Seq(DeleteEntries) /\ w \in Seq(DeleteEntries)
        /\ Len(w) = Len(s) + Len(queue[c]) /\ Len(s) \in Nat /\ Len(s) > 0
        /\ Len(queue[c]) \in Nat /\ Len(w) \in Nat /\ DOMAIN w = 1..Len(w)
    <3>1. /\ s \in Seq(DeleteEntries) /\ queue[c] \in Seq(DeleteEntries)
          /\ w \in Seq(DeleteEntries) /\ Len(w) = Len(s) + Len(queue[c])
      BY WaitingTypes
    <3>2. Len(s) \in Nat /\ Len(s) > 0 /\ Len(queue[c]) \in Nat
      BY <1>3, <3>1
    <3>3. Len(w) \in Nat /\ DOMAIN w = 1..Len(w)
      <4>1. w \in Seq(DeleteEntries)
        BY <3>1
      <4> HIDE DEF w
      <4> QED
        BY <4>1
    <3> QED
      BY <3>1, <3>2, <3>3
  <2>3. /\ scratch'[c] = Tail(s)
        /\ \A d \in Cores \ {c} : scratch'[d] = scratch[d] /\ Waiting(d)' = Waiting(d)
    BY <1>1, <2>1 DEF RcuInv, RcuTypeOK, Waiting
  <2>4. /\ Len(Waiting(c)') = Len(w) - 1 /\ w[1] = s[1] /\ DOMAIN Waiting(c)' = 1..(Len(w) - 1)
        /\ \A i \in 1..(Len(w) - 1) : Waiting(c)'[i] = w[i + 1]
    <3>1. Tail(s) \in Seq(DeleteEntries) /\ Len(Tail(s)) = Len(s) - 1
          /\ \A i \in 1..(Len(s) - 1) : Tail(s)[i] = s[i + 1]
      BY <1>3, <2>2
    <3>2. Waiting(c)' = Tail(s) \o queue[c]
      BY <1>1, <2>3 DEF Waiting
    <3>3. /\ Len(Waiting(c)') = Len(Tail(s)) + Len(queue[c]) /\ Waiting(c)' \in Seq(DeleteEntries)
          /\ \A i \in 1..(Len(Tail(s)) + Len(queue[c])) :
                Waiting(c)'[i] = IF i <= Len(Tail(s)) THEN Tail(s)[i]
                                 ELSE queue[c][i - Len(Tail(s))]
      <4>1. Tail(s) \in Seq(DeleteEntries) /\ queue[c] \in Seq(DeleteEntries)
        BY <2>2, <3>1
      <4> DEFINE t == Tail(s) \o queue[c]
      <4>2. /\ t \in Seq(DeleteEntries) /\ Len(t) = Len(Tail(s)) + Len(queue[c])
            /\ \A i \in 1..(Len(Tail(s)) + Len(queue[c])) :
                  t[i] = IF i <= Len(Tail(s)) THEN Tail(s)[i] ELSE queue[c][i - Len(Tail(s))]
        BY <4>1, ConcatProperties
      <4> QED
        BY <3>2, <4>2
    <3>4. \A i \in 1..Len(w) : w[i] = IF i <= Len(s) THEN s[i] ELSE queue[c][i - Len(s)]
      BY <2>2, ConcatProperties DEF Waiting
    <3>5. Len(queue[c]) \in Nat /\ Len(w) \in Nat
      BY <2>2
    <3>8. DOMAIN Waiting(c)' = 1..Len(Waiting(c)')
      BY <3>3
    <3> HIDE DEF s, w
    <3>6. ASSUME NEW i \in 1..(Len(w) - 1) PROVE Waiting(c)'[i] = w[i + 1]
      <4>1. i \in 1..(Len(Tail(s)) + Len(queue[c])) /\ i + 1 \in 1..Len(w)
            /\ i + 1 - Len(s) = i - (Len(s) - 1) /\ (i <= Len(s) - 1 <=> i + 1 <= Len(s))
        BY <2>2, <3>1, <3>5
      <4>2. CASE i <= Len(s) - 1
        BY <2>2, <3>1, <3>3, <3>4, <4>1, <4>2
      <4>3. CASE ~(i <= Len(s) - 1)
        <5>1. /\ Waiting(c)'[i] = queue[c][i - Len(Tail(s))] /\ i - Len(Tail(s)) = i - (Len(s) - 1)
          BY <3>1, <3>3, <4>1, <4>3
        <5>2. w[i + 1] = queue[c][i + 1 - Len(s)]
          BY <3>4, <4>1, <4>3
        <5> QED
          BY <4>1, <5>1, <5>2
      <4> QED
        BY <4>2, <4>3
    <3>7. w[1] = s[1]
      BY <2>2, <3>4, <3>5
    <3> QED
      BY <2>2, <3>1, <3>3, <3>5, <3>6, <3>7, <3>8
  <2>5. /\ DOMAIN w = 1..Len(w) /\ Len(w) \in Nat /\ Len(w) > 0 /\ 1 \in DOMAIN w
        /\ s[1].obj = Entry(c, 1)
    <3>2. s[1].obj = Entry(c, 1)
      BY <2>4 DEF Entry
    <3> HIDE DEF s, w
    <3>1. Len(w) > 0 /\ 1 \in 1..Len(w)
      BY <2>2
    <3> QED
      BY <2>2, <3>1, <3>2
  <2>6. \A i \in DOMAIN Waiting(c)' : i + 1 \in DOMAIN Waiting(c) /\ i + 1 # 1 /\ i \in Nat
            /\ Entry(c, i)' = Entry(c, i + 1)
    BY <2>4, <2>5 DEF Entry
  <2>7. \A d \in Cores \ {c} : /\ DOMAIN Waiting(d)' = DOMAIN Waiting(d)
                               /\ \A i : Entry(d, i)' = Entry(d, i)
    BY <2>3 DEF Entry
  <2>8. ASSUME NEW d \in Cores, NEW i \in DOMAIN Waiting(d)'
        PROVE  \E j \in DOMAIN Waiting(d) : /\ Entry(d, i)' = Entry(d, j)
                                            /\ d = c => j = i + 1
                                            /\ d # c => j = i
    <3>1. CASE d = c
      BY <2>6, <3>1
    <3>2. CASE d # c
      BY <2>7, <3>2
    <3> QED
      BY <3>1, <3>2
  <2>9. ASSUME NEW d \in Cores, NEW f \in Cores,
               NEW i \in DOMAIN Waiting(d)', NEW j \in DOMAIN Waiting(f)',
               Entry(d, i)' = Entry(f, j)'
        PROVE  d = f /\ i = j
    <3>1. d = f
      BY <2>8, <2>9 DEF WaitInv, Placed
    <3>2. CASE d = c
      <4>1. i + 1 = j + 1
        BY <2>6, <2>9, <3>1, <3>2 DEF WaitInv, Placed
      <4> QED
        BY <2>6, <3>1, <3>2, <4>1
    <3>3. CASE d # c
      BY <2>7, <2>9, <3>1, <3>3 DEF WaitInv, Placed
    <3> QED
      BY <3>1, <3>2, <3>3
  <2>10. ASSUME NEW d \in Cores, NEW i \in DOMAIN Waiting(d)'
         PROVE  Entry(d, i)' \notin shared' \cup freed'
    <3>1. PICK j \in DOMAIN Waiting(d) : Entry(d, i)' = Entry(d, j) /\ (d = c => j = i + 1)
      BY <2>8
    <3>2. d = c => j # 1
      BY <2>6, <3>1
    <3>3. Entry(d, j) # Entry(c, 1)
      BY <2>5, <3>2 DEF WaitInv, Placed
    <3>4. Entry(d, j) \notin shared \cup freed
      BY DEF WaitInv, Placed
    <3> QED
      BY <1>1, <2>1, <2>5, <3>1, <3>3, <3>4
  <2>11. ASSUME NEW p \in Objects \ (shared' \cup freed')
         PROVE  \E d \in Cores : \E i \in DOMAIN Waiting(d)' : Entry(d, i)' = p
    <3>1. p \in Objects \ (shared \cup freed) /\ p # Entry(c, 1)
      BY <1>1, <2>1, <2>5
    <3>2. PICK d \in Cores : \E i \in DOMAIN Waiting(d) : Entry(d, i) = p
      BY <3>1 DEF WaitInv, Placed
    <3>3. PICK i \in DOMAIN Waiting(d) : Entry(d, i) = p
      BY <3>2
    <3>4. CASE d = c
      <4>1. i \in 1..Len(w) /\ i # 1
        BY <2>5, <3>1, <3>3, <3>4
      <4>2. i - 1 \in 1..(Len(w) - 1) /\ (i - 1) + 1 = i
        BY <2>5, <4>1
      <4>3. Entry(c, i - 1)' = p /\ i - 1 \in DOMAIN Waiting(c)'
        BY <2>4, <3>3, <3>4, <4>2 DEF Entry
      <4> QED
        BY <4>3
    <3>5. CASE d # c
      BY <2>7, <3>3, <3>5
    <3> QED
      BY <3>4, <3>5
  <2>12. Placed'
    BY <2>9, <2>10, <2>11 DEF Placed
  <2>13. ScratchWhileOpen'
    BY <1>1, <2>1, <2>3 DEF WaitInv, ScratchWhileOpen
  <2> QED
    BY <1>1, <2>12, <2>13, OrderFrame DEF WaitInv
<1> QED
  BY <1>2, <1>3

LEMMA InitWaits == RcuInit => WaitInv
<1> SUFFICES ASSUME RcuInit PROVE WaitInv
  OBVIOUS
<1>1. \A c \in Cores : queue[c] = <<>> /\ scratch[c] = <<>> /\ Waiting(c) = <<>> /\ reaped[c] = 0
  <2>1. \A c \in Cores : queue[c] = <<>> /\ scratch[c] = <<>> /\ reaped[c] = 0
    BY DEF RcuInit
  <2> QED
    BY <2>1 DEF Waiting
<1> QED
  BY <1>1 DEF RcuInit, WaitInv, Placed, ScratchWhileOpen, StampsInReach, QueuesInOrder

LEMMA NextWaits == RcuInv /\ WaitInv /\ [RcuNext]_rcuvars => WaitInv'
<1> SUFFICES ASSUME RcuInv, WaitInv, [RcuNext]_rcuvars PROVE WaitInv'
  OBVIOUS
<1>1. ASSUME [Next]_vars, UNCHANGED rcu PROVE WaitInv'
  BY <1>1, WaitFrame DEF WaitInv, ScratchWhileOpen, rcu
<1>2. CASE Daemon /\ UNCHANGED rcu
  BY <1>1, <1>2 DEF Next
<1>3. ASSUME NEW c \in Cores, RcuEnter(c) \/ RcuNested(c) PROVE WaitInv'
  BY <1>1, <1>3 DEF RcuEnter, RcuNested, Next, Guard
<1>4. ASSUME NEW c \in Cores, NEW o \in Objects, Find(c, o) \/ Retire(c, o)
      PROVE  WaitInv'
  <2>1. CASE Find(c, o)
    <3>1. UNCHANGED vars /\ UNCHANGED <<shared, freed, queue, scratch, reaped, cpc>>
      BY <2>1 DEF Find
    <3> QED
      BY <3>1, WaitFrame DEF WaitInv, ScratchWhileOpen
  <2> QED
    BY <1>4, <2>1, RetireWaits
<1>5. ASSUME NEW c \in Cores, RcuExit(c) \/ DoCleanup(c) \/ Free(c) PROVE WaitInv'
  BY <1>5, RcuExitWaits, DoCleanupWaits, FreeWaits
<1>6. CASE UNCHANGED rcuvars
  BY <1>1, <1>6 DEF rcuvars
<1> QED
  BY <1>2, <1>3, <1>4, <1>5, <1>6 DEF RcuNext, RcuStep

LEMMA Waits == RcuSpec => []WaitInv
<1>1. RcuInit => WaitInv
  BY InitWaits
<1>2. RcuInv /\ WaitInv /\ [RcuNext]_rcuvars => WaitInv'
  BY NextWaits
<1> QED
  BY <1>1, <1>2, RcuInvariance, PTL DEF RcuSpec

(* An object is in one place: it can be found, or it waits once, or it is  *)
(* free.  Nothing is freed twice and nothing is forgotten.                 *)
THEOREM OnePlace == RcuSpec => []EachObjectInOnePlace
<1>1. WaitInv /\ RcuInv => EachObjectInOnePlace
  <2> SUFFICES ASSUME WaitInv, RcuInv, NEW o \in Objects
               PROVE  IF o \in shared \/ o \in freed
                      THEN InQueues(o) = {} /\ ~(o \in shared /\ o \in freed)
                      ELSE Cardinality(InQueues(o)) = 1
    BY DEF EachObjectInOnePlace
  <2>1. \A p : p \in InQueues(o) <=>
           \E c \in Cores : \E i \in DOMAIN Waiting(c) : Entry(c, i) = o /\ p = <<c, i>>
    BY DEF InQueues, Entry
  <2>2. CASE o \in shared \/ o \in freed
    <3>1. InQueues(o) = {}
      BY <2>1, <2>2 DEF WaitInv, Placed
    <3> QED
      BY <2>2, <3>1 DEF RcuInv, FreedNotShared
  <2>3. CASE ~(o \in shared \/ o \in freed)
    <3>1. PICK c \in Cores : \E i \in DOMAIN Waiting(c) : Entry(c, i) = o
      BY <2>3 DEF WaitInv, Placed
    <3>2. PICK i \in DOMAIN Waiting(c) : Entry(c, i) = o
      BY <3>1
    <3>3. \A d \in Cores : \A j \in DOMAIN Waiting(d) : Entry(d, j) = o => d = c /\ j = i
      BY <3>2 DEF WaitInv, Placed
    <3>4. InQueues(o) = {<<c, i>>}
      BY <2>1, <3>2, <3>3
    <3> QED
      BY <2>3, <3>4, FS_Singleton
  <2> QED
    BY <2>2, <2>3
<1> QED
  BY <1>1, Waits, RcuInvariance, PTL

(* A core reaps later and later ticks, and its queue is sorted by them.    *)
THEOREM QueueOrder == RcuSpec => []QueuesInOrder
BY Waits, PTL DEF WaitInv
=============================================================================
