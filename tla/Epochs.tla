------------------------------- MODULE Epochs -------------------------------
(* What the system-wide epoch counter promises to its users (RCU, garbage  *)
(* collection, the logger, snapshot transactions): time is cut into ticks; *)
(* a region is stamped with the tick it starts in; a tick is declared over *)
(* only when every region stamped with it, or with an earlier one, has     *)
(* ended, and at most one tick besides the current one is not over.        *)
EXTENDS Integers

CONSTANTS Cores

VARIABLES
    now,     \* the current tick
    over,    \* ticks up to this one are over
    region   \* region[c]: the stamp of the region running on c, or None

vars == <<now, over, region>>

None == 0

Init ==
    /\ now = 1 /\ over = 0
    /\ region = [c \in Cores |-> None]

Start(c) ==
    /\ region[c] = None
    /\ region' = [region EXCEPT ![c] = now]
    /\ UNCHANGED <<now, over>>

End(c) ==
    /\ region[c] # None
    /\ region' = [region EXCEPT ![c] = None]
    /\ UNCHANGED <<now, over>>

Advance ==
    /\ over = now - 1
    /\ now' = now + 1
    /\ UNCHANGED <<over, region>>

DeclareOver ==
    /\ \A c \in Cores : region[c] \in {None, now}
    /\ over' = now - 1
    /\ UNCHANGED <<now, region>>

Next == Advance \/ DeclareOver \/ \E c \in Cores : Start(c) \/ End(c)

Spec == Init /\ [][Next]_vars
=============================================================================
