---------------------------- MODULE MCPolyjuice ----------------------------
(* Small instances of Polyjuice: two records and the access sequences that *)
(* put transactions into each other's way.                                 *)
EXTENDS Polyjuice

x == 1
y == 2
get(k) == [op |-> "get", key |-> k]
put(k) == [op |-> "put", key |-> k]
update(k) == [op |-> "update", key |-> k]

(* One transaction reads what another has exposed and writes elsewhere.    *)
RacePrograms == [t \in Txns |->
    CASE t = 1 -> {<<get(x), put(y)>>}
      [] t = 2 -> {<<put(x)>>}
      [] t = 3 -> {<<get(y), put(x)>>}]

(* Read-modify-writes against a reader that writes what another updates.   *)
ExposePrograms == [t \in Txns |->
    IF t = 1 THEN {<<update(x), update(y)>>} ELSE {<<get(y), update(x)>>}]

(* Transactions that read and write two records in opposite orders, and a  *)
(* record written twice or once.                                           *)
ReusePrograms == [t \in Txns |->
    IF t = 1 THEN {<<get(x), update(y)>>}
             ELSE {<<update(y), put(x)>>, <<put(x), put(x)>>, <<put(x)>>}]

Two == 1..2
Three == 1..3
KeySet == {x, y}
Dirty == {"dirty"}
Mixed == {"clean", "dirty"}
Both == BOOLEAN
NoWaits == {}
Once == [t \in Txns |-> 1]
Reused == [t \in Txns |-> IF t = 1 THEN 1 ELSE 2]
AllWaits == {1, WAIT_DEP_COMMIT}
=============================================================================
