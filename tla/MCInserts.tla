------------------------------ MODULE MCInserts ------------------------------
(* Small instances of Inserts: two keys of one leaf, one of them loaded.   *)
EXTENDS Inserts

x == 1
y == 2
get(k) == [op |-> "get", key |-> k]
put(k) == [op |-> "put", key |-> k, delete |-> FALSE]
remove(k) == [op |-> "put", key |-> k, delete |-> TRUE]

(* Read-then-insert, deletes of what is and is not there, and a put of     *)
(* what another inserts or deletes.                                        *)
MixPrograms == [t \in Txns |->
    CASE t = 1 -> {<<get(x), put(x)>>, <<remove(x), put(y)>>, <<get(x), put(y)>>}
      [] t = 2 -> {<<put(x), get(y)>>, <<get(x), put(x)>>}
      [] t = 3 -> {<<remove(y)>>, <<put(y), put(x)>>}]

(* Two transactions that insert a key they have not found.                 *)
AbsentPrograms == [t \in Txns |-> {<<get(x), put(x)>>}]

Two == 1..2
Three == 1..3
KeySet == {x, y}
OnlyY == {y}
=============================================================================
