----------------------------- MODULE MCVersions -----------------------------
(* Small instances of Versions: writers of two records, one that has read, *)
(* and snapshots of both.                                                  *)
EXTENDS Versions

x == 1
y == 2
KeySet == {x, y}
Two == 0..1
Three == 0..2
(* Who may delete: all cores or none.                                      *)
All == [c \in Cores |-> BOOLEAN]
Never == [c \in Cores |-> {FALSE}]
(* What a transaction does: a snapshot reads, any other reads and writes.  *)
program(snapshot, reads, writes) == [snapshot |-> snapshot, reads |-> reads, writes |-> writes]
One == {x}
WriteX == [c \in Cores |-> {program(FALSE, {}, {x}), program(TRUE, {x}, {})}]
OnlyWriteX == [c \in Cores |-> {program(FALSE, {}, {x})}]
ReadAndWrite == [c \in Cores |->
    CASE c = 0 -> {program(FALSE, {x}, {y})}
      [] c = 1 -> {program(FALSE, {}, {x})}
      [] c = 2 -> {program(TRUE, {x, y}, {})}]
=============================================================================
