------------------------------ MODULE MCLogger ------------------------------
(* Constants for the instances of Logger.                                  *)
EXTENDS Logger

OneLogger == [c \in Cores |-> 1]
OneBusy == [c \in Cores |-> IF c = 1 THEN 3 ELSE 0]
=============================================================================
