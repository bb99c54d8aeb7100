-------------------------- MODULE MCCallExecution --------------------------
(* Instance of CallExecution for TLC: a callback of the first call may start *)
(* the second.                                                               *)
EXTENDS CallExecution

CONSTANTS c1, c2

FirstStartsSecond == [c \in Call |-> IF c = c1 THEN c2 ELSE NoCall]
=============================================================================
