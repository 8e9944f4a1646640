------------------------------ MODULE MCBoard -------------------------------
(* Board with one task on it and another that may be created.              *)
EXTENDS Board

CONSTANTS t1, t2

MCTasks == {t1, t2}
MCSeed == [t \in MCTasks |-> IF t = t1 THEN 2 ELSE Fresh]
=============================================================================
