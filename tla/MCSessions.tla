----------------------------- MODULE MCSessions ------------------------------
(* Sessions with two tabs of one browser, the first with two calls at a time. *)
EXTENDS Sessions
CONSTANTS A, B, a1, a2, b1
MCTabOf == [c \in Calls |-> IF c = b1 THEN B ELSE A]
=============================================================================
