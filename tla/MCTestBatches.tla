---------------------------- MODULE MCTestBatches ----------------------------
(* A small instance of TestBatches: the second case depends on the first. *)
EXTENDS TestBatches

MCDepends == [c \in Cases |-> IF c = 2 THEN {1} ELSE {}]
=============================================================================
