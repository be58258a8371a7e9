---------------------------- MODULE MCPoolOutflow ----------------------------
(* Small instances of PoolOutflow for TLC.                                 *)
EXTENDS PoolOutflow, TLC

(* Calls, and the keys partners choose, are interchangeable.               *)
Symmetry == Permutations(Instructions) \cup Permutations(Keys)
=============================================================================
