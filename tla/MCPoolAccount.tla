---------------------------- MODULE MCPoolAccount ----------------------------
(* Small instances of PoolAccount for TLC.                                 *)
EXTENDS PoolAccount, TLC

(* References, requests and calls are interchangeable.                     *)
Symmetry == Permutations(References) \cup Permutations(Handlers)
            \cup Permutations(Operators) \cup Permutations(Orders)
==============================================================================
