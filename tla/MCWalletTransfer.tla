-------------------------- MODULE MCWalletTransfer --------------------------
(* Small instances of WalletTransfer for TLC.                              *)
EXTENDS WalletTransfer, TLC

(* Calls are interchangeable.                                              *)
Symmetry == Permutations(Calls)
=============================================================================
