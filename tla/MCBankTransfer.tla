--------------------------- MODULE MCBankTransfer ---------------------------
(* Small instances of BankTransfer for TLC.                                *)
EXTENDS BankTransfer, TLC

(* Calls, and the keys clients choose, are interchangeable.                *)
Symmetry == Permutations(Instructions) \cup Permutations(Keys)
=============================================================================
