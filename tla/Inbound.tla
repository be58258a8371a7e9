------------------------------ MODULE Inbound ------------------------------
(***************************************************************************)
(* What the handling of money coming in promises: a payment the bank       *)
(* reports under a reference enters its account and the pool behind it     *)
(* together and at most once, either as it arrives or, if it was held,     *)
(* when an operator accepts it; a held payment an operator has refused     *)
(* never enters.  Only the pool is spent from.                             *)
(***************************************************************************)
EXTENDS Integers

CONSTANTS References, Accounts, Amounts,
          Nowhere     \* an account number that is no account of a pool

VARIABLES payment,    \* the account and the amount the bank reports
          stage,      \* absent, held, credited or refused
          money,      \* money in each account
          pool        \* money in the pool

vars == <<payment, stage, money, pool>>

Payments == [account: Accounts \cup {Nowhere}, amount: Amounts]
Stages == {"absent", "held", "credited", "refused"}

Init ==
    /\ payment \in [References -> Payments]
    /\ stage = [r \in References |-> "absent"]
    /\ money = [a \in Accounts |-> 0]
    /\ pool = 0

Hold(r) ==
    /\ stage[r] = "absent"
    /\ payment[r].account \in Accounts
    /\ stage' = [stage EXCEPT ![r] = "held"]
    /\ UNCHANGED <<payment, money, pool>>

Credit(r) ==
    /\ stage[r] \in {"absent", "held"}
    /\ payment[r].account \in Accounts
    /\ stage' = [stage EXCEPT ![r] = "credited"]
    /\ money' = [money EXCEPT ![payment[r].account] = @ + payment[r].amount]
    /\ pool' = pool + payment[r].amount
    /\ UNCHANGED payment

Refuse(r) ==
    /\ stage[r] = "held"
    /\ stage' = [stage EXCEPT ![r] = "refused"]
    /\ UNCHANGED <<payment, money, pool>>

Spend ==
    /\ \E n \in Amounts : n <= pool /\ pool' = pool - n
    /\ UNCHANGED <<payment, stage, money>>

Next == (\E r \in References : Hold(r) \/ Credit(r) \/ Refuse(r)) \/ Spend

Spec == Init /\ [][Next]_vars
=============================================================================
