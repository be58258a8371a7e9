------------------------------ MODULE Outbound ------------------------------
(***************************************************************************)
(* What every outbound movement of this system promises, whichever service *)
(* carries it out (a customer's bank transfer, a partner's payout, a       *)
(* refund): the cost is taken out of a purse (a wallet or a settlement     *)
(* pool) before the bank is told, and afterwards it is either booked as    *)
(* sent, which only an instruction the bank has accepted can be, or put    *)
(* back, once, in full, which only an instruction the bank will never pay  *)
(* can be.                                                                 *)
(***************************************************************************)
EXTENDS Integers

CONSTANTS Instructions, Purses,
          Costs,      \* what one instruction may cost its purse
          Opening     \* what a purse may hold at the start

VARIABLES purse,      \* money in each purse
          owner,      \* the purse an instruction draws on
          cost,       \* what it was charged, 0 before it is
          stage,      \* absent, held, sent or returned
          bank        \* untold, accepted, paid, bounced or refused

vars == <<purse, owner, cost, stage, bank>>

Stages == {"absent", "held", "sent", "returned"}
BankStates == {"untold", "accepted", "paid", "bounced", "refused"}
BankAccepted == {"accepted", "paid", "bounced"}
BankDeclined == {"bounced", "refused"}

Init ==
    /\ purse \in [Purses -> Opening]
    /\ owner \in [Instructions -> Purses]
    /\ cost  = [i \in Instructions |-> 0]
    /\ stage = [i \in Instructions |-> "absent"]
    /\ bank  = [i \in Instructions |-> "untold"]

Hold(i) ==
    /\ stage[i] = "absent"
    /\ \E c \in Costs :
        /\ c <= purse[owner[i]]
        /\ purse' = [purse EXCEPT ![owner[i]] = @ - c]
        /\ cost' = [cost EXCEPT ![i] = c]
    /\ stage' = [stage EXCEPT ![i] = "held"]
    /\ UNCHANGED <<owner, bank>>

BookSent(i) ==
    /\ stage[i] = "held"
    /\ bank[i] \in BankAccepted
    /\ stage' = [stage EXCEPT ![i] = "sent"]
    /\ UNCHANGED <<purse, owner, cost, bank>>

Return(i) ==
    /\ stage[i] = "held"
    /\ bank[i] \in BankDeclined
    /\ purse' = [purse EXCEPT ![owner[i]] = @ + cost[i]]
    /\ stage' = [stage EXCEPT ![i] = "returned"]
    /\ UNCHANGED <<owner, cost, bank>>

(* The bank acts only on an instruction whose cost has been taken.         *)
BankMoves(i) ==
    /\ stage[i] # "absent"
    /\ \/ bank[i] = "untold"   /\ bank' = [bank EXCEPT ![i] = "accepted"]
       \/ bank[i] = "untold"   /\ bank' = [bank EXCEPT ![i] = "refused"]
       \/ bank[i] = "accepted" /\ bank' = [bank EXCEPT ![i] = "paid"]
       \/ bank[i] = "accepted" /\ bank' = [bank EXCEPT ![i] = "bounced"]
    /\ UNCHANGED <<purse, owner, cost, stage>>

Next == \E i \in Instructions : Hold(i) \/ BookSent(i) \/ Return(i) \/ BankMoves(i)

Spec == Init /\ [][Next]_vars

-----------------------------------------------------------------------------
(* Properties.                                                             *)

(* Every variable holds a value of its kind; no purse is overdrawn.        *)
TypeOK ==
    /\ purse \in [Purses -> Nat]
    /\ owner \in [Instructions -> Purses]
    /\ cost  \in [Instructions -> Nat]
    /\ stage \in [Instructions -> Stages]
    /\ bank  \in [Instructions -> BankStates]

(* The same money is never both with the customer or partner and at its    *)
(* destination: what was put back is never paid, what was booked as sent   *)
(* the bank has accepted, and it knows only what was charged.              *)
NothingGivenAway ==
    \A i \in Instructions :
        /\ stage[i] = "returned" => bank[i] \in BankDeclined
        /\ stage[i] = "sent"     => bank[i] \in BankAccepted
        /\ stage[i] = "absent"   => bank[i] = "untold" /\ cost[i] = 0
=============================================================================
