--------------------------- MODULE OutboundProofs ---------------------------
(* Theorems about Outbound, for any instructions, purses and costs.        *)
EXTENDS Outbound, Sums

(* Amounts of money are naturals.                                          *)
MoneyIsNatural == Costs \subseteq Nat /\ Opening \subseteq Nat

IInv == TypeOK /\ NothingGivenAway

LEMMA IInvInit == MoneyIsNatural /\ Init => IInv
  <1>. SUFFICES ASSUME MoneyIsNatural, Init PROVE IInv
    OBVIOUS
  <1>1. purse \in [Purses -> Nat]
    BY DEF Init, MoneyIsNatural
  <1>2. TypeOK
    BY <1>1 DEF Init, TypeOK, Stages, BankStates
  <1>3. QED
    BY <1>2 DEF Init, IInv, NothingGivenAway

LEMMA HoldKeeps ==
    ASSUME MoneyIsNatural, IInv, NEW i \in Instructions, Hold(i)
    PROVE  IInv'
  <1>1. PICK c \in Costs : /\ c <= purse[owner[i]]
                           /\ purse' = [purse EXCEPT ![owner[i]] = @ - c]
                           /\ cost' = [cost EXCEPT ![i] = c]
    BY DEF Hold
  <1>2. c \in Nat /\ owner[i] \in Purses /\ purse[owner[i]] \in Nat
    BY DEF MoneyIsNatural, IInv, TypeOK
  <1>3. purse[owner[i]] - c \in Nat
    BY <1>1, <1>2
  <1>4. purse' \in [Purses -> Nat] /\ cost' \in [Instructions -> Nat]
    BY <1>1, <1>2, <1>3 DEF IInv, TypeOK
  <1>5. TypeOK'
    BY <1>4 DEF Hold, IInv, TypeOK, Stages
  <1>6. NothingGivenAway'
    BY <1>1 DEF Hold, IInv, TypeOK, NothingGivenAway
  <1>7. QED
    BY <1>5, <1>6 DEF IInv

LEMMA ReturnKeeps ==
    ASSUME IInv, NEW i \in Instructions, Return(i)
    PROVE  IInv'
  <1>1. owner[i] \in Purses /\ purse[owner[i]] \in Nat /\ cost[i] \in Nat
    BY DEF IInv, TypeOK
  <1>2. purse' = [purse EXCEPT ![owner[i]] = purse[owner[i]] + cost[i]]
    BY DEF Return
  <1>3. purse[owner[i]] + cost[i] \in Nat
    BY <1>1
  <1>4. purse' \in [Purses -> Nat]
    BY <1>1, <1>2, <1>3 DEF IInv, TypeOK
  <1>5. TypeOK'
    BY <1>4 DEF Return, IInv, TypeOK, Stages
  <1>6. NothingGivenAway'
    BY DEF Return, IInv, TypeOK, NothingGivenAway
  <1>7. QED
    BY <1>5, <1>6 DEF IInv

LEMMA IInvNext ==
    ASSUME MoneyIsNatural, IInv, [Next]_vars
    PROVE  IInv'
  <1>1. ASSUME NEW i \in Instructions, BookSent(i)
        PROVE  IInv'
    BY <1>1 DEF BookSent, IInv, TypeOK, NothingGivenAway, Stages, BankAccepted
  <1>2. ASSUME NEW i \in Instructions, BankMoves(i)
        PROVE  IInv'
    BY <1>2 DEF BankMoves, IInv, TypeOK, NothingGivenAway, BankStates, BankDeclined, BankAccepted
  <1>3. CASE UNCHANGED vars
    BY <1>3 DEF vars, IInv, TypeOK, NothingGivenAway
  <1>4. QED
    BY <1>1, <1>2, <1>3, HoldKeeps, ReturnKeeps DEF Next

(* Whatever keeps the promise never both pays and puts back the same       *)
(* money, and books nothing as sent that the bank has not accepted, for    *)
(* any number of instructions, purses and amounts.                         *)
THEOREM PromiseIsSafe ==
    ASSUME MoneyIsNatural
    PROVE  Spec => []NothingGivenAway
  <1>1. Init => IInv
    BY IInvInit
  <1>2. IInv /\ [Next]_vars => IInv'
    BY IInvNext
  <1>3. IInv => NothingGivenAway
    BY DEF IInv
  <1>4. QED
    BY <1>1, <1>2, <1>3, PTL DEF Spec

(* Whatever keeps the promise never overdraws a purse.                     *)
THEOREM PurseNeverOverdrawn ==
    ASSUME MoneyIsNatural
    PROVE  Spec => []TypeOK
  <1>1. Init => IInv
    BY IInvInit
  <1>2. IInv /\ [Next]_vars => IInv'
    BY IInvNext
  <1>3. IInv => TypeOK
    BY DEF IInv
  <1>4. QED
    BY <1>1, <1>2, <1>3, PTL DEF Spec

-----------------------------------------------------------------------------
(* Where the money is.                                                     *)

(* What has been taken out of a purse and not put back: it is on its way   *)
(* or has been booked as sent.                                             *)
Out(p)  == {i \in Instructions : owner[i] = p /\ stage[i] \in {"held", "sent"}}
Spent(p) == SumFunctionOnSet(cost, Out(p))

(* A purse and what is out of it make up what it held at the start.        *)
NothingIsLost == \A p \in Purses : purse[p] + Spent(p) \in Opening

AccountInv == IsFiniteSet({i \in Instructions : stage[i] # "absent"}) /\ NothingIsLost

LEMMA OutIsFinite ==
    ASSUME AccountInv, NEW p PROVE IsFiniteSet(Out(p))
  <1>1. Out(p) \subseteq {i \in Instructions : stage[i] # "absent"}
    BY DEF Out
  <1> QED BY <1>1, FS_Subset DEF AccountInv

LEMMA SpentInt ==
    ASSUME IInv, AccountInv, NEW p PROVE Spent(p) \in Int
  <1>1. \A i \in Out(p) : cost[i] \in Int
    BY DEF Out, IInv, TypeOK
  <1> QED BY <1>1, OutIsFinite, SumInt DEF Spent

LEMMA AccountInit == ASSUME MoneyIsNatural, Init PROVE AccountInv
  <1>1. {i \in Instructions : stage[i] # "absent"} = {} /\ \A p : Out(p) = {}
    BY DEF Init, Out
  <1>2. \A p : Spent(p) = 0
    BY <1>1, SumEmpty DEF Spent
  <1>3. ASSUME NEW p \in Purses PROVE purse[p] \in Opening /\ purse[p] + 0 = purse[p]
    <2>1. purse[p] \in Opening
      BY DEF Init
    <2>2. purse[p] \in Nat
      BY <2>1 DEF MoneyIsNatural
    <2> QED BY <2>1, <2>2
  <1> QED BY <1>1, <1>2, <1>3, FS_EmptySet DEF AccountInv, NothingIsLost

(* Charging an instruction moves its cost from the purse to what is out.   *)
LEMMA HoldAccounts ==
    ASSUME MoneyIsNatural, IInv, AccountInv, NEW i \in Instructions, Hold(i)
    PROVE  AccountInv'
  <1>1. PICK c \in Costs : /\ purse' = [purse EXCEPT ![owner[i]] = @ - c]
                           /\ cost' = [cost EXCEPT ![i] = c]
    BY DEF Hold
  <1>2. c \in Nat /\ owner' = owner /\ stage[i] = "absent" /\ TypeOK
    BY DEF MoneyIsNatural, Hold, IInv
  <1>3. stage' = [stage EXCEPT ![i] = "held"] /\ stage \in [Instructions -> Stages]
    BY <1>2 DEF Hold, TypeOK
  <1>4. {j \in Instructions : stage'[j] # "absent"} = {j \in Instructions : stage[j] # "absent"} \cup {i}
    BY <1>3
  <1>5. IsFiniteSet({j \in Instructions : stage'[j] # "absent"})
    BY <1>4, FS_AddElement DEF AccountInv
  <1>6. ASSUME NEW p \in Purses PROVE purse'[p] + Spent(p)' \in Opening
    <2>1. Spent(p) \in Int /\ IsFiniteSet(Out(p)) /\ i \notin Out(p)
      BY <1>2, SpentInt, OutIsFinite DEF Out
    <2>2. \A j \in Out(p) : cost[j] \in Int /\ cost'[j] = cost[j]
      BY <1>1, <1>2, <2>1 DEF Out, TypeOK
    <2>3. cost'[i] = c /\ c \in Int
      BY <1>1, <1>2 DEF TypeOK
    <2>4. purse[p] + Spent(p) \in Opening /\ purse[p] \in Int
      BY <1>2 DEF AccountInv, NothingIsLost, TypeOK
    <2>5. CASE owner[i] = p
      <3>1. Out(p)' = Out(p) \cup {i}
        BY <1>2, <1>3, <2>5 DEF Out
      <3>2. Spent(p)' = Spent(p) + c
        BY <2>1, <2>2, <2>3, <3>1, SumGrows DEF Spent
      <3>3. purse'[p] = purse[p] - c
        BY <1>1, <1>2, <2>5 DEF TypeOK
      <3>4. purse'[p] + Spent(p)' = purse[p] + Spent(p)
        BY <1>2, <2>1, <2>4, <3>2, <3>3
      <3> QED BY <2>4, <3>4
    <2>6. CASE owner[i] # p
      <3>1. Out(p)' = Out(p)
        BY <1>2, <1>3, <2>6 DEF Out
      <3>2. Spent(p)' = Spent(p)
        BY <2>1, <2>2, <3>1, SumSame DEF Spent
      <3>3. purse'[p] = purse[p]
        BY <1>1, <1>2, <2>6 DEF TypeOK
      <3> QED BY <2>4, <3>2, <3>3
    <2> QED BY <2>5, <2>6
  <1> QED BY <1>5, <1>6 DEF AccountInv, NothingIsLost

(* Putting it back moves the same amount the other way.                    *)
LEMMA ReturnAccounts ==
    ASSUME IInv, AccountInv, NEW i \in Instructions, Return(i)
    PROVE  AccountInv'
  <1>1. /\ purse' = [purse EXCEPT ![owner[i]] = @ + cost[i]]
        /\ owner' = owner /\ cost' = cost /\ stage[i] = "held"
        /\ stage' = [stage EXCEPT ![i] = "returned"]
        /\ TypeOK /\ cost[i] \in Nat
    BY DEF Return, IInv, TypeOK
  <1>2. {j \in Instructions : stage'[j] # "absent"} = {j \in Instructions : stage[j] # "absent"}
    BY <1>1 DEF TypeOK
  <1>3. ASSUME NEW p \in Purses PROVE purse'[p] + Spent(p)' \in Opening
    <2>0. \A j \in Out(p) : cost[j] \in Int
      BY <1>1 DEF Out, TypeOK
    <2>1. Spent(p) \in Int /\ IsFiniteSet(Out(p)) /\ \A j \in Out(p) : cost[j] \in Int
      BY <2>0, SpentInt, OutIsFinite
    <2>2. purse[p] + Spent(p) \in Opening /\ purse[p] \in Int
      BY <1>1 DEF AccountInv, NothingIsLost, TypeOK
    <2>3. CASE owner[i] = p
      <3>1. i \in Out(p) /\ Out(p)' = Out(p) \ {i} /\ IsFiniteSet(Out(p) \ {i})
        BY <1>1, <2>1, <2>3, FS_RemoveElement DEF Out, TypeOK
      <3>2. Spent(p) = cost[i] + Spent(p)'
        BY <1>1, <2>1, <3>1, SumSplit DEF Spent
      <3>3. Spent(p)' \in Int
        BY <1>1, <2>1, <3>1, SumInt DEF Spent
      <3>4. purse'[p] = purse[p] + cost[i]
        BY <1>1, <2>3 DEF TypeOK
      <3>5. purse'[p] + Spent(p)' = purse[p] + Spent(p)
        BY <1>1, <2>2, <3>2, <3>3, <3>4
      <3> QED BY <2>2, <3>5
    <2>4. CASE owner[i] # p
      <3>1. Out(p)' = Out(p)
        BY <1>1, <2>4 DEF Out, TypeOK
      <3>2. Spent(p)' = Spent(p) /\ purse'[p] = purse[p]
        BY <1>1, <2>4, <3>1 DEF Spent, TypeOK
      <3> QED BY <2>2, <3>2
    <2> QED BY <2>3, <2>4
  <1> QED BY <1>2, <1>3 DEF AccountInv, NothingIsLost

(* The other steps leave money and what is out alone.                      *)
LEMMA OthersAccount ==
    ASSUME IInv, AccountInv, UNCHANGED <<purse, owner, cost>>,
           \/ stage' = stage
           \/ \E i \in Instructions : stage[i] = "held" /\ stage' = [stage EXCEPT ![i] = "sent"]
    PROVE  AccountInv'
  <1>1. \A j \in Instructions : /\ stage'[j] \in {"held", "sent"} <=> stage[j] \in {"held", "sent"}
                                /\ stage'[j] # "absent" <=> stage[j] # "absent"
    BY DEF IInv, TypeOK
  <1>2. {j \in Instructions : stage'[j] # "absent"} = {j \in Instructions : stage[j] # "absent"}
    BY <1>1
  <1>3. \A p : Out(p)' = Out(p)
    BY <1>1 DEF Out
  <1>4. \A p : Spent(p)' = Spent(p)
    BY <1>3 DEF Spent
  <1> QED BY <1>2, <1>4 DEF AccountInv, NothingIsLost

LEMMA AccountNext ==
    ASSUME MoneyIsNatural, IInv, AccountInv, [Next]_vars
    PROVE  AccountInv'
  <1>1. ASSUME NEW i \in Instructions, BookSent(i) \/ BankMoves(i)
        PROVE  AccountInv'
    BY <1>1, OthersAccount DEF BookSent, BankMoves
  <1>2. CASE UNCHANGED vars
    BY <1>2, OthersAccount DEF vars
  <1> QED BY <1>1, <1>2, HoldAccounts, ReturnAccounts DEF Next

(* Whatever keeps the promise loses no money and makes none: each purse    *)
(* and the instructions charged to it and not put back always make up what *)
(* the purse held at the start.                                            *)
THEOREM PursesAreAccountedFor ==
    ASSUME MoneyIsNatural
    PROVE  Spec => []NothingIsLost
  <1>1. Init => IInv /\ AccountInv
    BY IInvInit, AccountInit
  <1>2. (IInv /\ AccountInv) /\ [Next]_vars => (IInv /\ AccountInv)'
    BY IInvNext, AccountNext
  <1>3. AccountInv => NothingIsLost
    BY DEF AccountInv
  <1>4. QED
    BY <1>1, <1>2, <1>3, PTL DEF Spec
=============================================================================
