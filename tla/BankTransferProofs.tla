------------------------- MODULE BankTransferProofs -------------------------
(***************************************************************************)
(* Theorems about BankTransfer, for any number of users, keys, calls and   *)
(* overlapping recovery passes.                                            *)
(***************************************************************************)
EXTENDS BankTransfer, Sums

(* Where a call may be while its transfer does not exist yet, and while it *)
(* does; and what it has told the bank.                                    *)
Before == {"received", "validating", "opening", "debiting"}
After  == {"calling", "waiting", "settling", "annotating"}

CallInv ==
    \A i \in Instructions :
        /\ pc[i] \in Before => ~ Exists(i)
        /\ pc[i] \in After => Exists(i)
        /\ ~ Exists(i) => rail[i] = "none" /\ fee[i] = 0
        /\ pc[i] = "annotating" => status[i] = "success"

(* What a call, or a pass, has been told by the bank is still true when it *)
(* acts on it: "taken" and "will not pay" are for ever.                    *)
AnswerInv ==
    /\ \A i \in Instructions :
        pc[i] = "settling" =>
            /\ answer[i] = "accepted" => rail[i] \in Taken
            /\ answer[i] = "rejected" => rail[i] \in WillNotPay
    /\ \A p \in Passes :
        /\ \A i \in Instructions : seen[p][i] # "skip" => Exists(i)
        /\ jobPc[p] = "resolving" =>
            /\ target[p] \in Instructions
            /\ Exists(target[p])
            /\ told[p] = "success" => rail[target[p]] \in Taken
            /\ told[p] = "failed" => rail[target[p]] \in WillNotPay
        /\ jobPc[p] = "annotating" =>
            target[p] \in Instructions /\ status[target[p]] = "success"

(* The balance an open transaction has read is the balance it will write   *)
(* over, unless it has been overtaken and is going to abort.               *)
SnapshotInv ==
    \A i \in Instructions :
        pc[i] = "debiting" /\ i \notin overtaken => snap[i].balance = balance[User(i)]

IInv == TypeOK /\ CallInv /\ AnswerInv /\ SnapshotInv /\ OutcomeMatchesRail

-----------------------------------------------------------------------------
LedgerEntries == [ref : Instructions, leg : Legs, type : {"payout", "reversal"},
                  wallet : Users, amount : Nat \ {0}]

LEMMA RequestType ==
    ASSUME TypeOK, NEW i \in Instructions
    PROVE  /\ User(i) \in Users
           /\ request[i].amount \in Nat \ {0}
           /\ fee[i] \in {0, FEE} /\ fee[i] \in Nat
           /\ snap[i].fee \in {0, FEE} /\ snap[i].fee \in Nat
           /\ snap[i].balance \in Nat
  <1>1. request[i] \in Requests /\ snap[i] \in [balance : Nat, fee : {0, FEE}]
    BY DEF TypeOK
  <1>2. fee[i] \in {0, FEE} /\ fee[i] \in Nat
    BY AmountsArePositive DEF TypeOK
  <1>3. request[i].user \in Users /\ request[i].amount \in Amounts
    BY <1>1 DEF Requests
  <1>4. request[i].amount \in Nat \ {0}
    BY <1>3, AmountsArePositive
  <1>5. snap[i].fee \in {0, FEE} /\ snap[i].fee \in Nat /\ snap[i].balance \in Nat
    BY <1>1, AmountsArePositive
  <1>6. QED
    BY <1>2, <1>3, <1>4, <1>5 DEF User

LEMMA EntriesType ==
    ASSUME TypeOK, NEW i \in Instructions, NEW type \in {"payout", "reversal"},
           NEW f \in {0, FEE}
    PROVE  Entries(i, type, f) \subseteq LedgerEntries
  <1>1. User(i) \in Users /\ request[i].amount \in Nat \ {0} /\ f \in Nat
    BY RequestType, AmountsArePositive
  <1>2. Entry(i, "amount", type, request[i].amount) \in LedgerEntries
    BY <1>1 DEF Entry, LedgerEntries, Legs
  <1>3. f > 0 => Entry(i, "fee", type, f) \in LedgerEntries
    BY <1>1 DEF Entry, LedgerEntries, Legs
  <1>4. QED
    BY <1>2, <1>3 DEF Entries

LEMMA ReverseType ==
    ASSUME TypeOK, NEW i \in Instructions, Reverse(i)
    PROVE  /\ balance' \in [Users -> Nat]
           /\ status' \in [Instructions -> Statuses]
           /\ fee' \in [Instructions -> {0, FEE}]
           /\ history' \in [Instructions -> {"absent", "pending", "success", "failed"}]
           /\ ledger' \subseteq LedgerEntries
           /\ overtaken' \subseteq Instructions
  <1>1. Entries(i, "reversal", fee[i]) \subseteq LedgerEntries
    BY RequestType, EntriesType
  <1>2. CASE status[i] \in Open /\ CanPost(ReversalEntries(i))
    <2>1. ReversalPays(i) \in Nat
      BY RequestType DEF ReversalPays, Total
    <2>2. balance' \in [Users -> Nat]
      <3>1. User(i) \in Users /\ balance \in [Users -> Nat] /\ balance[User(i)] \in Nat
        BY RequestType DEF TypeOK
      <3>2. balance' = [balance EXCEPT ![User(i)] = balance[User(i)] + ReversalPays(i)]
        BY <1>2 DEF Reverse
      <3>3. balance[User(i)] + ReversalPays(i) \in Nat
        BY <2>1, <3>1
      <3>4. QED
        BY <3>1, <3>2, <3>3
    <2>3. ledger' \subseteq LedgerEntries
      BY <1>1, <1>2 DEF TypeOK, Reverse, ReversalEntries, LedgerEntries
    <2>4. overtaken' \subseteq Instructions
      BY <1>2 DEF TypeOK, Reverse, Overtake
    <2>5. /\ status' \in [Instructions -> Statuses]
          /\ history' \in [Instructions -> {"absent", "pending", "success", "failed"}]
          /\ fee' \in [Instructions -> {0, FEE}]
      BY <1>2 DEF TypeOK, Reverse, Statuses
    <2>6. QED
      BY <2>2, <2>3, <2>4, <2>5
  <1>3. CASE ~ (status[i] \in Open /\ CanPost(ReversalEntries(i)))
    BY <1>3 DEF TypeOK, Reverse, LedgerEntries
  <1>4. QED
    BY <1>2, <1>3

LEMMA MarkSuccessType ==
    ASSUME TypeOK, NEW i \in Instructions, MarkSuccess(i)
    PROVE  status' \in [Instructions -> Statuses]
  BY DEF TypeOK, MarkSuccess, Statuses

LEMMA FlagType ==
    ASSUME TypeOK, NEW i \in Instructions, FlagForReview(i)
    PROVE  status' \in [Instructions -> Statuses]
  BY DEF TypeOK, FlagForReview, Statuses

LEMMA TypeInit == Init => TypeOK
  BY AmountsArePositive DEF Init, TypeOK, NoSnapshot, NothingListed, RailInit, Statuses, RailStates

LEMMA TypeCommit ==
    ASSUME TypeOK, NEW i \in Instructions, CommitDebit(i)
    PROVE  TypeOK'
  <1>1. snap[i].balance - (request[i].amount + snap[i].fee) \in Nat
    BY RequestType DEF CommitDebit, Covers
  <1>2. Entries(i, "payout", snap[i].fee) \subseteq LedgerEntries
    BY RequestType, EntriesType
  <1>3. balance' \in [Users -> Nat]
    BY <1>1, RequestType DEF TypeOK, CommitDebit
  <1>4. ledger' \subseteq LedgerEntries
    BY <1>2 DEF TypeOK, CommitDebit, LedgerEntries
  <1>5. fee' \in [Instructions -> {0, FEE}]
    BY RequestType DEF TypeOK, CommitDebit
  <1>6. /\ status' \in [Instructions -> Statuses]
        /\ history' \in [Instructions -> {"absent", "pending", "success", "failed"}]
        /\ snap' \in [Instructions -> [balance : Nat, fee : {0, FEE}]]
        /\ overtaken' \subseteq Instructions
    BY DEF TypeOK, CommitDebit, Statuses, NoSnapshot, Overtake
  <1>7. QED
    BY <1>3, <1>4, <1>5, <1>6 DEF TypeOK, CommitDebit, Goto, LedgerEntries, job

LEMMA TypeCall ==
    ASSUME TypeOK, NEW i \in Instructions, CallStep(i)
    PROVE  TypeOK'
  <1>1. CASE Lookup(i)
    BY <1>1 DEF TypeOK, Lookup, Goto, books, job
  <1>2. CASE Refuse(i)
    BY <1>2 DEF TypeOK, Refuse, Goto, books, job
  <1>3. CASE CheckDailyLimit(i)
    BY <1>3 DEF TypeOK, CheckDailyLimit, Goto, books, job
  <1>4. CASE BeginDebit(i)
    BY <1>4 DEF TypeOK, BeginDebit, Goto, User, Requests, books, job
  <1>5. CASE CommitDebit(i)
    BY <1>5, TypeCommit
  <1>6. CASE AbortDebit(i)
    BY <1>6, AmountsArePositive DEF TypeOK, AbortDebit, Goto, NoSnapshot, books, job
  <1>7. CASE CallProvider(i)
    BY <1>7 DEF TypeOK, CallProvider, Goto, Instruct, MoveRail, RailStates, books, job
  <1>8. CASE ProviderAnswers(i)
    BY <1>8 DEF TypeOK, ProviderAnswers, Goto, InitiateAnswers, books, job
  <1>9. CASE SettleAccepted(i)
    BY <1>9, MarkSuccessType DEF TypeOK, SettleAccepted, ForgetAnswer, Goto, MarkSuccess, job
  <1>10. CASE SettleRejected(i)
    BY <1>10, ReverseType DEF TypeOK, SettleRejected, ForgetAnswer, Goto, LedgerEntries, job
  <1>11. CASE SettleAmbiguous(i)
    BY <1>11, FlagType DEF TypeOK, SettleAmbiguous, ForgetAnswer, Goto, FlagForReview, job
  <1>12. CASE FinishSuccess(i)
    BY <1>12 DEF TypeOK, FinishSuccess, Goto, AnnotateHistory, job
  <1>13. CASE CrashCall(i)
    BY <1>13 DEF TypeOK, CrashCall, ForgetAnswer, books, job
  <1>14. QED
    BY <1>1, <1>2, <1>3, <1>4, <1>5, <1>6, <1>7, <1>8, <1>9, <1>10, <1>11, <1>12, <1>13
    DEF CallStep

LEMMA TypePass ==
    ASSUME TypeOK, NEW p \in Passes, PassStep(p)
    PROVE  TypeOK'
  <1>1. CASE ListStuck(p)
    BY <1>1 DEF TypeOK, ListStuck, Listed, Open, calls, books
  <1>2. ASSUME NEW i \in Instructions, AskStatus(p, i)
        PROVE  TypeOK'
    BY <1>2 DEF TypeOK, AskStatus, StatusAnswers, calls, books
  <1>3. ASSUME jobPc[p] = "resolving"
        PROVE  target[p] \in Instructions
    BY <1>3 DEF TypeOK
  <1>4. CASE ResolveSuccess(p)
    BY <1>3, <1>4, MarkSuccessType DEF TypeOK, ResolveSuccess, NextRow, MarkSuccess
  <1>5. CASE ResolveFailed(p)
    BY <1>3, <1>5, ReverseType DEF TypeOK, ResolveFailed, NextRow, LedgerEntries
  <1>6. CASE ResolveUnknown(p)
    BY <1>3, <1>6, FlagType DEF TypeOK, ResolveUnknown, NextRow, FlagForReview, books
  <1>7. CASE FinishRow(p)
    BY <1>7 DEF TypeOK, FinishRow, AnnotateHistory, calls
  <1>8. CASE EndPass(p)
    BY <1>8 DEF TypeOK, EndPass, calls, books
  <1>9. CASE CrashPass(p)
    BY <1>9 DEF TypeOK, CrashPass, NothingListed, calls, books
  <1>10. QED
    BY <1>1, <1>2, <1>4, <1>5, <1>6, <1>7, <1>8, <1>9 DEF PassStep, Resolve

LEMMA TypeNext ==
    ASSUME TypeOK, [Next]_vars
    PROVE  TypeOK'
  <1>1. ASSUME NEW i \in Instructions, BankStep(i)
        PROVE  TypeOK'
    BY <1>1 DEF TypeOK, BankStep, RailStep, RailTakes, RailRefuses, RailPays, RailBounces,
                MoveRail, RailStates, calls, books, job
  <1>2. CASE UNCHANGED vars
    BY <1>2 DEF TypeOK, vars, calls, books, job
  <1>3. QED
    BY <1>1, <1>2, TypeCall, TypePass DEF Next

(* Every variable keeps a value of its kind; no wallet is ever overdrawn,  *)
(* however the debits of one wallet overlap.                               *)
THEOREM TypeCorrect == Spec => []TypeOK
  BY TypeInit, TypeNext, PTL DEF Spec

-----------------------------------------------------------------------------
(* What no step takes back, once the call invariant holds.                 *)
Lasting(i) ==
    /\ Exists(i) => Exists(i)'
    /\ rail[i] \in Taken => rail'[i] \in Taken
    /\ rail[i] \in WillNotPay => rail'[i] \in WillNotPay
    /\ status[i] = "success" => status'[i] = "success"
    /\ status[i] = "failed" => status'[i] = "failed"

LEMMA MarkSuccessEffect ==
    ASSUME TypeOK, NEW i \in Instructions, MarkSuccess(i)
    PROVE  /\ \A j \in Instructions \ {i} : status'[j] = status[j]
           /\ status[i] \in Open => status'[i] = "success"
           /\ status[i] \notin Open => status'[i] = status[i]
  BY DEF TypeOK, MarkSuccess

LEMMA FlagEffect ==
    ASSUME TypeOK, NEW i \in Instructions, FlagForReview(i)
    PROVE  /\ \A j \in Instructions \ {i} : status'[j] = status[j]
           /\ status[i] = "pending" => status'[i] = "requires_review"
           /\ status[i] # "pending" => status'[i] = status[i]
  BY DEF TypeOK, FlagForReview

LEMMA ReverseEffect ==
    ASSUME TypeOK, NEW i \in Instructions, Reverse(i)
    PROVE  /\ \A j \in Instructions \ {i} : status'[j] = status[j]
           /\ status'[i] # status[i] => status[i] \in Open /\ status'[i] = "failed"
           /\ fee' = fee
           /\ \A j \in Instructions :
                 pc[j] = "debiting" /\ j \notin overtaken' /\ i # j
                     => j \notin overtaken /\ balance'[User(j)] = balance[User(j)]
  <1>1. CASE status[i] \in Open /\ CanPost(ReversalEntries(i))
    <2>1. /\ \A j \in Instructions \ {i} : status'[j] = status[j]
          /\ status'[i] = "failed"
          /\ fee' = fee
      BY <1>1 DEF TypeOK, Reverse
    <2>2. ASSUME NEW j \in Instructions, pc[j] = "debiting", j \notin overtaken', i # j
          PROVE  j \notin overtaken /\ balance'[User(j)] = balance[User(j)]
      <3>1. j \notin Overtake(User(i), i)
        BY <1>1, <2>2 DEF Reverse
      <3>2. j \notin overtaken /\ User(j) # User(i)
        BY <2>2, <3>1 DEF Overtake
      <3>3. User(i) \in Users /\ User(j) \in Users
        BY RequestType
      <3>4. QED
        BY <1>1, <3>2, <3>3 DEF TypeOK, Reverse
    <2>3. QED
      BY <1>1, <2>1, <2>2
  <1>2. CASE ~ (status[i] \in Open /\ CanPost(ReversalEntries(i)))
    BY <1>2 DEF Reverse
  <1>3. QED
    BY <1>1, <1>2

LEMMA CallLasts ==
    ASSUME TypeOK, CallInv, NEW i \in Instructions, CallStep(i), NEW j \in Instructions
    PROVE  Lasting(j)
  <1>. USE DEF Lasting, Exists
  <1>1. CASE CommitDebit(i)
    BY <1>1 DEF TypeOK, CallInv, CommitDebit, Goto, Before
  <1>2. CASE CallProvider(i)
    BY <1>2 DEF TypeOK, CallProvider, Instruct, MoveRail, Taken, WillNotPay, books
  <1>3. CASE SettleAccepted(i)
    BY <1>3, MarkSuccessEffect DEF SettleAccepted, Open
  <1>4. CASE SettleRejected(i)
    BY <1>4, ReverseEffect DEF SettleRejected, Open
  <1>5. CASE SettleAmbiguous(i)
    BY <1>5, FlagEffect DEF SettleAmbiguous
  <1>6. CASE FinishSuccess(i)
    BY <1>6 DEF FinishSuccess, AnnotateHistory
  <1>7. CASE Lookup(i) \/ Refuse(i) \/ CheckDailyLimit(i) \/ BeginDebit(i)
             \/ AbortDebit(i) \/ ProviderAnswers(i) \/ CrashCall(i)
    BY <1>7 DEF Lookup, Refuse, CheckDailyLimit, BeginDebit, AbortDebit, ProviderAnswers,
                CrashCall, books
  <1>8. QED
    BY <1>1, <1>2, <1>3, <1>4, <1>5, <1>6, <1>7 DEF CallStep

LEMMA PassLasts ==
    ASSUME TypeOK, NEW p \in Passes, PassStep(p), NEW j \in Instructions
    PROVE  Lasting(j)
  <1>. USE DEF Lasting, Exists
  <1>1. jobPc[p] = "resolving" => target[p] \in Instructions
    BY DEF TypeOK
  <1>2. CASE ResolveSuccess(p)
    BY <1>1, <1>2, MarkSuccessEffect DEF ResolveSuccess, NextRow, Open
  <1>3. CASE ResolveFailed(p)
    BY <1>1, <1>3, ReverseEffect DEF ResolveFailed, NextRow, Open
  <1>4. CASE ResolveUnknown(p)
    BY <1>1, <1>4, FlagEffect DEF ResolveUnknown, NextRow, books
  <1>5. CASE FinishRow(p)
    BY <1>5 DEF FinishRow, AnnotateHistory
  <1>6. CASE ListStuck(p) \/ (\E i \in Instructions : AskStatus(p, i)) \/ EndPass(p) \/ CrashPass(p)
    BY <1>6 DEF ListStuck, AskStatus, EndPass, CrashPass, books
  <1>7. QED
    BY <1>2, <1>3, <1>4, <1>5, <1>6 DEF PassStep, Resolve

LEMMA BankLasts ==
    ASSUME TypeOK, NEW i \in Instructions, BankStep(i), NEW j \in Instructions
    PROVE  Lasting(j) /\ (rail[j] = "none" => rail'[j] = "none")
  BY DEF TypeOK, BankStep, RailStep, RailTakes, RailRefuses, RailPays, RailBounces, MoveRail,
         Taken, WillNotPay, Lasting, Exists, books

LEMMA Lasts ==
    ASSUME TypeOK, CallInv, [Next]_vars, NEW j \in Instructions
    PROVE  Lasting(j)
  <1>1. CASE UNCHANGED vars
    BY <1>1 DEF vars, books, Lasting, Exists
  <1>2. QED
    BY <1>1, CallLasts, PassLasts, BankLasts DEF Next

(* A call touches its own transfer only.                                   *)
LEMMA CallFrame ==
    ASSUME TypeOK, NEW i \in Instructions, CallStep(i), NEW j \in Instructions \ {i}
    PROVE  /\ pc'[j] = pc[j] /\ answer'[j] = answer[j] /\ snap'[j] = snap[j]
           /\ status'[j] = status[j] /\ fee'[j] = fee[j] /\ rail'[j] = rail[j]
  <1>1. CASE CommitDebit(i)
    BY <1>1 DEF TypeOK, CommitDebit, Goto
  <1>2. CASE CallProvider(i)
    BY <1>2 DEF TypeOK, CallProvider, Goto, Instruct, MoveRail, books
  <1>3. CASE SettleAccepted(i)
    BY <1>3, MarkSuccessEffect DEF TypeOK, SettleAccepted, ForgetAnswer, Goto, MarkSuccess
  <1>4. CASE SettleRejected(i)
    BY <1>4, ReverseEffect DEF TypeOK, SettleRejected, ForgetAnswer, Goto
  <1>5. CASE SettleAmbiguous(i)
    BY <1>5, FlagEffect DEF TypeOK, SettleAmbiguous, ForgetAnswer, Goto, FlagForReview
  <1>6. CASE FinishSuccess(i)
    BY <1>6 DEF TypeOK, FinishSuccess, Goto, AnnotateHistory
  <1>7. CASE BeginDebit(i) \/ AbortDebit(i) \/ ProviderAnswers(i)
    BY <1>7 DEF TypeOK, BeginDebit, AbortDebit, ProviderAnswers, Goto, books
  <1>8. CASE Lookup(i) \/ Refuse(i) \/ CheckDailyLimit(i) \/ CrashCall(i)
    BY <1>8 DEF TypeOK, Lookup, Refuse, CheckDailyLimit, CrashCall, ForgetAnswer, Goto, books
  <1>9. QED
    BY <1>1, <1>2, <1>3, <1>4, <1>5, <1>6, <1>7, <1>8 DEF CallStep

(* A pass leaves calls, fees and the bank alone and creates no transfer.   *)
LEMMA PassFrame ==
    ASSUME TypeOK, NEW p \in Passes, PassStep(p)
    PROVE  /\ pc' = pc /\ answer' = answer /\ snap' = snap /\ request' = request
           /\ fee' = fee /\ rail' = rail
           /\ \A j \in Instructions : Exists(j)' => Exists(j)
  <1>. USE DEF Exists
  <1>1. jobPc[p] = "resolving" => target[p] \in Instructions
    BY DEF TypeOK
  <1>2. CASE ResolveSuccess(p)
    BY <1>1, <1>2, MarkSuccessEffect DEF ResolveSuccess, NextRow, MarkSuccess, Open
  <1>3. CASE ResolveFailed(p)
    BY <1>1, <1>3, ReverseEffect DEF ResolveFailed, NextRow, Open
  <1>4. CASE ResolveUnknown(p)
    BY <1>1, <1>4, FlagEffect DEF ResolveUnknown, NextRow, FlagForReview, books
  <1>5. CASE FinishRow(p)
    BY <1>5 DEF FinishRow, AnnotateHistory, calls
  <1>6. CASE ListStuck(p) \/ (\E i \in Instructions : AskStatus(p, i)) \/ EndPass(p) \/ CrashPass(p)
    BY <1>6 DEF ListStuck, AskStatus, EndPass, CrashPass, calls, books
  <1>7. QED
    BY <1>2, <1>3, <1>4, <1>5, <1>6 DEF PassStep, Resolve

LEMMA CallInvCall ==
    ASSUME TypeOK, CallInv, NEW i \in Instructions, CallStep(i)
    PROVE  CallInv'
  <1>. DEFINE Good(j) == /\ pc[j] \in Before => ~ Exists(j)
                         /\ pc[j] \in After => Exists(j)
                         /\ ~ Exists(j) => rail[j] = "none" /\ fee[j] = 0
                         /\ pc[j] = "annotating" => status[j] = "success"
  <1>1. ASSUME NEW j \in Instructions \ {i}
        PROVE  Good(j)'
    BY <1>1, CallFrame DEF CallInv, Exists
  <1>2. Good(i)'
    <2>. USE DEF Exists, Before, After
    <2>1. Good(i)
      BY DEF CallInv
    <2>2. CASE CommitDebit(i)
      BY <2>1, <2>2 DEF TypeOK, CommitDebit, Goto
    <2>3. CASE CallProvider(i)
      BY <2>1, <2>3 DEF TypeOK, CallProvider, Goto, books
    <2>4. CASE SettleAccepted(i)
      BY <2>1, <2>4, MarkSuccessEffect DEF TypeOK, SettleAccepted, ForgetAnswer, Goto, MarkSuccess, Open
    <2>5. CASE SettleRejected(i)
      BY <2>1, <2>5, ReverseEffect DEF TypeOK, SettleRejected, ForgetAnswer, Goto
    <2>6. CASE SettleAmbiguous(i)
      BY <2>1, <2>6, FlagEffect DEF TypeOK, SettleAmbiguous, ForgetAnswer, Goto, FlagForReview
    <2>7. CASE FinishSuccess(i)
      BY <2>1, <2>7 DEF TypeOK, FinishSuccess, Goto, AnnotateHistory
    <2>8. CASE BeginDebit(i) \/ AbortDebit(i) \/ ProviderAnswers(i)
      BY <2>1, <2>8 DEF TypeOK, BeginDebit, AbortDebit, ProviderAnswers, Goto, books
    <2>9. CASE Lookup(i) \/ Refuse(i) \/ CheckDailyLimit(i) \/ CrashCall(i)
      BY <2>1, <2>9 DEF TypeOK, Lookup, Refuse, CheckDailyLimit, CrashCall, Goto, books
    <2>10. QED
      BY <2>2, <2>3, <2>4, <2>5, <2>6, <2>7, <2>8, <2>9 DEF CallStep
  <1>3. QED
    BY <1>1, <1>2 DEF CallInv

LEMMA CallInvNext ==
    ASSUME TypeOK, CallInv, [Next]_vars
    PROVE  CallInv'
  <1>1. CASE UNCHANGED vars
    BY <1>1 DEF vars, calls, books, CallInv, Exists
  <1>2. ASSUME NEW p \in Passes, PassStep(p)
        PROVE  CallInv'
    <2>1. ASSUME NEW j \in Instructions
          PROVE  status[j] = "success" => status'[j] = "success"
      BY <1>2, <2>1, PassLasts DEF Lasting
    <2>2. ASSUME NEW j \in Instructions
          PROVE  Exists(j)' <=> Exists(j)
      BY <1>2, <2>2, PassLasts, PassFrame DEF Lasting
    <2>3. QED
      BY <1>2, <2>1, <2>2, PassFrame DEF CallInv
  <1>3. ASSUME NEW i \in Instructions, BankStep(i)
        PROVE  CallInv'
    <2>1. \A j \in Instructions : rail[j] = "none" => rail'[j] = "none"
      BY <1>3, BankLasts
    <2>2. QED
      BY <1>3, <2>1 DEF BankStep, CallInv, Exists, calls, books
  <1>4. QED
    BY <1>1, <1>2, <1>3, CallInvCall DEF Next

LEMMA AnswerInvCall ==
    ASSUME TypeOK, CallInv, AnswerInv, NEW i \in Instructions, CallStep(i)
    PROVE  AnswerInv'
  <1>1. \A j \in Instructions : Lasting(j)
    BY CallLasts
  <1>2. job' = job
    BY DEF CallStep, Lookup, Refuse, CheckDailyLimit, BeginDebit, CommitDebit, AbortDebit,
           CallProvider, ProviderAnswers, SettleAccepted, SettleRejected, SettleAmbiguous,
           FinishSuccess, CrashCall
  <1>3. ASSUME NEW j \in Instructions, pc'[j] = "settling"
        PROVE  /\ answer'[j] = "accepted" => rail'[j] \in Taken
               /\ answer'[j] = "rejected" => rail'[j] \in WillNotPay
    <2>1. CASE j # i
      BY <1>3, <2>1, CallFrame DEF AnswerInv
    <2>2. CASE j = i
      <3>1. ProviderAnswers(i)
        BY <1>3, <2>2 DEF TypeOK, CallStep, Lookup, Refuse, CheckDailyLimit, BeginDebit,
           CommitDebit, AbortDebit, CallProvider, SettleAccepted, SettleRejected,
           SettleAmbiguous, FinishSuccess, CrashCall, Goto
      <3>2. QED
        BY <2>2, <3>1 DEF TypeOK, ProviderAnswers, InitiateAnswers, WillNotPay
    <2>3. QED
      BY <2>1, <2>2
  <1>4. ASSUME NEW p \in Passes
        PROVE  /\ \A j \in Instructions : seen'[p][j] # "skip" => Exists(j)'
               /\ jobPc'[p] = "resolving" =>
                    /\ target'[p] \in Instructions
                    /\ Exists(target[p])'
                    /\ told'[p] = "success" => rail'[target'[p]] \in Taken
                    /\ told'[p] = "failed" => rail'[target'[p]] \in WillNotPay
               /\ jobPc'[p] = "annotating" =>
                    target'[p] \in Instructions /\ status'[target'[p]] = "success"
    BY <1>1, <1>2 DEF AnswerInv, job, Lasting, Exists
  <1>5. QED
    BY <1>3, <1>4 DEF AnswerInv

LEMMA AnswerInvPass ==
    ASSUME TypeOK, AnswerInv, NEW p \in Passes, PassStep(p)
    PROVE  AnswerInv'
  <1>. DEFINE Informed(q) ==
        /\ \A j \in Instructions : seen[q][j] # "skip" => Exists(j)
        /\ jobPc[q] = "resolving" =>
             /\ target[q] \in Instructions
             /\ Exists(target[q])
             /\ told[q] = "success" => rail[target[q]] \in Taken
             /\ told[q] = "failed" => rail[target[q]] \in WillNotPay
        /\ jobPc[q] = "annotating" =>
             target[q] \in Instructions /\ status[target[q]] = "success"
  <1>1. \A j \in Instructions : Lasting(j)
    BY PassLasts
  <1>2. \A j \in Instructions : pc'[j] = "settling" =>
            /\ answer'[j] = "accepted" => rail'[j] \in Taken
            /\ answer'[j] = "rejected" => rail'[j] \in WillNotPay
    BY PassFrame DEF AnswerInv
  <1>3. ASSUME NEW q \in Passes \ {p}
        PROVE  Informed(q)'
    <2>1. /\ jobPc'[q] = jobPc[q] /\ seen'[q] = seen[q]
          /\ target'[q] = target[q] /\ told'[q] = told[q]
      BY <1>3 DEF TypeOK, PassStep, Resolve, ListStuck, AskStatus, ResolveSuccess, ResolveFailed,
                  ResolveUnknown, NextRow, FinishRow, EndPass, CrashPass
    <2>2. Informed(q)
      BY DEF AnswerInv
    <2>3. QED
      BY <1>1, <2>1, <2>2 DEF Lasting, Exists
  <1>4. Informed(p)'
    <2>1. Informed(p)
      BY DEF AnswerInv
    <2>2. CASE ListStuck(p)
      BY <2>2 DEF TypeOK, ListStuck, Listed, Open, Exists, books
    <2>3. ASSUME NEW i \in Instructions, AskStatus(p, i)
          PROVE  Informed(p)'
      <3>1. /\ jobPc'[p] = "resolving" /\ target'[p] = i /\ told'[p] \in StatusAnswers(i)
            /\ seen' = seen /\ rail' = rail /\ status' = status /\ seen[p][i] # "skip"
        BY <2>3 DEF TypeOK, AskStatus, books
      <3>2. Exists(i)
        BY <2>1, <3>1
      <3>3. /\ told'[p] = "success" => rail[i] \in Taken
            /\ told'[p] = "failed" => rail[i] \in WillNotPay
        BY <3>1 DEF StatusAnswers, Taken
      <3>4. QED
        BY <2>1, <3>1, <3>2, <3>3 DEF Exists
    <2>4. CASE Resolve(p)
      <3>1. /\ target' = target /\ target[p] \in Instructions
            /\ \A j \in Instructions : seen'[p][j] # "skip" => seen[p][j] # "skip"
        BY <2>1, <2>4 DEF TypeOK, Resolve, ResolveSuccess, ResolveFailed, ResolveUnknown, NextRow
      <3>2. jobPc'[p] # "resolving"
        BY <2>4 DEF TypeOK, Resolve, ResolveSuccess, ResolveFailed, ResolveUnknown, NextRow
      <3>3. jobPc'[p] = "annotating" => ResolveSuccess(p) /\ status[target[p]] \in Open
        BY <2>4 DEF TypeOK, Resolve, ResolveSuccess, ResolveFailed, ResolveUnknown, NextRow
      <3>4. jobPc'[p] = "annotating" => status'[target[p]] = "success"
        BY <3>1, <3>3, MarkSuccessEffect DEF ResolveSuccess
      <3>5. \A j \in Instructions : seen'[p][j] # "skip" => Exists(j)'
        BY <1>1, <2>1, <3>1 DEF Lasting
      <3>6. QED
        BY <3>1, <3>2, <3>4, <3>5
    <2>5. CASE FinishRow(p) \/ EndPass(p)
      BY <1>1, <2>1, <2>5 DEF TypeOK, FinishRow, EndPass, Lasting
    <2>6. CASE CrashPass(p)
      BY <2>6 DEF TypeOK, CrashPass, NothingListed
    <2>7. QED
      BY <2>2, <2>3, <2>4, <2>5, <2>6 DEF PassStep
  <1>5. QED
    BY <1>2, <1>3, <1>4 DEF AnswerInv

LEMMA AnswerInvNext ==
    ASSUME TypeOK, CallInv, AnswerInv, [Next]_vars
    PROVE  AnswerInv'
  <1>1. CASE UNCHANGED vars
    BY <1>1 DEF vars, calls, books, job, AnswerInv, Exists
  <1>2. ASSUME NEW i \in Instructions, BankStep(i)
        PROVE  AnswerInv'
    <2>1. \A j \in Instructions : Lasting(j)
      BY <1>2, BankLasts
    <2>2. pc' = pc /\ answer' = answer /\ job' = job /\ status' = status
      BY <1>2 DEF BankStep, calls, books
    <2>3. QED
      BY <2>1, <2>2 DEF AnswerInv, job, Lasting, Exists
  <1>3. QED
    BY <1>1, <1>2, AnswerInvCall, AnswerInvPass DEF Next

(* Whoever writes a wallet overtakes the open transactions that read it.   *)
LEMMA SnapshotInvCall ==
    ASSUME TypeOK, CallInv, SnapshotInv, NEW i \in Instructions, CallStep(i)
    PROVE  SnapshotInv'
  <1>. SUFFICES ASSUME NEW j \in Instructions, pc'[j] = "debiting", j \notin overtaken'
                PROVE  snap'[j].balance = balance'[User(j)']
    BY DEF SnapshotInv
  <1>1. request' = request
    BY DEF CallStep, Lookup, Refuse, CheckDailyLimit, BeginDebit, CommitDebit, AbortDebit,
           CallProvider, ProviderAnswers, SettleAccepted, SettleRejected, SettleAmbiguous,
           FinishSuccess, CrashCall
  <1>2. User(j)' = User(j) /\ User(j) \in Users /\ User(i) \in Users
    BY <1>1, RequestType DEF User
  <1>3. CASE j = i
    <2>1. BeginDebit(i)
      BY <1>3 DEF TypeOK, CallStep, Lookup, Refuse, CheckDailyLimit, CommitDebit, AbortDebit,
         CallProvider, ProviderAnswers, SettleAccepted, SettleRejected, SettleAmbiguous,
         FinishSuccess, CrashCall, Goto
    <2>2. QED
      BY <1>2, <1>3, <2>1 DEF TypeOK, BeginDebit, books
  <1>4. CASE j # i
    <2>1. pc[j] = "debiting" /\ snap'[j] = snap[j]
      BY <1>4, CallFrame
    <2>2. SUFFICES j \notin overtaken /\ balance'[User(j)] = balance[User(j)]
      BY <1>2, <2>1 DEF SnapshotInv
    <2>3. CASE CommitDebit(i)
      <3>1. j \notin Overtake(User(i), i)
        BY <2>3 DEF CommitDebit
      <3>2. j \notin overtaken /\ User(j) # User(i)
        BY <1>4, <2>1, <3>1 DEF Overtake
      <3>3. QED
        BY <1>2, <2>3, <3>2 DEF TypeOK, CommitDebit
    <2>4. CASE SettleRejected(i)
      BY <1>4, <2>1, <2>4, ReverseEffect DEF SettleRejected
    <2>5. CASE SettleAccepted(i) \/ SettleAmbiguous(i) \/ FinishSuccess(i)
      BY <2>5 DEF SettleAccepted, SettleAmbiguous, FinishSuccess, MarkSuccess, FlagForReview,
                  AnnotateHistory
    <2>6. CASE BeginDebit(i) \/ AbortDebit(i)
      BY <1>4, <2>6 DEF BeginDebit, AbortDebit, books
    <2>7. CASE Lookup(i) \/ Refuse(i) \/ CheckDailyLimit(i) \/ CallProvider(i)
               \/ ProviderAnswers(i) \/ CrashCall(i)
      BY <2>7 DEF Lookup, Refuse, CheckDailyLimit, CallProvider, ProviderAnswers, CrashCall, books
    <2>8. QED
      BY <2>3, <2>4, <2>5, <2>6, <2>7 DEF CallStep
  <1>5. QED
    BY <1>3, <1>4

LEMMA SnapshotInvNext ==
    ASSUME TypeOK, CallInv, AnswerInv, SnapshotInv, [Next]_vars
    PROVE  SnapshotInv'
  <1>1. CASE UNCHANGED vars
    BY <1>1 DEF vars, calls, books, SnapshotInv, User
  <1>2. ASSUME NEW i \in Instructions, BankStep(i)
        PROVE  SnapshotInv'
    BY <1>2 DEF BankStep, calls, books, SnapshotInv, User
  <1>3. ASSUME NEW p \in Passes, PassStep(p)
        PROVE  SnapshotInv'
    <2>1. pc' = pc /\ snap' = snap /\ request' = request
      BY <1>3, PassFrame
    <2>2. CASE ResolveFailed(p)
      <3>1. target[p] \in Instructions /\ Exists(target[p]) /\ Reverse(target[p])
        BY <2>2 DEF AnswerInv, ResolveFailed, NextRow
      <3>2. \A j \in Instructions : pc[j] = "debiting" => j # target[p]
        BY <3>1 DEF CallInv, Before
      <3>3. QED
        BY <2>1, <3>1, <3>2, ReverseEffect DEF SnapshotInv, User
    <2>3. CASE PassStep(p) /\ ~ ResolveFailed(p)
      <3>1. balance' = balance /\ overtaken' = overtaken
        BY <2>3 DEF PassStep, Resolve, ListStuck, AskStatus, ResolveSuccess, ResolveUnknown,
                    FinishRow, EndPass, CrashPass, MarkSuccess, FlagForReview, AnnotateHistory,
                    calls, books
      <3>2. QED
        BY <2>1, <3>1 DEF SnapshotInv, User
    <2>4. QED
      BY <1>3, <2>2, <2>3
  <1>4. QED
    BY <1>1, <1>2, <1>3, SnapshotInvCall DEF Next

(* A transfer becomes final only on the word of the bank.                  *)
LEMMA OutcomeCall ==
    ASSUME TypeOK, CallInv, AnswerInv, NEW i \in Instructions, CallStep(i),
           NEW j \in Instructions, status'[j] # status[j]
    PROVE  /\ status'[j] = "failed"  => rail[j] \in WillNotPay
           /\ status'[j] = "success" => rail[j] \in Taken
  <1>1. j = i
    BY CallFrame
  <1>2. CASE CommitDebit(i)
    BY <1>1, <1>2 DEF TypeOK, CommitDebit
  <1>3. CASE SettleAccepted(i)
    BY <1>1, <1>3, MarkSuccessEffect DEF SettleAccepted, ForgetAnswer, Goto, AnswerInv
  <1>4. CASE SettleRejected(i)
    BY <1>1, <1>4, ReverseEffect DEF SettleRejected, ForgetAnswer, Goto, AnswerInv
  <1>5. CASE SettleAmbiguous(i)
    BY <1>1, <1>5, FlagEffect DEF SettleAmbiguous
  <1>6. QED
    BY <1>2, <1>3, <1>4, <1>5 DEF CallStep, Lookup, Refuse, CheckDailyLimit, BeginDebit,
       AbortDebit, CallProvider, ProviderAnswers, FinishSuccess, AnnotateHistory, CrashCall, books

LEMMA OutcomePass ==
    ASSUME TypeOK, AnswerInv, NEW p \in Passes, PassStep(p),
           NEW j \in Instructions, status'[j] # status[j]
    PROVE  /\ status'[j] = "failed"  => rail[j] \in WillNotPay
           /\ status'[j] = "success" => rail[j] \in Taken
  <1>1. jobPc[p] = "resolving" =>
            /\ target[p] \in Instructions
            /\ told[p] = "success" => rail[target[p]] \in Taken
            /\ told[p] = "failed" => rail[target[p]] \in WillNotPay
    BY DEF AnswerInv
  <1>2. CASE ResolveSuccess(p)
    BY <1>1, <1>2, MarkSuccessEffect DEF ResolveSuccess, NextRow
  <1>3. CASE ResolveFailed(p)
    BY <1>1, <1>3, ReverseEffect DEF ResolveFailed, NextRow
  <1>4. CASE ResolveUnknown(p)
    BY <1>1, <1>4, FlagEffect DEF ResolveUnknown, NextRow, books
  <1>5. QED
    BY <1>2, <1>3, <1>4 DEF PassStep, Resolve, ListStuck, AskStatus, FinishRow, AnnotateHistory,
       EndPass, CrashPass, books

LEMMA OutcomeNext ==
    ASSUME TypeOK, CallInv, AnswerInv, OutcomeMatchesRail, [Next]_vars
    PROVE  OutcomeMatchesRail'
  <1>. SUFFICES ASSUME NEW j \in Instructions
                PROVE  /\ status'[j] = "failed"  => rail'[j] \in WillNotPay
                       /\ status'[j] = "success" => rail'[j] \in Taken
    BY DEF OutcomeMatchesRail
  <1>1. Lasting(j)
    BY Lasts
  <1>2. CASE status'[j] = status[j]
    BY <1>1, <1>2 DEF Lasting, OutcomeMatchesRail
  <1>3. CASE status'[j] # status[j]
    <2>1. ~ UNCHANGED vars /\ \A i \in Instructions : ~ BankStep(i)
      BY <1>3 DEF vars, books, BankStep
    <2>2. /\ status'[j] = "failed"  => rail[j] \in WillNotPay
          /\ status'[j] = "success" => rail[j] \in Taken
      BY <1>3, <2>1, OutcomeCall, OutcomePass DEF Next
    <2>3. QED
      BY <1>1, <2>2 DEF Lasting
  <1>4. QED
    BY <1>2, <1>3

LEMMA IInvInit == Init => IInv
  <1>. SUFFICES ASSUME Init PROVE IInv
    OBVIOUS
  <1>1. CallInv /\ AnswerInv /\ SnapshotInv /\ OutcomeMatchesRail
    BY DEF Init, RailInit, NothingListed, CallInv, AnswerInv, SnapshotInv, OutcomeMatchesRail,
           Exists, Before, After
  <1>2. QED
    BY <1>1, TypeInit DEF IInv

LEMMA IInvNext ==
    ASSUME IInv, [Next]_vars
    PROVE  IInv'
  BY TypeNext, CallInvNext, AnswerInvNext, SnapshotInvNext, OutcomeNext DEF IInv

LEMMA IInvAlways == Spec => []IInv
  BY IInvInit, IInvNext, PTL DEF Spec

(* Money is given back only for a transfer the bank will never pay, and a  *)
(* transfer is called successful only when the bank has taken it, with any *)
(* number of calls, customers and overlapping recovery passes.             *)
THEOREM OutcomeCorrect == Spec => []OutcomeMatchesRail
  BY IInvAlways, PTL DEF IInv

LEMMA FinalStep ==
    ASSUME TypeOK, CallInv, [Next]_vars, NEW i \in Instructions
    PROVE  /\ status[i] \in {"success", "failed"} => status'[i] = status[i]
           /\ Exists(i) => Exists(i)' /\ fee'[i] = fee[i]
  <1>1. Lasting(i)
    BY Lasts
  <1>2. ASSUME NEW j \in Instructions, CallStep(j), Exists(i)
        PROVE  fee'[i] = fee[i]
    <2>1. CASE i # j
      BY <1>2, <2>1, CallFrame
    <2>2. CASE i = j
      <3>1. ~ CommitDebit(i)
        BY <1>2 DEF CommitDebit, Goto, CallInv, Before
      <3>2. QED
        BY <1>2, <2>2, <3>1, ReverseEffect DEF CallStep, Lookup, Refuse, CheckDailyLimit,
           BeginDebit, AbortDebit, CallProvider, ProviderAnswers, SettleAccepted, MarkSuccess,
           SettleRejected, SettleAmbiguous, FlagForReview, FinishSuccess, AnnotateHistory,
           CrashCall, books
    <2>3. QED
      BY <2>1, <2>2
  <1>3. Exists(i) => fee'[i] = fee[i]
    BY <1>2, PassFrame DEF Next, BankStep, vars, books
  <1>4. QED
    BY <1>1, <1>3 DEF Lasting

(* Success and failure are final, and a transfer once created is never     *)
(* uncreated nor charged anew: no late answer, overlapping pass or retry   *)
(* moves it.                                                               *)
THEOREM FinalCorrect == Spec => OutcomeIsFinal
  <1>1. IInv /\ [Next]_vars =>
          [\A i \in Instructions :
              /\ status[i] \in {"success", "failed"} => status'[i] = status[i]
              /\ Exists(i) => Exists(i)' /\ fee'[i] = fee[i]]_vars
    BY FinalStep DEF IInv
  <1>2. QED
    BY <1>1, IInvAlways, PTL DEF Spec, OutcomeIsFinal

LEMMA RequestLasts ==
    ASSUME [Next]_vars
    PROVE  request' = request
  BY DEF Next, CallStep, Lookup, Refuse, CheckDailyLimit, BeginDebit, CommitDebit, AbortDebit,
         CallProvider, ProviderAnswers, SettleAccepted, SettleRejected, SettleAmbiguous,
         FinishSuccess, CrashCall, PassStep, Resolve, ListStuck, AskStatus, ResolveSuccess,
         ResolveFailed, ResolveUnknown, FinishRow, EndPass, CrashPass, BankStep, vars, calls

(* Only the commit of its own debit brings a transfer into being.          *)
LEMMA CreatedByCommit ==
    ASSUME TypeOK, CallInv, [Next]_vars, NEW j \in Instructions, ~ Exists(j), Exists(j)'
    PROVE  CommitDebit(j)
  <1>1. ~ UNCHANGED vars /\ (\A i \in Instructions : ~ BankStep(i))
    BY DEF vars, books, BankStep, Exists
  <1>2. \A p \in Passes : ~ PassStep(p)
    BY PassFrame
  <1>3. PICK i \in Instructions : CallStep(i)
    BY <1>1, <1>2 DEF Next
  <1>4. i = j
    BY <1>3, CallFrame DEF Exists
  <1>5. status[j] = "absent"
    BY DEF Exists
  <1>6. CASE SettleAccepted(j) \/ SettleRejected(j) \/ SettleAmbiguous(j)
    BY <1>5, <1>6, MarkSuccessEffect, ReverseEffect, FlagEffect
    DEF SettleAccepted, SettleRejected, SettleAmbiguous, Open, Exists
  <1>7. QED
    BY <1>3, <1>4, <1>6 DEF CallStep, Lookup, Refuse, CheckDailyLimit, BeginDebit, AbortDebit,
       CallProvider, ProviderAnswers, FinishSuccess, AnnotateHistory, CrashCall, books, Exists

LEMMA KeyStep ==
    ASSUME TypeOK, CallInv, OneTransferPerKey, [Next]_vars
    PROVE  OneTransferPerKey'
  <1>. SUFFICES ASSUME NEW i \in Instructions, NEW j \in Instructions,
                       Exists(i)', Exists(j)', User(i)' = User(j)',
                       request'[i].key = request'[j].key, i # j
                PROVE  FALSE
    BY DEF OneTransferPerKey
  <1>1. User(i) = User(j) /\ request[i].key = request[j].key
    BY RequestLasts DEF User
  <1>2. ~ (Exists(i) /\ Exists(j))
    BY <1>1 DEF OneTransferPerKey
  <1>3. CASE ~ Exists(i)
    <2>1. CommitDebit(i)
      BY <1>3, CreatedByCommit
    <2>2. Exists(j)
      <3>1. CallStep(i) /\ j \in Instructions \ {i}
        BY <2>1 DEF CallStep
      <3>2. status'[j] = status[j]
        BY <3>1, CallFrame
      <3>3. QED
        BY <3>2 DEF Exists
    <2>3. QED
      BY <1>1, <2>1, <2>2 DEF CommitDebit, KeyFree, KeyTaken, User
  <1>4. CASE ~ Exists(j)
    <2>1. CommitDebit(j)
      BY <1>4, CreatedByCommit
    <2>2. Exists(i)
      <3>1. CallStep(j) /\ i \in Instructions \ {j}
        BY <2>1 DEF CallStep
      <3>2. status'[i] = status[i]
        BY <3>1, CallFrame
      <3>3. QED
        BY <3>2 DEF Exists
    <2>3. QED
      BY <1>1, <2>1, <2>2 DEF CommitDebit, KeyFree, KeyTaken, User
  <1>5. QED
    BY <1>2, <1>3, <1>4

(* A retried request never creates a second transfer, however many calls   *)
(* with the same key are in progress at once.                              *)
THEOREM KeysCorrect == Spec => []OneTransferPerKey
  <1>1. Init => OneTransferPerKey
    BY DEF Init, OneTransferPerKey, Exists
  <1>2. IInv /\ OneTransferPerKey /\ [Next]_vars => OneTransferPerKey'
    BY KeyStep DEF IInv
  <1>3. QED
    BY <1>1, <1>2, IInvAlways, PTL DEF Spec

-----------------------------------------------------------------------------
(* What each step does to the books.                                       *)

(* A debit is given back.                                                  *)
GiveBack(i) ==
    /\ status[i] \in Open
    /\ CanPost(ReversalEntries(i))
    /\ status'  = [status EXCEPT ![i] = "failed"]
    /\ balance' = [balance EXCEPT ![User(i)] = balance[User(i)] + Total(i)]
    /\ ledger'  = ledger \cup Entries(i, "reversal", fee[i])
    /\ history' = [history EXCEPT ![i] = "failed"]
    /\ overtaken' = Overtake(User(i), i)
    /\ UNCHANGED <<request, fee>>

(* No money moves: a transfer that is open may become a success or be put  *)
(* under review, and the history row of a success is brought up to date.   *)
Quiet ==
    /\ UNCHANGED <<request, balance, fee, ledger>>
    /\ \A j \in Instructions :
          /\ \/ status'[j] = status[j]
             \/ status[j] \in Open /\ status'[j] \in {"success", "requires_review"}
          /\ \/ history'[j] = history[j]
             \/ history'[j] = "success" /\ status[j] = "success" /\ status'[j] = "success"

LEMMA MarkIsQuiet ==
    ASSUME TypeOK, NEW i \in Instructions, MarkSuccess(i), request' = request
    PROVE  Quiet
  BY DEF MarkSuccess, Quiet, TypeOK

LEMMA FlagIsQuiet ==
    ASSUME TypeOK, NEW i \in Instructions, FlagForReview(i), request' = request
    PROVE  Quiet
  BY DEF FlagForReview, Quiet, TypeOK, Open

LEMMA AnnotateIsQuiet ==
    ASSUME TypeOK, NEW i \in Instructions, AnnotateHistory(i), status[i] = "success", request' = request
    PROVE  Quiet
  BY DEF AnnotateHistory, Quiet, TypeOK

LEMMA ReverseKinds ==
    ASSUME NEW i \in Instructions, Reverse(i), request' = request
    PROVE  GiveBack(i) \/ Quiet
  BY DEF Reverse, ReversalPays, ReversalEntries, GiveBack, Quiet

LEMMA StepKinds ==
    ASSUME IInv, [Next]_vars
    PROVE  Quiet \/ \E i \in Instructions : CommitDebit(i) \/ GiveBack(i)
  <1>0. TypeOK /\ request' = request
    BY RequestLasts DEF IInv
  <1>1. ASSUME UNCHANGED books PROVE Quiet
    BY <1>0, <1>1 DEF books, Quiet
  <1>2. ASSUME NEW i \in Instructions, CallStep(i), ~ CommitDebit(i) PROVE Quiet \/ GiveBack(i)
    <2>1. CASE SettleAccepted(i)
      BY <1>0, <2>1, MarkIsQuiet DEF SettleAccepted
    <2>2. CASE SettleRejected(i)
      BY <1>0, <2>2, ReverseKinds DEF SettleRejected
    <2>3. CASE SettleAmbiguous(i)
      BY <1>0, <2>3, FlagIsQuiet DEF SettleAmbiguous
    <2>4. CASE FinishSuccess(i)
      BY <1>0, <2>4, AnnotateIsQuiet DEF FinishSuccess, Goto, IInv, CallInv
    <2>5. QED
      BY <1>1, <1>2, <2>1, <2>2, <2>3, <2>4 DEF CallStep, Lookup, Refuse, CheckDailyLimit, BeginDebit,
         AbortDebit, CallProvider, ProviderAnswers, CrashCall
  <1>3. ASSUME NEW p \in Passes, PassStep(p) PROVE Quiet \/ \E i \in Instructions : GiveBack(i)
    <2>1. /\ jobPc[p] = "resolving" => target[p] \in Instructions
          /\ jobPc[p] = "annotating" => target[p] \in Instructions /\ status[target[p]] = "success"
      BY DEF IInv, AnswerInv
    <2>2. CASE ResolveSuccess(p)
      BY <1>0, <2>1, <2>2, MarkIsQuiet DEF ResolveSuccess, NextRow
    <2>3. CASE ResolveFailed(p)
      BY <1>0, <2>1, <2>3, ReverseKinds DEF ResolveFailed, NextRow
    <2>4. CASE ResolveUnknown(p)
      BY <1>0, <1>1, <2>1, <2>4, FlagIsQuiet DEF ResolveUnknown, NextRow
    <2>5. CASE FinishRow(p)
      BY <1>0, <2>1, <2>5, AnnotateIsQuiet DEF FinishRow
    <2>6. QED
      BY <1>1, <1>3, <2>2, <2>3, <2>4, <2>5 DEF PassStep, Resolve, ListStuck, AskStatus, EndPass, CrashPass
  <1>4. QED
    BY <1>1, <1>2, <1>3 DEF Next, BankStep, vars

-----------------------------------------------------------------------------
(* The ledger and the history row.                                         *)

(* The rows and entries there are so far.                                  *)
Rows     == {j \in Instructions : Exists(j)}
FiniteInv == IsFiniteSet(ledger) /\ IsFiniteSet(Rows)

(* EntriesAgree, entry by entry.                                           *)
Paid(e)     == \E i \in Instructions : Exists(i) /\ e \in Entries(i, "payout", fee[i])
Returned(e) == \E i \in Instructions : status[i] = "failed" /\ e \in Entries(i, "reversal", fee[i])

HistoryAgrees ==
    \A i \in Instructions :
        /\ history[i] = "failed" <=> status[i] = "failed"
        /\ history[i] = "success" => status[i] = "success"
        /\ history[i] = "absent" <=> ~ Exists(i)

LEMMA EntryByEntry == EntriesAgree <=> (\A e : e \in ledger <=> Paid(e) \/ Returned(e)) /\ HistoryAgrees
  <1> DEFINE Failed == {j \in Instructions : status[j] = "failed"}
             P == UNION {Entries(i, "payout", fee[i]) : i \in Rows}
             R == UNION {Entries(i, "reversal", fee[i]) : i \in Failed}
  <1>1. ASSUME NEW e PROVE e \in P <=> Paid(e)
    <2>1. e \in P <=> \E i \in Rows : e \in Entries(i, "payout", fee[i])
      OBVIOUS
    <2>2. \A i : i \in Rows <=> i \in Instructions /\ Exists(i)
      BY DEF Rows
    <2>3. QED
      BY <2>1, <2>2, Zenon DEF Paid
  <1>2. ASSUME NEW e PROVE e \in R <=> Returned(e)
    <2>1. e \in R <=> \E i \in Failed : e \in Entries(i, "reversal", fee[i])
      OBVIOUS
    <2>2. \A i : i \in Failed <=> i \in Instructions /\ status[i] = "failed"
      OBVIOUS
    <2>3. QED
      BY <2>1, <2>2, Zenon DEF Returned
  <1>3. EntriesAgree <=> ledger = P \cup R /\ HistoryAgrees
    BY Zenon DEF EntriesAgree, HistoryAgrees, Rows
  <1> HIDE DEF P, R
  <1>4. QED
    BY <1>1, <1>2, <1>3

LEMMA EntryIs ==
    ASSUME NEW i, NEW type, NEW f, NEW e \in Entries(i, type, f)
    PROVE  e.ref = i /\ e.type = type /\ e.wallet = User(i)
  BY DEF Entries, Entry

LEMMA EntriesLast ==
    ASSUME request' = request, NEW i, NEW type, NEW f
    PROVE  Entries(i, type, f)' = Entries(i, type, f')
  BY DEF Entries, Entry, User

LEMMA EntriesCommit ==
    ASSUME IInv, EntriesAgree, NEW i \in Instructions, CommitDebit(i)
    PROVE  /\ EntriesAgree' /\ ~ Exists(i)
           /\ \A e \in Entries(i, "payout", snap[i].fee) : e \notin ledger
           /\ Rows' = Rows \cup {i}
  <1> DEFINE f == snap[i].fee
  <1>1. ~ Exists(i) /\ status[i] = "absent" /\ TypeOK
    BY DEF CommitDebit, Goto, IInv, CallInv, Before, Exists
  <1>2. /\ \A j \in Instructions : status'[j] = IF j = i THEN "pending" ELSE status[j]
        /\ \A j \in Instructions : fee'[j] = IF j = i THEN f ELSE fee[j]
        /\ \A j \in Instructions : history'[j] = IF j = i THEN "pending" ELSE history[j]
        /\ ledger' = ledger \cup Entries(i, "payout", f) /\ request' = request
    BY <1>1 DEF CommitDebit, TypeOK
  <1> HIDE DEF f
  <1>3. \A j, type, g : Entries(j, type, g)' = Entries(j, type, g')
    BY <1>2, EntriesLast
  <1>4. \A e : Paid(e)' <=> Paid(e) \/ e \in Entries(i, "payout", f)
    BY <1>1, <1>2, <1>3 DEF Paid, Exists
  <1>5. \A e : Returned(e)' <=> Returned(e)
    BY <1>1, <1>2, <1>3 DEF Returned
  <1>6. \A e : e \in ledger' <=> Paid(e)' \/ Returned(e)'
    BY <1>2, <1>4, <1>5, EntryByEntry
  <1>7. HistoryAgrees'
    BY <1>1, <1>2, EntryByEntry DEF HistoryAgrees, Exists
  <1>8. EntriesAgree'
    <2>1. (EntriesAgree <=> (\A e : e \in ledger <=> Paid(e) \/ Returned(e)) /\ HistoryAgrees)'
      BY EntryByEntry, PTL
    <2>2. QED
      BY <1>6, <1>7, <2>1
  <1>9. ASSUME NEW e \in Entries(i, "payout", f), e \in ledger PROVE FALSE
    <2>1. e.ref = i /\ e.type = "payout"
      BY EntryIs
    <2>2. Paid(e)
      <3>1. Paid(e) \/ Returned(e)
        BY <1>9, EntryByEntry
      <3>2. ~ Returned(e)
        BY <2>1, EntryIs DEF Returned
      <3>3. QED
        BY <3>1, <3>2
    <2>3. QED
      BY <1>1, <2>1, <2>2, EntryIs DEF Paid
  <1>10. Rows' = Rows \cup {i}
    BY <1>2 DEF Rows, Exists
  <1>11. QED
    BY <1>1, <1>8, <1>9, <1>10 DEF f

LEMMA EntriesReturn ==
    ASSUME IInv, EntriesAgree, NEW i \in Instructions, GiveBack(i)
    PROVE  /\ EntriesAgree' /\ Rows' = Rows
           /\ \A e \in Entries(i, "reversal", fee[i]) : e \notin ledger
  <1>1. Exists(i) /\ status[i] # "failed" /\ TypeOK
    BY DEF GiveBack, Open, Exists, IInv
  <1>2. /\ \A j \in Instructions : status'[j] = IF j = i THEN "failed" ELSE status[j]
        /\ \A j \in Instructions : history'[j] = IF j = i THEN "failed" ELSE history[j]
        /\ ledger' = ledger \cup Entries(i, "reversal", fee[i])
        /\ request' = request /\ fee' = fee
    BY <1>1 DEF GiveBack, TypeOK
  <1>3. \A j, type, g : Entries(j, type, g)' = Entries(j, type, g')
    BY <1>2, EntriesLast
  <1>4. \A e : Paid(e)' <=> Paid(e)
    BY <1>1, <1>2, <1>3 DEF Paid, Exists
  <1>5. \A e : Returned(e)' <=> Returned(e) \/ e \in Entries(i, "reversal", fee[i])
    BY <1>1, <1>2, <1>3 DEF Returned
  <1>6. \A e : e \in ledger' <=> Paid(e)' \/ Returned(e)'
    BY <1>2, <1>4, <1>5, EntryByEntry
  <1>7. HistoryAgrees'
    BY <1>1, <1>2, EntryByEntry DEF HistoryAgrees, Exists
  <1>8. EntriesAgree'
    <2>1. (EntriesAgree <=> (\A e : e \in ledger <=> Paid(e) \/ Returned(e)) /\ HistoryAgrees)'
      BY EntryByEntry, PTL
    <2>2. QED
      BY <1>6, <1>7, <2>1
  <1>9. Rows' = Rows
    BY <1>1, <1>2 DEF Rows, Exists
  <1>10. ASSUME NEW e \in Entries(i, "reversal", fee[i]), e \in ledger PROVE FALSE
    BY <1>10, Zenon DEF GiveBack, CanPost, ReversalEntries
  <1>11. QED
    BY <1>8, <1>9, <1>10

LEMMA EntriesQuiet ==
    ASSUME IInv, EntriesAgree, Quiet
    PROVE  EntriesAgree' /\ Rows' = Rows
  <1>1. /\ request' = request /\ fee' = fee /\ ledger' = ledger
        /\ \A j \in Instructions : /\ status'[j] = "failed" <=> status[j] = "failed"
                                   /\ Exists(j)' <=> Exists(j)
    BY DEF Quiet, Open, Exists
  <1>2. \A j, type, g : Entries(j, type, g)' = Entries(j, type, g')
    BY <1>1, EntriesLast
  <1>3. \A e : (Paid(e)' <=> Paid(e)) /\ (Returned(e)' <=> Returned(e))
    BY <1>1, <1>2 DEF Paid, Returned
  <1>4. HistoryAgrees'
    BY <1>1, EntryByEntry DEF HistoryAgrees, Quiet, Open, Exists
  <1>5. (EntriesAgree <=> (\A e : e \in ledger <=> Paid(e) \/ Returned(e)) /\ HistoryAgrees)'
    BY EntryByEntry, PTL
  <1>6. QED
    BY <1>1, <1>3, <1>4, <1>5, EntryByEntry DEF Rows

-----------------------------------------------------------------------------
(* The balance.                                                            *)

LEMMA AmountGrows ==
    ASSUME NEW E, E \subseteq LedgerEntries, IsFiniteSet(E), NEW e \in LedgerEntries, e \notin E
    PROVE  Amount(E) \in Int /\ Amount(E \cup {e}) = Amount(E) + e.amount
  <1> DEFINE f == [m \in E |-> m.amount]
             g == [m \in E \cup {e} |-> m.amount]
  <1>0. \A m \in LedgerEntries : m.amount \in Int
    BY DEF LedgerEntries
  <1>1. g[e] = e.amount /\ g[e] \in Int
    BY <1>0
  <1>2. \A m \in E : f[m] \in Int /\ g[m] = f[m]
    BY <1>0
  <1>3. Amount(E) = SumFunctionOnSet(f, E) /\ Amount(E \cup {e}) = SumFunctionOnSet(g, E \cup {e})
    BY Zenon DEF Amount
  <1> HIDE DEF f, g
  <1>4. SumFunctionOnSet(f, E) \in Int
        /\ SumFunctionOnSet(g, E \cup {e}) = SumFunctionOnSet(f, E) + g[e]
    BY ONLY IsFiniteSet(E), e \notin E, <1>1, <1>2, SumGrows
  <1>5. QED
    BY <1>1, <1>3, <1>4

(* The entries of one posting come to the amount and the fee.              *)
LEMMA PostingGrows ==
    ASSUME TypeOK, NEW E, E \subseteq LedgerEntries, IsFiniteSet(E), NEW i \in Instructions,
           NEW type \in {"payout", "reversal"}, NEW f \in {0, FEE},
           \A e \in Entries(i, type, f) : e \notin E
    PROVE  /\ Amount(E) \in Int
           /\ Amount(E \cup Entries(i, type, f)) = Amount(E) + request[i].amount + f
           /\ IsFiniteSet(E \cup Entries(i, type, f))
  <1> DEFINE a == Entry(i, "amount", type, request[i].amount)
             b == Entry(i, "fee", type, f)
  <1>1. f \in Nat /\ request[i].amount \in Nat
    BY RequestType, AmountsArePositive
  <1>2. a.amount = request[i].amount /\ b.amount = f /\ a # b
    BY DEF Entry
  <1>3. a \in Entries(i, type, f) /\ a \in LedgerEntries /\ a \notin E
    BY EntriesType DEF Entries
  <1>4. /\ Entries(i, type, f) = IF f > 0 THEN {a, b} ELSE {a}
        /\ f > 0 => b \in LedgerEntries /\ b \notin E
    BY EntriesType DEF Entries
  <1> HIDE DEF a, b
  <1>5. /\ Amount(E) \in Int /\ Amount(E \cup {a}) = Amount(E) + request[i].amount
        /\ IsFiniteSet(E \cup {a}) /\ E \cup {a} \subseteq LedgerEntries
    BY <1>2, <1>3, AmountGrows, FS_AddElement
  <1>6. CASE f > 0
    <2>1. b \notin E \cup {a}
      BY <1>2, <1>4, <1>6
    <2>2. /\ Amount((E \cup {a}) \cup {b}) = Amount(E \cup {a}) + f
          /\ IsFiniteSet((E \cup {a}) \cup {b})
      BY <1>2, <1>4, <1>5, <1>6, <2>1, AmountGrows, FS_AddElement
    <2>3. E \cup Entries(i, type, f) = (E \cup {a}) \cup {b}
      BY <1>4, <1>6
    <2>4. QED
      BY <1>5, <2>2, <2>3
  <1>7. CASE f = 0
    <2>1. E \cup Entries(i, type, f) = E \cup {a}
      BY <1>4, <1>7
    <2>2. /\ Amount(E \cup Entries(i, type, f)) = Amount(E) + request[i].amount
          /\ IsFiniteSet(E \cup Entries(i, type, f))
      BY <1>5, <2>1, Zenon
    <2>3. Amount(E) + request[i].amount = Amount(E) + request[i].amount + f
      BY <1>1, <1>5, <1>7
    <2>4. QED
      BY <1>5, <2>2, <2>3
  <1>8. QED
    BY <1>1, <1>6, <1>7

(* A posting moves one sum of one wallet, and no other sum.                *)
LEMMA PostedMoves ==
    ASSUME TypeOK, IsFiniteSet(ledger), NEW i \in Instructions,
           NEW type \in {"payout", "reversal"}, NEW f \in {0, FEE},
           \A e \in Entries(i, type, f) : e \notin ledger,
           ledger' = ledger \cup Entries(i, type, f)
    PROVE  /\ IsFiniteSet(ledger')
           /\ \A u \in Users, t \in {"payout", "reversal"} :
                 /\ Amount(Posted(u, t)) \in Int
                 /\ Amount(Posted(u, t))' = Amount(Posted(u, t))
                       + (IF u = User(i) /\ t = type THEN request[i].amount + f ELSE 0)
  <1>0. ledger \subseteq LedgerEntries
    BY DEF TypeOK, LedgerEntries
  <1>1. IsFiniteSet(ledger')
    BY <1>0, PostingGrows
  <1>2. ASSUME NEW u \in Users, NEW t \in {"payout", "reversal"}
        PROVE  /\ Amount(Posted(u, t)) \in Int
               /\ Amount(Posted(u, t))' = Amount(Posted(u, t))
                     + (IF u = User(i) /\ t = type THEN request[i].amount + f ELSE 0)
    <2>1. /\ Posted(u, t) \subseteq ledger /\ Posted(u, t) \subseteq LedgerEntries
          /\ IsFiniteSet(Posted(u, t))
      <3>1. Posted(u, t) \subseteq ledger
        BY DEF Posted
      <3>2. QED
        BY <1>0, <3>1, FS_Subset
    <2>2. \A e \in Entries(i, type, f) : e \notin Posted(u, t)
      BY <2>1
    <2>3. /\ Amount(Posted(u, t)) \in Int
          /\ Amount(Posted(u, t) \cup Entries(i, type, f)) = Amount(Posted(u, t)) + request[i].amount + f
      BY <2>1, <2>2, PostingGrows
    <2>4. Amount(Posted(u, t))' = Amount(Posted(u, t)')
      BY DEF Amount
    <2>5. CASE u = User(i) /\ t = type
      <3>1. Posted(u, t)' = Posted(u, t) \cup Entries(i, type, f)
        BY <2>5, EntryIs DEF Posted
      <3>2. request[i].amount \in Nat /\ f \in Nat
        BY RequestType, AmountsArePositive
      <3>3. QED
        BY <2>3, <2>4, <2>5, <3>1, <3>2
    <2>6. CASE ~ (u = User(i) /\ t = type)
      <3>1. Posted(u, t)' = Posted(u, t)
        BY <2>6, EntryIs DEF Posted
      <3>2. QED
        BY <2>3, <2>4, <2>6, <3>1
    <2>7. QED
      BY <2>5, <2>6
  <1>3. QED
    BY <1>1, <1>2

BooksInv == FiniteInv /\ BooksAgree

LEMMA BooksInit == Init => BooksInv
  <1> SUFFICES ASSUME Init PROVE BooksInv
    OBVIOUS
  <1>1. ledger = {} /\ Rows = {}
    BY DEF Init, Rows, Exists
  <1>2. FiniteInv
    BY <1>1, FS_EmptySet DEF FiniteInv
  <1>3. EntriesAgree
    <2>1. \A e : ~ Paid(e) /\ ~ Returned(e)
      BY DEF Paid, Returned, Init, Exists
    <2>2. HistoryAgrees
      BY DEF HistoryAgrees, Init, Exists
    <2>3. QED
      BY <1>1, <2>1, <2>2, EntryByEntry
  <1>4. BalanceMatchesLedger
    <2>1. Amount({}) = 0
      BY SumEmpty DEF Amount
    <2>2. \A u, t : Posted(u, t) = {}
      BY <1>1 DEF Posted
    <2>3. \A u \in Users : balance[u] = OPENING /\ OPENING \in Nat
      BY AmountsArePositive DEF Init
    <2>4. QED
      BY <2>1, <2>2, <2>3 DEF BalanceMatchesLedger
  <1>5. QED
    BY <1>2, <1>3, <1>4 DEF BooksInv, BooksAgree

LEMMA BooksCommit ==
    ASSUME IInv, BooksInv, NEW i \in Instructions, CommitDebit(i)
    PROVE  BooksInv'
  <1> DEFINE f == snap[i].fee
  <1>0. TypeOK /\ EntriesAgree /\ BalanceMatchesLedger /\ FiniteInv /\ OPENING \in Nat
    BY AmountsArePositive DEF IInv, BooksInv, BooksAgree
  <1>1. /\ EntriesAgree' /\ Rows' = Rows \cup {i}
        /\ \A e \in Entries(i, "payout", f) : e \notin ledger
    BY <1>0, EntriesCommit
  <1>2. f \in {0, FEE} /\ f \in Nat /\ request[i].amount \in Nat /\ User(i) \in Users
    BY <1>0, RequestType
  <1>3. ledger' = ledger \cup Entries(i, "payout", f)
    BY DEF CommitDebit
  <1>4. /\ IsFiniteSet(ledger')
        /\ \A u \in Users, t \in {"payout", "reversal"} :
              /\ Amount(Posted(u, t)) \in Int
              /\ Amount(Posted(u, t))' = Amount(Posted(u, t))
                    + (IF u = User(i) /\ t = "payout" THEN request[i].amount + f ELSE 0)
    BY <1>0, <1>1, <1>2, <1>3, PostedMoves DEF FiniteInv
  <1>5. pc[i] = "debiting" /\ snap[i].balance = balance[User(i)]
        /\ snap[i].balance >= request[i].amount + snap[i].fee
    BY DEF CommitDebit, Goto, Serializable, Covers, IInv, SnapshotInv
  <1>6. balance' = [balance EXCEPT ![User(i)] = balance[User(i)] - (request[i].amount + f)]
    BY <1>5 DEF CommitDebit
  <1> HIDE DEF f
  <1>7. BalanceMatchesLedger'
    <2> SUFFICES ASSUME NEW u \in Users
                 PROVE  /\ balance'[u] = OPENING + Amount(Posted(u, "reversal"))'
                                           - Amount(Posted(u, "payout"))'
                        /\ balance'[u] >= 0
      BY DEF BalanceMatchesLedger
    <2>1. /\ balance[u] \in Nat
          /\ balance'[u] = balance[u] - (IF u = User(i) THEN request[i].amount + f ELSE 0)
      BY <1>0, <1>2, <1>6 DEF TypeOK
    <2>2. balance[u] = OPENING + Amount(Posted(u, "reversal")) - Amount(Posted(u, "payout"))
      BY <1>0 DEF BalanceMatchesLedger
    <2>3. /\ Amount(Posted(u, "reversal"))' = Amount(Posted(u, "reversal"))
          /\ Amount(Posted(u, "payout"))' = Amount(Posted(u, "payout"))
                + (IF u = User(i) THEN request[i].amount + f ELSE 0)
          /\ Amount(Posted(u, "reversal")) \in Int /\ Amount(Posted(u, "payout")) \in Int
      BY <1>4
    <2>4. u = User(i) => balance[u] >= request[i].amount + f
      BY <1>5 DEF f
    <2>5. QED
      BY <1>0, <1>2, <2>1, <2>2, <2>3, <2>4
  <1>8. FiniteInv'
    BY <1>0, <1>1, <1>4, FS_AddElement DEF FiniteInv
  <1>9. QED
    BY <1>1, <1>7, <1>8 DEF BooksInv, BooksAgree

LEMMA BooksReturn ==
    ASSUME IInv, BooksInv, NEW i \in Instructions, GiveBack(i)
    PROVE  BooksInv'
  <1>0. TypeOK /\ EntriesAgree /\ BalanceMatchesLedger /\ FiniteInv /\ OPENING \in Nat
    BY AmountsArePositive DEF IInv, BooksInv, BooksAgree
  <1>1. /\ EntriesAgree' /\ Rows' = Rows
        /\ \A e \in Entries(i, "reversal", fee[i]) : e \notin ledger
    BY <1>0, EntriesReturn
  <1>2. fee[i] \in {0, FEE} /\ fee[i] \in Nat /\ request[i].amount \in Nat /\ User(i) \in Users
    BY <1>0, RequestType
  <1>3. ledger' = ledger \cup Entries(i, "reversal", fee[i])
    BY DEF GiveBack
  <1>4. /\ IsFiniteSet(ledger')
        /\ \A u \in Users, t \in {"payout", "reversal"} :
              /\ Amount(Posted(u, t)) \in Int
              /\ Amount(Posted(u, t))' = Amount(Posted(u, t))
                    + (IF u = User(i) /\ t = "reversal" THEN request[i].amount + fee[i] ELSE 0)
    BY <1>0, <1>1, <1>2, <1>3, PostedMoves DEF FiniteInv
  <1>5. balance' = [balance EXCEPT ![User(i)] = balance[User(i)] + (request[i].amount + fee[i])]
    BY DEF GiveBack, Total
  <1>6. BalanceMatchesLedger'
    <2> SUFFICES ASSUME NEW u \in Users
                 PROVE  /\ balance'[u] = OPENING + Amount(Posted(u, "reversal"))'
                                           - Amount(Posted(u, "payout"))'
                        /\ balance'[u] >= 0
      BY DEF BalanceMatchesLedger
    <2>1. /\ balance[u] \in Nat
          /\ balance'[u] = balance[u] + (IF u = User(i) THEN request[i].amount + fee[i] ELSE 0)
      BY <1>0, <1>2, <1>5 DEF TypeOK
    <2>2. balance[u] = OPENING + Amount(Posted(u, "reversal")) - Amount(Posted(u, "payout"))
      BY <1>0 DEF BalanceMatchesLedger
    <2>3. /\ Amount(Posted(u, "payout"))' = Amount(Posted(u, "payout"))
          /\ Amount(Posted(u, "reversal"))' = Amount(Posted(u, "reversal"))
                + (IF u = User(i) THEN request[i].amount + fee[i] ELSE 0)
          /\ Amount(Posted(u, "reversal")) \in Int /\ Amount(Posted(u, "payout")) \in Int
      BY <1>4
    <2>4. QED
      BY <1>0, <1>2, <2>1, <2>2, <2>3
  <1>7. FiniteInv'
    BY <1>0, <1>1, <1>4 DEF FiniteInv
  <1>8. QED
    BY <1>1, <1>6, <1>7 DEF BooksInv, BooksAgree

LEMMA BooksNext ==
    ASSUME IInv, BooksInv, [Next]_vars
    PROVE  BooksInv'
  <1>1. ASSUME Quiet PROVE BooksInv'
    <2>1. EntriesAgree' /\ Rows' = Rows
      BY <1>1, EntriesQuiet DEF BooksInv, BooksAgree
    <2>2. ledger' = ledger /\ balance' = balance
      BY <1>1 DEF Quiet
    <2>3. BalanceMatchesLedger'
      BY <2>2 DEF BooksInv, BooksAgree, BalanceMatchesLedger, Amount, Posted
    <2>4. QED
      BY <2>1, <2>2, <2>3 DEF BooksInv, BooksAgree, FiniteInv
  <1>2. QED
    BY <1>1, BooksCommit, BooksReturn, StepKinds

LEMMA BooksAlways == Spec => []BooksInv
  BY BooksInit, BooksNext, IInvAlways, PTL DEF Spec

(* The ledger holds a transfer's cost exactly once when it exists and its  *)
(* reversal, fee included, exactly once when it failed; the history row    *)
(* says the same, and every cached balance is what the ledger adds up to,  *)
(* with any number of calls, passes and crashes.                           *)
THEOREM BooksCorrect == Spec => []BooksAgree
  <1>1. BooksInv => BooksAgree
    BY DEF BooksInv
  <1>2. QED
    BY <1>1, BooksAlways, PTL

-----------------------------------------------------------------------------
(* The fee.                                                                *)

Counted(u) == {j \in Instructions : User(j) = u /\ status[j] \in COUNTS_AGAINST_FREE_ALLOWANCE}
Price(u)   == IF UsedToday(u) >= FREE_PER_DAY THEN FEE ELSE 0

(* What an open transaction has read of the day's transfers is still so,   *)
(* unless its wallet has been written since and it is going to abort.      *)
PriceInv ==
    \A i \in Instructions :
        pc[i] = "debiting" /\ i \notin overtaken => snap[i].fee = Price(User(i))

LEMMA StillDebiting ==
    ASSUME IInv, [Next]_vars, NEW j \in Instructions,
           pc[j] = "debiting", pc'[j] = "debiting", j \notin overtaken'
    PROVE  j \notin overtaken /\ snap'[j] = snap[j]
  <1>0. TypeOK
    BY DEF IInv
  <1>1. CASE UNCHANGED <<snap, overtaken>>
    BY <1>1
  <1>2. ASSUME NEW i \in Instructions, CallStep(i) PROVE j \notin overtaken /\ snap'[j] = snap[j]
    <2>1. i # j
      BY <1>0, <1>2 DEF TypeOK, CallStep, Lookup, Refuse, CheckDailyLimit, BeginDebit, CommitDebit,
         AbortDebit, CallProvider, ProviderAnswers, SettleAccepted, SettleRejected, SettleAmbiguous,
         FinishSuccess, CrashCall, Goto
    <2>2. snap'[j] = snap[j]
      BY <1>0, <1>2, <2>1, CallFrame
    <2>3. overtaken \ {i} \subseteq overtaken'
      BY <1>2 DEF CallStep, Lookup, Refuse, CheckDailyLimit, BeginDebit, CommitDebit,
         AbortDebit, CallProvider, ProviderAnswers, SettleAccepted, SettleRejected, SettleAmbiguous,
         FinishSuccess, CrashCall, MarkSuccess, FlagForReview, Reverse, Overtake
    <2>4. QED
      BY <2>1, <2>2, <2>3
  <1>3. ASSUME NEW p \in Passes, PassStep(p) PROVE j \notin overtaken /\ snap'[j] = snap[j]
    <2>1. snap' = snap
      BY <1>0, <1>3, PassFrame
    <2>2. CASE ResolveFailed(p)
      <3>1. Exists(target[p]) /\ target[p] # j
        BY <2>2 DEF ResolveFailed, NextRow, IInv, AnswerInv, CallInv, Before
      <3>2. overtaken \ {target[p]} \subseteq overtaken'
        BY <2>2 DEF ResolveFailed, Reverse, Overtake
      <3>3. QED
        BY <2>1, <3>1, <3>2
    <2>3. CASE ~ ResolveFailed(p)
      <3>1. overtaken' = overtaken
        BY <1>3, <2>3 DEF PassStep, Resolve, ListStuck, AskStatus, ResolveSuccess, ResolveUnknown,
           FinishRow, EndPass, CrashPass, MarkSuccess, FlagForReview, calls, books
      <3>2. QED
        BY <2>1, <3>1
    <2>4. QED
      BY <2>2, <2>3
  <1>4. QED
    BY <1>1, <1>2, <1>3 DEF Next, BankStep, vars, calls

LEMMA StartsDebiting ==
    ASSUME IInv, [Next]_vars, NEW j \in Instructions, pc[j] # "debiting", pc'[j] = "debiting"
    PROVE  BeginDebit(j)
  <1>0. TypeOK
    BY DEF IInv
  <1>1. PICK i \in Instructions : CallStep(i)
    BY <1>0, PassFrame DEF Next, BankStep, vars, calls
  <1>2. i = j
    BY <1>0, <1>1, CallFrame
  <1>3. QED
    BY <1>0, <1>1, <1>2 DEF TypeOK, CallStep, Lookup, Refuse, CheckDailyLimit, CommitDebit, AbortDebit,
       CallProvider, ProviderAnswers, SettleAccepted, SettleRejected, SettleAmbiguous,
       FinishSuccess, CrashCall, Goto

(* Only who writes the wallet changes the count of the day's transfers.    *)
LEMMA CountedLasts ==
    ASSUME IInv, [Next]_vars, NEW u,
           \A i \in Instructions : CommitDebit(i) \/ GiveBack(i) => User(i) # u
    PROVE  Price(u)' = Price(u)
  <1>0. TypeOK /\ request' = request
    BY RequestLasts DEF IInv
  <1>1. \A j \in Instructions : User(j)' = User(j)
    BY <1>0 DEF User
  <1>2. \A j \in Instructions : User(j) = u =>
            (status'[j] \in COUNTS_AGAINST_FREE_ALLOWANCE <=> status[j] \in COUNTS_AGAINST_FREE_ALLOWANCE)
    <2>1. CASE Quiet
      BY <2>1 DEF Quiet, Open, COUNTS_AGAINST_FREE_ALLOWANCE
    <2>2. ASSUME NEW i \in Instructions, CommitDebit(i) \/ GiveBack(i),
                 NEW j \in Instructions, User(j) = u
          PROVE  status'[j] = status[j]
      BY <1>0, <2>2 DEF CommitDebit, GiveBack, TypeOK
    <2>3. QED
      BY <2>1, <2>2, StepKinds
  <1>3. Counted(u)' = Counted(u)
    BY <1>1, <1>2 DEF Counted
  <1>4. UsedToday(u)' = UsedToday(u)
    BY <1>3 DEF UsedToday, Counted
  <1>5. QED
    BY <1>4 DEF Price

LEMMA PriceNext ==
    ASSUME IInv, PriceInv, [Next]_vars
    PROVE  PriceInv'
  <1> SUFFICES ASSUME NEW j \in Instructions, pc'[j] = "debiting", j \notin overtaken'
               PROVE  snap'[j].fee = Price(User(j))'
    BY DEF PriceInv
  <1>0. TypeOK /\ User(j)' = User(j)
    BY RequestLasts DEF IInv, User
  <1>1. PICK u \in Users : u = User(j)
    BY <1>0, RequestType
  <1>4. Price(User(j))' = Price(u)'
    BY <1>0, <1>1 DEF Price, UsedToday
  <1>2. CASE pc[j] # "debiting"
    <2>1. BeginDebit(j)
      BY <1>2, StartsDebiting
    <2>2. snap'[j].fee = Price(User(j))
      BY <1>0, <2>1 DEF BeginDebit, Price, TypeOK
    <2>3. Price(User(j))' = Price(User(j))
      BY <1>0, <2>1 DEF BeginDebit, Price, UsedToday, books, User
    <2>4. QED
      BY <2>2, <2>3
  <1>3. CASE pc[j] = "debiting"
    <2>1. j \notin overtaken /\ snap'[j] = snap[j]
      BY <1>3, StillDebiting
    <2>2. ASSUME NEW i \in Instructions, CommitDebit(i) \/ GiveBack(i) PROVE User(i) # User(j)
      <3>1. i # j
        BY <1>0, <1>3, <2>2 DEF CommitDebit, Goto, TypeOK, GiveBack, IInv, CallInv, Before, Exists, Open
      <3>2. overtaken' = Overtake(User(i), i)
        BY <2>2 DEF CommitDebit, GiveBack
      <3>3. QED
        BY <1>3, <3>1, <3>2 DEF Overtake
    <2>3. Price(u)' = Price(u)
      BY <1>1, <2>2, CountedLasts
    <2>4. QED
      BY <1>1, <1>3, <1>4, <2>1, <2>3 DEF PriceInv
  <1>5. QED
    BY <1>2, <1>3

LEMMA FeeStep ==
    ASSUME IInv, PriceInv, FiniteInv, [Next]_vars, NEW i \in Instructions, ~ Exists(i), Exists(i)'
    PROVE  fee'[i] = IF FreeRemaining(User(i)) = 0 THEN FEE ELSE 0
  <1>0. TypeOK
    BY DEF IInv
  <1>1. CommitDebit(i)
    BY CreatedByCommit DEF IInv
  <1>2. fee'[i] = Price(User(i))
    BY <1>0, <1>1 DEF CommitDebit, Goto, Serializable, PriceInv, TypeOK
  <1>3. UsedToday(User(i)) \in Nat
    <2>1. Counted(User(i)) \subseteq Rows
      BY DEF Counted, Rows, Exists, COUNTS_AGAINST_FREE_ALLOWANCE
    <2>2. Cardinality(Counted(User(i))) \in Nat
      BY <2>1, FS_Subset, FS_CardinalityType DEF FiniteInv
    <2>3. QED
      BY <2>2 DEF UsedToday, Counted
  <1>4. FreeRemaining(User(i)) = 0 <=> UsedToday(User(i)) >= FREE_PER_DAY
    BY <1>3, AmountsArePositive DEF FreeRemaining
  <1>5. QED
    BY <1>2, <1>4 DEF Price

(* A transfer is charged the fee exactly when the day's free transfers are *)
(* used up at the moment it is created, whatever other requests, reversals *)
(* and passes run in between (bankTransfer.service.js).                    *)
THEOREM FeeCorrect == Spec => FeeReflectsAllowance
  <1>1. Init => PriceInv
    BY DEF Init, PriceInv
  <1>2. IInv /\ PriceInv /\ [Next]_vars => PriceInv'
    BY PriceNext
  <1>3. IInv /\ PriceInv /\ BooksInv /\ [Next]_vars =>
          [\A i \in Instructions :
              ~ Exists(i) /\ Exists(i)' =>
                  fee'[i] = IF FreeRemaining(User(i)) = 0 THEN FEE ELSE 0]_vars
    BY FeeStep DEF BooksInv
  <1>4. QED
    BY <1>1, <1>2, <1>3, IInvAlways, BooksAlways, PTL DEF Spec, FeeReflectsAllowance

-----------------------------------------------------------------------------
(* The refinement: a bank transfer keeps the promise of Outbound, for any  *)
(* number of users, keys, calls and overlapping recovery passes: every     *)
(* step is a step of the promise, or changes nothing the promise speaks of.*)

(* The promise's view of this module's state.                              *)
Owners == [i \in Instructions |-> User(i)]
Charged == [i \in Instructions |-> IF Exists(i) THEN Total(i) ELSE 0]
Stage  == [i \in Instructions |-> StageOf(status[i])]
Bank   == [i \in Instructions |-> BankOf(rail[i])]

LEMMA StageOfStatus ==
    /\ StageOf("absent") = "absent"
    /\ StageOf("pending") = "held"
    /\ StageOf("requires_review") = "held"
    /\ StageOf("success") = "sent"
    /\ StageOf("failed") = "returned"
  <1>1. StageOf("absent") = "absent"
    BY DEF StageOf, Open
  <1>2. StageOf("pending") = "held" /\ StageOf("requires_review") = "held"
    BY DEF StageOf, Open
  <1>3. StageOf("success") = "sent" /\ StageOf("failed") = "returned"
    BY DEF StageOf, Open
  <1>4. QED
    BY <1>1, <1>2, <1>3

LEMMA RefInit == Init => Promise!Init
  <1>. SUFFICES ASSUME Init PROVE Promise!Init
    OBVIOUS
  <1>1. TypeOK
    BY TypeInit
  <1>2. \A i \in Instructions :
            /\ User(i) \in Users
            /\ ~ Exists(i) /\ StageOf(status[i]) = "absent" /\ BankOf(rail[i]) = "untold"
    BY <1>1, RequestType, StageOfStatus DEF Init, RailInit, Exists, BankOf
  <1>3. balance \in [Users -> {OPENING}]
    BY DEF Init
  <1>4. QED
    BY <1>2, <1>3 DEF Promise!Init

(* Steps that leave every row's existence, cost, stage and bank as it is.  *)
LEMMA Unseen ==
    ASSUME balance' = balance, request' = request, fee' = fee,
           \A i \in Instructions : /\ StageOf(status'[i]) = StageOf(status[i])
                                   /\ Exists(i)' <=> Exists(i)
                                   /\ BankOf(rail'[i]) = BankOf(rail[i])
    PROVE  UNCHANGED Promise!vars
  <1>1. \A i \in Instructions : User(i)' = User(i) /\ Total(i)' = Total(i)
    BY DEF User, Total
  <1>2. Owners' = Owners /\ Charged' = Charged
    BY <1>1 DEF Owners, Charged
  <1>3. Stage' = Stage /\ Bank' = Bank
    BY DEF Stage, Bank
  <1>4. QED
    BY <1>2, <1>3 DEF Promise!vars, Owners, Charged, Stage, Bank

LEMMA CommitIsHold ==
    ASSUME IInv, NEW i \in Instructions, CommitDebit(i)
    PROVE  Promise!Hold(i)
  <1>. DEFINE c == request[i].amount + snap[i].fee
  <1>1. User(i) \in Users /\ c \in Nat /\ request[i].amount \in Amounts /\ snap[i].fee \in {0, FEE}
    BY RequestType DEF IInv, TypeOK, Requests
  <1>2. ~ Exists(i) /\ status[i] = "absent" /\ pc[i] = "debiting"
    BY DEF CommitDebit, Goto, IInv, CallInv, Before, Exists
  <1>3. snap[i].balance = balance[User(i)]
    BY <1>2 DEF CommitDebit, Serializable, IInv, SnapshotInv
  <1>4. c <= balance[User(i)]
    BY <1>3 DEF CommitDebit, Covers
  <1>5. balance' = [balance EXCEPT ![User(i)] = balance[User(i)] - c]
    BY <1>3 DEF CommitDebit
  <1>6. c \in Amounts \cup {a + FEE : a \in Amounts}
    <2>1. CASE snap[i].fee = 0
      <3>1. request[i].amount \in Nat
        BY <1>1, AmountsArePositive
      <3>2. c = request[i].amount
        BY <2>1, <3>1
      <3>3. QED
        BY <1>1, <3>2
    <2>2. CASE snap[i].fee = FEE
      BY <1>1, <2>2
    <2>3. QED
      BY <1>1, <2>1, <2>2
  <1>7. \A j \in Instructions : User(j)' = User(j)
    BY DEF CommitDebit, User
  <1>8. status' = [status EXCEPT ![i] = "pending"] /\ fee' = [fee EXCEPT ![i] = snap[i].fee]
        /\ request' = request /\ rail' = rail
    BY DEF CommitDebit
  <1>9. \A j \in Instructions : Charged'[j] = IF j = i THEN c ELSE Charged[j]
    BY <1>8 DEF Charged, Exists, Total, IInv, TypeOK
  <1>10. Charged' = [Charged EXCEPT ![i] = c]
    BY <1>9 DEF Charged
  <1>11. \A j \in Instructions : Stage'[j] = IF j = i THEN "held" ELSE Stage[j]
    BY <1>8, StageOfStatus DEF Stage, IInv, TypeOK
  <1>12. Stage' = [Stage EXCEPT ![i] = "held"]
    BY <1>11 DEF Stage
  <1>13. Owners' = Owners /\ Bank' = Bank /\ Stage[i] = "absent" /\ Owners[i] = User(i)
    BY <1>2, <1>7, <1>8, StageOfStatus DEF Owners, Bank, Stage
  <1>14. \E d \in Amounts \cup {a + FEE : a \in Amounts} :
            /\ d <= balance[Owners[i]]
            /\ balance' = [balance EXCEPT ![Owners[i]] = balance[Owners[i]] - d]
            /\ Charged' = [Charged EXCEPT ![i] = d]
    BY <1>4, <1>5, <1>6, <1>10, <1>13
  <1>15. QED
    BY <1>12, <1>13, <1>14
    DEF Promise!Hold, Owners, Charged, Stage, Bank

LEMMA SuccessIsBooked ==
    ASSUME IInv, NEW i \in Instructions, status[i] \in Open, rail[i] \in Taken,
           MarkSuccess(i), request' = request, rail' = rail
    PROVE  Promise!BookSent(i)
  <1>1. status' = [status EXCEPT ![i] = "success"] /\ balance' = balance /\ fee' = fee
    BY DEF MarkSuccess
  <1>2. Owners' = Owners /\ Bank' = Bank
    BY DEF Owners, Bank, User
  <1>3. Charged' = Charged
    BY <1>1 DEF Charged, Exists, Total, Open, IInv, TypeOK
  <1>4. \A j \in Instructions : Stage'[j] = IF j = i THEN "sent" ELSE Stage[j]
    BY <1>1, StageOfStatus DEF Stage, IInv, TypeOK
  <1>5. Stage' = [Stage EXCEPT ![i] = "sent"]
    BY <1>4 DEF Stage
  <1>6. Stage[i] = "held"
    BY DEF Stage, StageOf, Open
  <1>7. Bank[i] \in {"accepted", "paid", "bounced"}
    BY DEF Bank, BankOf, Taken
  <1>8. QED
    BY <1>1, <1>2, <1>3, <1>5, <1>6, <1>7
    DEF Promise!BookSent, Promise!BankAccepted, Owners, Charged, Stage, Bank

LEMMA ReversalIsReturn ==
    ASSUME IInv, NEW i \in Instructions, rail[i] \in WillNotPay,
           Reverse(i), request' = request, rail' = rail
    PROVE  Promise!Return(i) \/ UNCHANGED Promise!vars
  <1>1. CASE status[i] \in Open /\ CanPost(ReversalEntries(i))
    <2>1. /\ status' = [status EXCEPT ![i] = "failed"]
          /\ balance' = [balance EXCEPT ![User(i)] = balance[User(i)] + Total(i)]
          /\ fee' = fee
      BY <1>1 DEF Reverse, ReversalPays
    <2>2. Owners' = Owners /\ Bank' = Bank /\ Owners[i] = User(i)
      BY DEF Owners, Bank, User
    <2>3. Charged' = Charged /\ Charged[i] = Total(i)
      BY <1>1, <2>1 DEF Charged, Exists, Total, Open, IInv, TypeOK
    <2>4. \A j \in Instructions : Stage'[j] = IF j = i THEN "returned" ELSE Stage[j]
      BY <2>1, StageOfStatus DEF Stage, IInv, TypeOK
    <2>5. Stage' = [Stage EXCEPT ![i] = "returned"]
      BY <2>4 DEF Stage
    <2>6. Stage[i] = "held" /\ Bank[i] \in {"bounced", "refused"}
      BY <1>1 DEF Stage, StageOf, Open, Bank, BankOf, WillNotPay
    <2>7. QED
      BY <2>1, <2>2, <2>3, <2>5, <2>6
      DEF Promise!Return, Promise!BankDeclined, Owners, Charged, Stage, Bank
  <1>2. CASE ~ (status[i] \in Open /\ CanPost(ReversalEntries(i)))
    BY <1>2, Unseen DEF Reverse, Exists
  <1>3. QED
    BY <1>1, <1>2

LEMMA SuccessOrUnseen ==
    ASSUME IInv, NEW i \in Instructions, rail[i] \in Taken,
           MarkSuccess(i), request' = request, rail' = rail
    PROVE  Promise!BookSent(i) \/ UNCHANGED Promise!vars
  <1>1. CASE status[i] \in Open
    BY <1>1, SuccessIsBooked
  <1>2. CASE status[i] \notin Open
    BY <1>2, Unseen DEF MarkSuccess, Exists
  <1>3. QED
    BY <1>1, <1>2

LEMMA FlagIsUnseen ==
    ASSUME IInv, NEW i \in Instructions, FlagForReview(i), request' = request, rail' = rail
    PROVE  UNCHANGED Promise!vars
  <1>1. \A j \in Instructions : /\ StageOf(status'[j]) = StageOf(status[j])
                                /\ Exists(j)' <=> Exists(j)
    BY DEF FlagForReview, StageOf, Open, Exists, IInv, TypeOK
  <1>2. QED
    BY <1>1, Unseen DEF FlagForReview

LEMMA BankIsBank ==
    ASSUME IInv, NEW i \in Instructions, BankStep(i)
    PROVE  Promise!BankMoves(i)
  <1>1. balance' = balance /\ Owners' = Owners /\ Charged' = Charged /\ Stage' = Stage
    BY DEF BankStep, calls, books, Owners, Charged, Stage, User, Total, Exists
  <1>2. Exists(i) /\ Stage[i] # "absent"
    <2>1. Exists(i)
      BY DEF BankStep, RailStep, RailTakes, RailRefuses, RailPays, RailBounces, MoveRail,
             IInv, CallInv
    <2>2. status[i] \in {"pending", "requires_review", "success", "failed"}
      BY <2>1 DEF Exists, IInv, TypeOK, Statuses
    <2>3. QED
      BY <2>1, <2>2 DEF Stage, StageOf, Open
  <1>3. PICK from \in RailStates, to \in RailStates :
            /\ MoveRail(i, from, to)
            /\ <<from, to>> \in {<<"sent", "queued">>, <<"sent", "refused">>,
                                 <<"queued", "paid">>, <<"queued", "bounced">>}
    BY DEF BankStep, RailStep, RailTakes, RailRefuses, RailPays, RailBounces, RailStates
  <1>4. \A j \in Instructions : Bank'[j] = IF j = i THEN BankOf(to) ELSE Bank[j]
    BY <1>3 DEF MoveRail, Bank, IInv, TypeOK
  <1>5. Bank' = [Bank EXCEPT ![i] = BankOf(to)] /\ Bank[i] = BankOf(from)
    BY <1>3, <1>4 DEF Bank, MoveRail
  <1>6. \/ BankOf(from) = "untold" /\ BankOf(to) = "accepted"
        \/ BankOf(from) = "untold" /\ BankOf(to) = "refused"
        \/ BankOf(from) = "accepted" /\ BankOf(to) = "paid"
        \/ BankOf(from) = "accepted" /\ BankOf(to) = "bounced"
    BY <1>3 DEF BankOf
  <1>7. QED
    BY <1>1, <1>2, <1>5, <1>6 DEF Promise!BankMoves, Owners, Charged, Stage, Bank

LEMMA CallIsPromised ==
    ASSUME IInv, NEW i \in Instructions, CallStep(i)
    PROVE  Promise!Next \/ UNCHANGED Promise!vars
  <1>1. CASE CommitDebit(i)
    BY <1>1, CommitIsHold DEF Promise!Next
  <1>2. CASE SettleAccepted(i)
    <2>1. rail[i] \in Taken
      BY <1>2 DEF SettleAccepted, Goto, IInv, AnswerInv
    <2>2. QED
      BY <1>2, <2>1, SuccessOrUnseen DEF SettleAccepted, Promise!Next
  <1>3. CASE SettleRejected(i)
    <2>1. rail[i] \in WillNotPay
      BY <1>3 DEF SettleRejected, Goto, IInv, AnswerInv
    <2>2. QED
      BY <1>3, <2>1, ReversalIsReturn DEF SettleRejected, Promise!Next
  <1>4. CASE SettleAmbiguous(i)
    BY <1>4, FlagIsUnseen DEF SettleAmbiguous
  <1>5. CASE CallProvider(i)
    <2>1. \A j \in Instructions : BankOf(rail'[j]) = BankOf(rail[j])
      BY <1>5 DEF CallProvider, Instruct, MoveRail, BankOf, IInv, TypeOK
    <2>2. QED
      BY <1>5, <2>1, Unseen DEF CallProvider, books, Exists
  <1>6. CASE FinishSuccess(i)
    BY <1>6, Unseen DEF FinishSuccess, AnnotateHistory, Exists
  <1>7. CASE Lookup(i) \/ Refuse(i) \/ CheckDailyLimit(i) \/ BeginDebit(i) \/ AbortDebit(i)
             \/ ProviderAnswers(i) \/ CrashCall(i)
    BY <1>7, Unseen DEF Lookup, Refuse, CheckDailyLimit, BeginDebit, AbortDebit, ProviderAnswers,
                        CrashCall, books, Exists
  <1>8. QED
    BY <1>1, <1>2, <1>3, <1>4, <1>5, <1>6, <1>7 DEF CallStep

LEMMA PassIsPromised ==
    ASSUME IInv, NEW p \in Passes, PassStep(p)
    PROVE  Promise!Next \/ UNCHANGED Promise!vars
  <1>1. jobPc[p] = "resolving" =>
            /\ target[p] \in Instructions
            /\ told[p] = "success" => rail[target[p]] \in Taken
            /\ told[p] = "failed" => rail[target[p]] \in WillNotPay
    BY DEF IInv, AnswerInv
  <1>2. request' = request /\ rail' = rail
    BY PassFrame DEF IInv
  <1>3. CASE ResolveSuccess(p)
    BY <1>1, <1>2, <1>3, SuccessOrUnseen DEF ResolveSuccess, NextRow, Promise!Next
  <1>4. CASE ResolveFailed(p)
    BY <1>1, <1>2, <1>4, ReversalIsReturn DEF ResolveFailed, NextRow, Promise!Next
  <1>5. CASE ResolveUnknown(p)
    <2>1. CASE seen[p][target[p]] = "pending"
      BY <1>1, <1>2, <1>5, <2>1, FlagIsUnseen DEF ResolveUnknown, NextRow
    <2>2. CASE seen[p][target[p]] # "pending"
      BY <1>2, <1>5, <2>2, Unseen DEF ResolveUnknown, books, Exists
    <2>3. QED
      BY <2>1, <2>2
  <1>6. CASE FinishRow(p)
    BY <1>2, <1>6, Unseen DEF FinishRow, AnnotateHistory, Exists
  <1>7. CASE ListStuck(p) \/ (\E i \in Instructions : AskStatus(p, i)) \/ EndPass(p) \/ CrashPass(p)
    BY <1>2, <1>7, Unseen DEF ListStuck, AskStatus, EndPass, CrashPass, books, Exists
  <1>8. QED
    BY <1>3, <1>4, <1>5, <1>6, <1>7 DEF PassStep, Resolve

LEMMA RefNext ==
    ASSUME IInv, [Next]_vars
    PROVE  [Promise!Next]_(Promise!vars)
  <1>1. CASE UNCHANGED vars
    BY <1>1, Unseen DEF vars, calls, books, Exists
  <1>2. ASSUME NEW i \in Instructions, BankStep(i)
        PROVE  Promise!Next
    BY <1>2, BankIsBank DEF Promise!Next
  <1>3. QED
    BY <1>1, <1>2, CallIsPromised, PassIsPromised DEF Next

(* The bank transfer service and its recovery keep the promise of Outbound: *)
(* debit before instructing, book only what the bank took, give back once,  *)
(* in full, and only what the bank will never pay.                          *)
THEOREM PromiseKept == Spec => KeepsPromise
  BY RefInit, RefNext, IInvAlways, PTL DEF Spec, KeepsPromise, Promise!Spec
-----------------------------------------------------------------------------
(* What the promise implies, carried over.                                 *)

Outgoing == INSTANCE OutboundProofs WITH
    Purses  <- Users,
    Costs   <- Amounts \cup {a + FEE : a \in Amounts},
    Opening <- {OPENING},
    purse   <- balance,
    owner   <- [i \in Instructions |-> User(i)],
    cost    <- [i \in Instructions |-> IF Exists(i) THEN Total(i) ELSE 0],
    stage   <- [i \in Instructions |-> StageOf(status[i])],
    bank    <- [i \in Instructions |-> BankOf(rail[i])]

(* A customer is never given back what the bank pays or has paid, what is  *)
(* booked as sent the bank has accepted, and it knows only transfers that  *)
(* were charged; and a wallet is short of its opening balance by exactly   *)
(* the amounts and fees of the transfers that are under way, under review  *)
(* or have succeeded, in every state.                                      *)
THEOREM PromiseCarries == Spec => [](Outgoing!NothingGivenAway /\ Outgoing!NothingIsLost)
  <1>1. Outgoing!MoneyIsNatural
    <2>1. \A a \in Amounts : a \in Nat /\ a + FEE \in Nat
      BY AmountsArePositive
    <2>2. OPENING \in Nat
      BY AmountsArePositive
    <2> QED BY <2>1, <2>2 DEF Outgoing!MoneyIsNatural
  <1>2. Outgoing!Spec => []Outgoing!NothingGivenAway /\ []Outgoing!NothingIsLost
    BY <1>1, Outgoing!PromiseIsSafe, Outgoing!PursesAreAccountedFor
  <1>3. KeepsPromise => Outgoing!Spec
    <2>1. Promise!Init <=> Outgoing!Init
      BY Zenon DEF Promise!Init, Outgoing!Init
    <2>2. [Promise!Next]_(Promise!vars) <=> [Outgoing!Next]_(Outgoing!vars)
      BY Zenon DEF Promise!Hold, Outgoing!Hold, Promise!BookSent, Outgoing!BookSent, Promise!Return,
             Outgoing!Return, Promise!BankMoves, Outgoing!BankMoves, Promise!BankAccepted,
             Outgoing!BankAccepted, Promise!BankDeclined, Outgoing!BankDeclined, Promise!vars,
             Outgoing!vars, Promise!Next, Outgoing!Next
    <2> QED BY <2>1, <2>2, PTL DEF KeepsPromise, Promise!Spec, Outgoing!Spec
  <1> QED BY <1>2, <1>3, PromiseKept, PTL
=============================================================================
