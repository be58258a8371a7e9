-------------------------- MODULE PoolOutflowProofs --------------------------
(***************************************************************************)
(* Theorems about PoolOutflow, for any number of pools, keys, instructions *)
(* of either kind and overlapping recovery loops.                          *)
(***************************************************************************)
EXTENDS PoolOutflow, Sums, TLAPS

(* Where a call may be while its row does not exist yet, and while it      *)
(* does; the bank knows nothing of an instruction without a row.           *)
Before == {"received", "routing", "opening", "debiting"}
After  == {"calling", "waiting", "settling"}

CallInv ==
    \A i \in Instructions :
        /\ pc[i] \in Before => ~ Exists(i)
        /\ pc[i] \in After => Exists(i)
        /\ ~ Exists(i) => rail[i] = "none"

(* What a call, or a loop, has been told by the bank is still true when it *)
(* acts on it: "taken" and "will not pay" are for ever.                    *)
AnswerInv ==
    /\ \A i \in Instructions :
        pc[i] = "settling" =>
            /\ answer[i] = "accepted" => rail[i] \in Taken
            /\ answer[i] = "rejected" => rail[i] \in WillNotPay
    /\ \A l \in Loops :
        /\ \A i \in Instructions : seen[l][i] # "skip" => Exists(i)
        /\ loopPc[l] = "resolving" =>
            /\ Exists(target[l])
            /\ told[l] = "success" => rail[target[l]] \in Taken
            /\ told[l] = "failed" => rail[target[l]] \in WillNotPay

IInv == TypeOK /\ CallInv /\ AnswerInv /\ OutcomeMatchesRail

-----------------------------------------------------------------------------
(* Types.                                                                  *)

Statuses      == PayoutStatuses \cup RefundStatuses
LedgerEntries == [ref : Instructions, pool : Pools, amount : Nat \ {0},
                  by : {"hold", "service_reversal", "recovery_reversal"}]
RightWord(i, s) == s \in (IF Kind(i) = "payout" THEN PayoutStatuses ELSE RefundStatuses)

LEMMA RequestType ==
    ASSUME TypeOK, NEW i \in Instructions
    PROVE  /\ Pool(i) \in Pools /\ Kind(i) \in {"payout", "refund"}
           /\ request[i].amount \in Nat \ {0}
           /\ poolBalance[Pool(i)] \in Nat /\ snap[i] \in Nat
           /\ status[i] \in Statuses /\ RightWord(i, status[i])
  <1>1. request[i] \in Requests
    BY DEF TypeOK
  <1>2. Pool(i) \in Pools /\ Kind(i) \in {"payout", "refund"} /\ request[i].amount \in Nat \ {0}
    BY <1>1, PoolAmountsArePositive DEF Requests, Pool, Kind
  <1>3. QED
    BY <1>2 DEF TypeOK, Statuses, RightWord

LEMMA EntryType ==
    ASSUME TypeOK, NEW i \in Instructions,
           NEW by \in {"hold", "service_reversal", "recovery_reversal"}
    PROVE  Entry(i, by) \in LedgerEntries
  BY RequestType DEF Entry, LedgerEntries

LEMMA MoveRowEffect ==
    ASSUME TypeOK, NEW i \in Instructions, NEW guard, NEW to \in Statuses, RightWord(i, to),
           MoveRow(i, guard, to)
    PROVE  /\ status' \in [Instructions -> Statuses]
           /\ \A j \in Instructions : RightWord(j, status'[j])
           /\ \A j \in Instructions \ {i} : status'[j] = status[j]
           /\ status'[i] = status[i] \/ (status[i] \in guard /\ status'[i] = to)
           /\ UNCHANGED <<poolBalance, poolLedger, overtaken>>
  <1>1. status \in [Instructions -> Statuses] /\ \A j \in Instructions : RightWord(j, status[j])
    BY RequestType DEF TypeOK, Statuses
  <1>2. QED
    BY <1>1 DEF MoveRow

LEMMA GiveBackEffect ==
    ASSUME TypeOK, NEW i \in Instructions, NEW guard,
           NEW by \in {"service_reversal", "recovery_reversal"}, GiveBack(i, guard, by)
    PROVE  /\ status' \in [Instructions -> Statuses]
           /\ \A j \in Instructions : RightWord(j, status'[j])
           /\ \A j \in Instructions \ {i} : status'[j] = status[j]
           /\ status'[i] = status[i] \/ (status[i] \in guard /\ status'[i] = "failed")
           /\ poolBalance' \in [Pools -> Nat]
           /\ poolLedger' \subseteq LedgerEntries
           /\ overtaken' \subseteq Instructions
  <1>1. status \in [Instructions -> Statuses] /\ \A j \in Instructions : RightWord(j, status[j])
    BY RequestType DEF TypeOK, Statuses
  <1>2. RightWord(i, "failed") /\ "failed" \in Statuses
    BY DEF RightWord, PayoutStatuses, RefundStatuses, Statuses
  <1>3. poolBalance \in [Pools -> Nat] /\ poolLedger \subseteq LedgerEntries /\ overtaken \subseteq Instructions
    BY DEF TypeOK, LedgerEntries
  <1>4. CASE status[i] \in guard /\ CanPost(Entry(i, by))
    <2>1. /\ status' = [status EXCEPT ![i] = "failed"]
          /\ poolLedger' = poolLedger \cup {Entry(i, by)}
          /\ poolBalance' = [poolBalance EXCEPT ![Pool(i)] = poolBalance[Pool(i)] + request[i].amount]
          /\ overtaken' = Overtake(Pool(i), i)
      BY <1>4 DEF GiveBack, CreditPool
    <2>2. poolBalance' \in [Pools -> Nat]
      BY <1>3, <2>1, RequestType
    <2>3. poolLedger' \subseteq LedgerEntries
      BY <1>3, <2>1, EntryType
    <2>4. overtaken' \subseteq Instructions
      BY <1>3, <2>1 DEF Overtake
    <2>5. QED
      BY <1>1, <1>2, <1>4, <2>1, <2>2, <2>3, <2>4
  <1>5. CASE ~ (status[i] \in guard /\ CanPost(Entry(i, by)))
    BY <1>1, <1>3, <1>5 DEF GiveBack, books
  <1>6. QED
    BY <1>4, <1>5

LEMMA CommitHoldEffect ==
    ASSUME TypeOK, NEW i \in Instructions, CommitHold(i)
    PROVE  /\ status' = [status EXCEPT ![i] = "pending"]
           /\ status' \in [Instructions -> Statuses]
           /\ \A j \in Instructions : RightWord(j, status'[j])
           /\ poolBalance' \in [Pools -> Nat]
           /\ poolLedger' \subseteq LedgerEntries
           /\ overtaken' \subseteq Instructions
  <1>1. status \in [Instructions -> Statuses] /\ \A j \in Instructions : RightWord(j, status[j])
    BY RequestType DEF TypeOK, Statuses
  <1>2. RightWord(i, "pending") /\ "pending" \in Statuses
    BY DEF RightWord, PayoutStatuses, RefundStatuses, Statuses
  <1>3. poolBalance' = [poolBalance EXCEPT ![Pool(i)] = snap[i] - request[i].amount]
        /\ snap[i] >= request[i].amount
    BY DEF CommitHold, DebitPool
  <1>4. poolBalance' \in [Pools -> Nat]
    BY <1>3, RequestType DEF TypeOK
  <1>5. poolLedger' \subseteq LedgerEntries
    BY EntryType DEF CommitHold, TypeOK, LedgerEntries
  <1>6. overtaken' \subseteq Instructions
    BY DEF CommitHold, TypeOK, Overtake
  <1>7. QED
    BY <1>1, <1>2, <1>4, <1>5, <1>6 DEF CommitHold

(* The variables a call or a loop moves besides rows and books.            *)
CallTypes == /\ pc \in [Instructions -> {"received", "routing", "opening", "debiting", "calling",
                                         "waiting", "settling", "done"}]
             /\ snap \in [Instructions -> Nat]
             /\ answer \in [Instructions -> {"none", "accepted", "rejected", "ambiguous"}]
LoopTypes == /\ loopPc \in [Loops -> {"idle", "scanning", "resolving"}]
             /\ seen \in [Loops -> [Instructions -> {"skip", "pending", "processing"}]]
             /\ target \in [Loops -> Instructions \cup {"none"}]
             /\ \A l \in Loops : loopPc[l] = "resolving" => target[l] \in Instructions
             /\ told \in [Loops -> {"none", "success", "failed", "unknown"}]
BookTypes == /\ overtaken \subseteq Instructions
             /\ poolBalance \in [Pools -> Nat]
             /\ poolLedger \subseteq LedgerEntries
RowTypes  == /\ status \in [Instructions -> Statuses]
             /\ \A i \in Instructions : RightWord(i, status[i])

LEMMA Types ==
    TypeOK <=> /\ request \in [Instructions -> Requests] /\ rail \in [Instructions -> RailStates]
               /\ CallTypes /\ LoopTypes /\ BookTypes /\ RowTypes
  BY DEF TypeOK, CallTypes, LoopTypes, BookTypes, RowTypes, Statuses, LedgerEntries, RightWord

LEMMA TypesNext ==
    ASSUME request' \in [Instructions -> Requests], rail' \in [Instructions -> RailStates],
           CallTypes', LoopTypes', BookTypes', RowTypes'
    PROVE  TypeOK'
  BY DEF TypeOK, CallTypes, LoopTypes, BookTypes, RowTypes, Statuses, LedgerEntries, RightWord

LEMMA TypeInit == Init => TypeOK
  BY PoolAmountsArePositive DEF Init, TypeOK, NothingListed, RailInit, PayoutStatuses,
     RefundStatuses, RailStates

-----------------------------------------------------------------------------
(* What a step may do to a row: nothing, hand it to an operator, give its  *)
(* money back on the bank's word that it will not pay, or book it on the   *)
(* bank's word that it has taken it.                                       *)
Unsettled == {"pending", "processing"}

RowMoves(i, taken, willNotPay) ==
    \/ status'[i] = status[i]
    \/ status[i] \in Unsettled /\ status'[i] = "requires_review"
    \/ status[i] \in Unsettled /\ status'[i] = "failed" /\ willNotPay
    \/ status[i] \in Unsettled /\ status'[i] \in Booked /\ taken

HeardTaken(i)      == pc[i] = "settling" /\ answer[i] = "accepted"
HeardWillNotPay(i) == pc[i] = "settling" /\ answer[i] = "rejected"

Records(i) == \/ PayoutAccepted(i) \/ PayoutRejected(i) \/ PayoutAmbiguous(i)
              \/ RefundAccepted(i) \/ RefundRejected(i) \/ RefundAmbiguous(i)

LEMMA RecordsEffect ==
    ASSUME TypeOK, NEW i \in Instructions, Records(i)
    PROVE  /\ RowTypes' /\ BookTypes'
           /\ \A j \in Instructions \ {i} : status'[j] = status[j]
           /\ RowMoves(i, HeardTaken(i), HeardWillNotPay(i))
           /\ pc' = [pc EXCEPT ![i] = "done"] /\ answer' = [answer EXCEPT ![i] = "none"]
           /\ UNCHANGED <<request, snap, job, rail>>
  <1> DEFINE Rest(a) == /\ pc[i] = "settling" /\ answer[i] = a
                        /\ pc' = [pc EXCEPT ![i] = "done"] /\ answer' = [answer EXCEPT ![i] = "none"]
                        /\ UNCHANGED <<request, snap, job, rail>>
  <1>1. BookTypes
    BY Types
  <1>2. \A j \in Instructions, s \in Statuses : RightWord(j, s)' = RightWord(j, s)
    BY DEF Records, PayoutAccepted, PayoutRejected, PayoutAmbiguous, RefundAccepted,
           RefundRejected, RefundAmbiguous, Settle, RightWord, Kind
  <1>3. CASE PayoutAccepted(i) \/ RefundAccepted(i)
    <2>1. PICK s \in {"success", "processing"} :
            Rest("accepted") /\ MoveRow(i, {"pending"}, s) /\ RightWord(i, s)
      BY <1>3 DEF PayoutAccepted, RefundAccepted, Settle, Goto, RightWord, PayoutStatuses,
                  RefundStatuses
    <2>2. s \in Statuses /\ s \in Booked
      BY <2>1 DEF Statuses, PayoutStatuses, RefundStatuses, Booked
    <2>3. /\ status' \in [Instructions -> Statuses] /\ \A j \in Instructions : RightWord(j, status'[j])
          /\ \A j \in Instructions \ {i} : status'[j] = status[j]
          /\ status'[i] = status[i] \/ (status[i] \in {"pending"} /\ status'[i] = s)
          /\ UNCHANGED <<poolBalance, poolLedger, overtaken>>
      BY <2>1, <2>2, MoveRowEffect
    <2>4. RowMoves(i, HeardTaken(i), HeardWillNotPay(i))
      BY <2>1, <2>2, <2>3 DEF RowMoves, HeardTaken, Unsettled
    <2>5. RowTypes' /\ BookTypes'
      BY <1>1, <1>2, <2>3 DEF RowTypes, BookTypes
    <2>6. QED
      BY <2>1, <2>3, <2>4, <2>5
  <1>4. CASE PayoutRejected(i) \/ RefundRejected(i)
    <2>1. Rest("rejected") /\ GiveBack(i, {"pending"}, "service_reversal")
      BY <1>4 DEF PayoutRejected, RefundRejected, Settle, Goto
    <2>2. QED
      BY <1>2, <2>1, GiveBackEffect DEF RowTypes, BookTypes, RowMoves, HeardWillNotPay, Unsettled
  <1>5. CASE PayoutAmbiguous(i) \/ RefundAmbiguous(i)
    <2>1. Rest("ambiguous") /\ MoveRow(i, {"pending"}, "requires_review")
      BY <1>5 DEF PayoutAmbiguous, RefundAmbiguous, Settle, Goto
    <2>2. "requires_review" \in Statuses /\ RightWord(i, "requires_review")
      BY DEF Statuses, PayoutStatuses, RefundStatuses, RightWord
    <2>3. QED
      BY <1>1, <1>2, <2>1, <2>2, MoveRowEffect DEF RowTypes, BookTypes, RowMoves, Unsettled
  <1>6. QED
    BY <1>3, <1>4, <1>5 DEF Records

(* The loops.                                                              *)
Resolves(l) == ResolveSuccess(l) \/ ResolveFailed(l) \/ ResolveUnknown(l)

LEMMA ResolvesEffect ==
    ASSUME TypeOK, NEW l \in Loops, Resolves(l)
    PROVE  /\ target[l] \in Instructions /\ loopPc[l] = "resolving"
           /\ RowTypes' /\ BookTypes'
           /\ \A j \in Instructions \ {target[l]} : status'[j] = status[j]
           /\ RowMoves(target[l], told[l] = "success", told[l] = "failed")
           /\ loopPc' = [loopPc EXCEPT ![l] = "scanning"]
           /\ seen' = [seen EXCEPT ![l][target[l]] = "skip"]
           /\ target' = [target EXCEPT ![l] = "none"] /\ told' = [told EXCEPT ![l] = "none"]
           /\ UNCHANGED <<request, pc, snap, answer, rail>>
  <1> DEFINE Rest(s) == /\ loopPc[l] = "resolving" /\ told[l] = s
                        /\ loopPc' = [loopPc EXCEPT ![l] = "scanning"]
                        /\ seen' = [seen EXCEPT ![l][target[l]] = "skip"]
                        /\ target' = [target EXCEPT ![l] = "none"]
                        /\ told' = [told EXCEPT ![l] = "none"]
                        /\ UNCHANGED <<request, pc, snap, answer, rail>>
  <1>1. BookTypes
    BY Types
  <1>2. \A j \in Instructions, s \in Statuses : RightWord(j, s)' = RightWord(j, s)
    BY DEF Resolves, ResolveSuccess, ResolveFailed, ResolveUnknown, ResolvePayoutAsSuccess,
           ResolveRefundAsSuccess, ResolvePayoutAsFailed, ResolveRefundAsFailed,
           FlagPayoutForReview, FlagRefundForReview, Resolve, RightWord, Kind
  <1>3. loopPc[l] = "resolving" /\ target[l] \in Instructions
    BY DEF Resolves, ResolveSuccess, ResolveFailed, ResolveUnknown, ResolvePayoutAsSuccess,
           ResolveRefundAsSuccess, ResolvePayoutAsFailed, ResolveRefundAsFailed,
           FlagPayoutForReview, FlagRefundForReview, Resolve, TypeOK
  <1>4. CASE ResolveSuccess(l)
    <2>1. PICK s \in {"success", "successful"}, guard \in SUBSET Unsettled :
            Rest("success") /\ MoveRow(target[l], guard, s) /\ RightWord(target[l], s)
      <3>1. CASE ResolvePayoutAsSuccess(l)
        BY <3>1 DEF ResolvePayoutAsSuccess, Resolve, RightWord, PayoutStatuses, Unsettled
      <3>2. CASE ResolveRefundAsSuccess(l)
        BY <3>2 DEF ResolveRefundAsSuccess, RecoverableRefund, Resolve, RightWord, RefundStatuses,
                    Unsettled
      <3>3. QED
        BY <1>4, <3>1, <3>2 DEF ResolveSuccess
    <2>2. s \in Statuses /\ s \in Booked
      BY <2>1 DEF Statuses, PayoutStatuses, RefundStatuses, Booked
    <2>3. QED
      BY <1>1, <1>2, <1>3, <2>1, <2>2, MoveRowEffect DEF RowTypes, BookTypes, RowMoves
  <1>5. CASE ResolveFailed(l)
    <2>1. PICK guard \in SUBSET Unsettled :
            Rest("failed") /\ GiveBack(target[l], guard, "recovery_reversal")
      BY <1>5 DEF ResolveFailed, ResolvePayoutAsFailed, ResolveRefundAsFailed, RecoverableRefund,
                  Resolve, Unsettled
    <2>2. QED
      BY <1>2, <1>3, <2>1, GiveBackEffect DEF RowTypes, BookTypes, RowMoves
  <1>6. CASE ResolveUnknown(l)
    <2>1. PICK guard \in SUBSET (Unsettled \cup {"skip"}) :
            Rest("unknown") /\ MoveRow(target[l], guard, "requires_review")
      <3>1. seen[l][target[l]] \in Unsettled \cup {"skip"}
        BY <1>3 DEF TypeOK, Unsettled
      <3>2. QED
        BY <1>6, <3>1 DEF ResolveUnknown, FlagPayoutForReview, FlagRefundForReview, Resolve, Unsettled
    <2>2. "requires_review" \in Statuses /\ RightWord(target[l], "requires_review")
      BY DEF Statuses, PayoutStatuses, RefundStatuses, RightWord
    <2>3. status[target[l]] # "skip"
      BY <1>3, RequestType DEF Statuses, PayoutStatuses, RefundStatuses
    <2>4. QED
      BY <1>1, <1>2, <1>3, <2>1, <2>2, <2>3, MoveRowEffect DEF RowTypes, BookTypes, RowMoves
  <1>7. QED
    BY <1>4, <1>5, <1>6 DEF Resolves

-----------------------------------------------------------------------------
LEMMA TypeCall ==
    ASSUME TypeOK, NEW i \in Instructions, CallStep(i)
    PROVE  TypeOK'
  <1>1. CASE Lookup(i)
    BY <1>1 DEF TypeOK, Lookup, Goto, Kind, books, job
  <1>2. CASE FindPool(i)
    BY <1>2 DEF TypeOK, FindPool, Goto, Kind, books, job
  <1>3. CASE BeginHold(i)
    BY <1>3, RequestType DEF TypeOK, BeginHold, Goto, Kind, books, job
  <1>4. CASE CommitHold(i)
    <2>1. RowTypes' /\ BookTypes'
      <3>1. \A j \in Instructions, s \in Statuses : RightWord(j, s)' = RightWord(j, s)
        BY <1>4 DEF CommitHold, RightWord, Kind
      <3>2. QED
        BY <1>4, <3>1, CommitHoldEffect DEF RowTypes, BookTypes
    <2>2. CallTypes' /\ LoopTypes' /\ UNCHANGED <<request, rail>>
      BY <1>4, Types DEF CommitHold, Goto, CallTypes, LoopTypes, job
    <2>3. QED
      BY <2>1, <2>2, Types, TypesNext
  <1>5. CASE AbortHold(i)
    BY <1>5 DEF TypeOK, AbortHold, Goto, Kind, books, job
  <1>6. CASE CallProvider(i)
    BY <1>6 DEF TypeOK, CallProvider, Goto, Instruct, MoveRail, RailStates, Kind, books, job
  <1>7. CASE ProviderAnswers(i)
    BY <1>7 DEF TypeOK, ProviderAnswers, Goto, InitiateAnswers, Kind, books, job
  <1>8. CASE Records(i)
    <2>1. RowTypes' /\ BookTypes'
      BY <1>8, RecordsEffect
    <2>2. CallTypes' /\ LoopTypes' /\ UNCHANGED <<request, rail>>
      BY <1>8, Types, RecordsEffect DEF CallTypes, LoopTypes, job
    <2>3. QED
      BY <2>1, <2>2, Types, TypesNext
  <1>9. CASE CrashCall(i)
    BY <1>9 DEF TypeOK, CrashCall, Kind, books, job
  <1>10. QED
    BY <1>1, <1>2, <1>3, <1>4, <1>5, <1>6, <1>7, <1>8, <1>9
    DEF CallStep, Records, HoldForPayout, HoldForRefund

LEMMA TypeList ==
    ASSUME TypeOK, NEW l \in Loops, NEW kind, NEW guard \in SUBSET {"pending", "processing"},
           List(l, kind, guard)
    PROVE  TypeOK'
  <1>1. loopPc' \in [Loops -> {"idle", "scanning", "resolving"}]
        /\ \A m \in Loops : loopPc'[m] = "resolving" => loopPc[m] = "resolving"
    BY DEF List, TypeOK
  <1>2. seen' \in [Loops -> [Instructions -> {"skip", "pending", "processing"}]]
    <2>1. [i \in Instructions |-> IF Kind(i) = kind /\ status[i] \in guard THEN status[i] ELSE "skip"]
              \in [Instructions -> {"skip", "pending", "processing"}]
      OBVIOUS
    <2>2. QED
      BY <2>1 DEF List, TypeOK
  <1>3. UNCHANGED <<calls, books, target, told, rail>>
    BY DEF List
  <1>4. QED
    BY <1>1, <1>2, <1>3 DEF TypeOK, calls, books, Kind

LEMMA TypeLoop ==
    ASSUME TypeOK, NEW l \in Loops, LoopStep(l)
    PROVE  TypeOK'
  <1>1. CASE ListStuckPayouts(l) \/ ListStuckRefunds(l)
    BY <1>1, TypeList DEF ListStuckPayouts, ListStuckRefunds, RecoverableRefund
  <1>2. ASSUME NEW i \in Instructions, AskStatus(l, i) PROVE TypeOK'
    BY <1>2 DEF TypeOK, AskStatus, StatusAnswers, Kind, calls, books
  <1>3. CASE Resolves(l)
    <2>1. RowTypes' /\ BookTypes' /\ UNCHANGED <<request, pc, snap, answer, rail>>
      BY <1>3, ResolvesEffect
    <2>2. /\ loopPc' = [loopPc EXCEPT ![l] = "scanning"]
          /\ seen' = [seen EXCEPT ![l][target[l]] = "skip"]
          /\ target' = [target EXCEPT ![l] = "none"] /\ told' = [told EXCEPT ![l] = "none"]
      BY <1>3, ResolvesEffect
    <2>3. CallTypes'
      BY <2>1, Types DEF CallTypes
    <2>4. loopPc' \in [Loops -> {"idle", "scanning", "resolving"}]
          /\ target' \in [Loops -> Instructions \cup {"none"}]
          /\ told' \in [Loops -> {"none", "success", "failed", "unknown"}]
          /\ \A m \in Loops : loopPc'[m] = "resolving" => target'[m] \in Instructions
      BY <2>2 DEF TypeOK
    <2>5. seen' \in [Loops -> [Instructions -> {"skip", "pending", "processing"}]]
      <3>1. [seen[l] EXCEPT ![target[l]] = "skip"] \in [Instructions -> {"skip", "pending", "processing"}]
        BY DEF TypeOK
      <3>2. QED
        BY <2>2, <3>1 DEF TypeOK
    <2>6. QED
      BY <2>1, <2>3, <2>4, <2>5, Types, TypesNext DEF LoopTypes
  <1>4. CASE EndLoop(l) \/ CrashLoop(l)
    <2>1. /\ loopPc' = [loopPc EXCEPT ![l] = "idle"]
          /\ target' = target \/ target' = [target EXCEPT ![l] = "none"]
          /\ told' = told \/ told' = [told EXCEPT ![l] = "none"]
          /\ seen' = seen \/ seen' = [seen EXCEPT ![l] = NothingListed]
          /\ UNCHANGED <<calls, books, rail>>
      BY <1>4 DEF EndLoop, CrashLoop
    <2>2. NothingListed \in [Instructions -> {"skip", "pending", "processing"}]
      BY DEF NothingListed
    <2>3. loopPc' \in [Loops -> {"idle", "scanning", "resolving"}]
          /\ target' \in [Loops -> Instructions \cup {"none"}]
          /\ told' \in [Loops -> {"none", "success", "failed", "unknown"}]
      BY <2>1 DEF TypeOK
    <2>0. seen' \in [Loops -> [Instructions -> {"skip", "pending", "processing"}]]
      BY <2>1, <2>2 DEF TypeOK
    <2>4. \A m \in Loops : loopPc'[m] = "resolving" => target'[m] \in Instructions
      BY <2>1 DEF TypeOK
    <2>5. QED
      BY <2>0, <2>1, <2>3, <2>4 DEF TypeOK, calls, books, Kind
  <1>5. QED
    BY <1>1, <1>2, <1>3, <1>4 DEF LoopStep, Resolves

LEMMA TypeNext ==
    ASSUME TypeOK, [Next]_vars
    PROVE  TypeOK'
  <1>1. ASSUME NEW i \in Instructions, BankStep(i) PROVE TypeOK'
    BY <1>1 DEF TypeOK, BankStep, RailStep, RailTakes, RailRefuses, RailPays, RailBounces,
                MoveRail, RailStates, Kind, calls, books, job
  <1>2. CASE UNCHANGED vars
    BY <1>2 DEF TypeOK, Kind, vars, calls, books, job
  <1>3. QED
    BY <1>1, <1>2, TypeCall, TypeLoop DEF Next

-----------------------------------------------------------------------------
(* What one step does to one row, one call, one loop and the rail.         *)

LEMMA RailLasts ==
    ASSUME TypeOK, [Next]_vars, NEW j \in Instructions
    PROVE  /\ rail[j] \in Taken => rail'[j] \in Taken
           /\ rail[j] \in WillNotPay => rail'[j] \in WillNotPay
           /\ rail'[j] = rail[j] \/ rail[j] # "none" \/ pc[j] = "calling"
  <1>1. rail \in [Instructions -> RailStates]
    BY DEF TypeOK
  <1>2. ASSUME NEW i \in Instructions, CallProvider(i)
        PROVE  pc[i] = "calling" /\ rail[i] = "none" /\ rail' = [rail EXCEPT ![i] = "sent"]
    BY <1>2 DEF CallProvider, Goto, Instruct, MoveRail
  <1>3. ASSUME NEW i \in Instructions, BankStep(i)
        PROVE  \/ rail[i] = "sent" /\ rail' = [rail EXCEPT ![i] = "queued"]
               \/ rail[i] = "sent" /\ rail' = [rail EXCEPT ![i] = "refused"]
               \/ rail[i] = "queued" /\ rail' = [rail EXCEPT ![i] = "paid"]
               \/ rail[i] = "queued" /\ rail' = [rail EXCEPT ![i] = "bounced"]
    BY <1>3 DEF BankStep, RailStep, RailTakes, RailRefuses, RailPays, RailBounces, MoveRail
  <1>4. ASSUME NEW i \in Instructions, CallStep(i), ~ CallProvider(i)
        PROVE  rail' = rail
    BY <1>4, RecordsEffect DEF CallStep, Lookup, FindPool, BeginHold, HoldForPayout, HoldForRefund,
       CommitHold, AbortHold, ProviderAnswers, CrashCall, Records
  <1>5. ASSUME NEW l \in Loops, LoopStep(l)
        PROVE  rail' = rail
    BY <1>5, ResolvesEffect DEF LoopStep, ListStuckPayouts, ListStuckRefunds, List, AskStatus, Resolves,
       EndLoop, CrashLoop
  <1>6. CASE UNCHANGED vars
    BY <1>6 DEF vars
  <1>7. QED
    BY <1>1, <1>2, <1>3, <1>4, <1>5, <1>6 DEF Next, Taken, WillNotPay, RailStates

(* The only step that makes a row, by a call whose key no row has.         *)
Opens(i) == /\ CommitHold(i)
            /\ pc[i] = "debiting" /\ pc'[i] = "calling"
            /\ KeyFree(i)
            /\ status' = [status EXCEPT ![i] = "pending"]

LEMMA RowStep ==
    ASSUME TypeOK, AnswerInv, [Next]_vars
    PROVE  /\ request' = request
           /\ \/ \E i \in Instructions : Opens(i)
              \/ \A j \in Instructions : RowMoves(j, rail[j] \in Taken, rail[j] \in WillNotPay)
  <1> DEFINE Goal == /\ request' = request
                     /\ \/ \E i \in Instructions : Opens(i)
                        \/ \A j \in Instructions : RowMoves(j, rail[j] \in Taken, rail[j] \in WillNotPay)
  <1>1. ASSUME UNCHANGED <<request, status>> PROVE Goal
    BY <1>1 DEF RowMoves
  <1>2. ASSUME NEW i \in Instructions, CallStep(i) PROVE Goal
    <2>1. CASE CommitHold(i)
      <3>1. Opens(i)
        BY <2>1 DEF Opens, CommitHold, Goto, TypeOK
      <3>2. QED
        BY <2>1, <3>1 DEF CommitHold
    <2>2. CASE Records(i)
      <3>1. /\ \A j \in Instructions \ {i} : status'[j] = status[j]
            /\ RowMoves(i, HeardTaken(i), HeardWillNotPay(i))
            /\ request' = request
        BY <2>2, RecordsEffect
      <3>2. (HeardTaken(i) => rail[i] \in Taken) /\ (HeardWillNotPay(i) => rail[i] \in WillNotPay)
        BY DEF HeardTaken, HeardWillNotPay, AnswerInv
      <3>3. QED
        BY <3>1, <3>2 DEF RowMoves
    <2>3. CASE ~ CommitHold(i) /\ ~ Records(i)
      <3>1. UNCHANGED <<request, status>>
        BY <1>2, <2>3 DEF CallStep, Records, HoldForPayout, HoldForRefund, Lookup, FindPool, BeginHold,
                          AbortHold, CallProvider, ProviderAnswers, CrashCall, books
      <3>2. QED
        BY <3>1, <1>1
    <2>4. QED
      BY <2>1, <2>2, <2>3
  <1>3. ASSUME NEW l \in Loops, LoopStep(l) PROVE Goal
    <2>1. CASE Resolves(l)
      <3>1. /\ target[l] \in Instructions /\ loopPc[l] = "resolving"
            /\ \A j \in Instructions \ {target[l]} : status'[j] = status[j]
            /\ RowMoves(target[l], told[l] = "success", told[l] = "failed")
            /\ request' = request
        BY <2>1, ResolvesEffect
      <3>2. (told[l] = "success" => rail[target[l]] \in Taken)
            /\ (told[l] = "failed" => rail[target[l]] \in WillNotPay)
        BY <3>1 DEF AnswerInv
      <3>3. QED
        BY <3>1, <3>2 DEF RowMoves
    <2>2. CASE ~ Resolves(l)
      <3>1. UNCHANGED <<request, status>>
        BY <1>3, <2>2 DEF LoopStep, Resolves, ListStuckPayouts, ListStuckRefunds, List, AskStatus, EndLoop,
                          CrashLoop, calls, books
      <3>2. QED
        BY <3>1, <1>1
    <2>3. QED
      BY <2>1, <2>2
  <1>4. ASSUME NEW i \in Instructions, BankStep(i) PROVE Goal
    <2>1. UNCHANGED <<request, status>>
      BY <1>4 DEF BankStep, calls, books
    <2>2. QED
      BY <2>1, <1>1
  <1>5. CASE UNCHANGED vars
    BY <1>5, <1>1 DEF vars, calls, books
  <1>6. QED
    BY <1>2, <1>3, <1>4, <1>5 DEF Next

LEMMA CallPcStep ==
    ASSUME TypeOK, [Next]_vars, NEW j \in Instructions
    PROVE  /\ pc'[j] \in Before => pc[j] \in Before
           /\ pc'[j] \in After => pc[j] \in After \/ Opens(j)
           /\ pc'[j] = "settling" => \/ pc[j] = "settling" /\ answer'[j] = answer[j]
                                     \/ answer'[j] \in InitiateAnswers(j) /\ rail' = rail
  <1> DEFINE Goal == /\ pc'[j] \in Before => pc[j] \in Before
                     /\ pc'[j] \in After => pc[j] \in After \/ Opens(j)
                     /\ pc'[j] = "settling" => \/ pc[j] = "settling" /\ answer'[j] = answer[j]
                                               \/ answer'[j] \in InitiateAnswers(j) /\ rail' = rail
  <1>1. ASSUME UNCHANGED <<pc, answer>> PROVE Goal
    BY <1>1
  <1>2. ASSUME NEW i \in Instructions, CallStep(i) PROVE Goal
    <2>1. CASE Lookup(i) \/ FindPool(i) \/ BeginHold(i) \/ AbortHold(i) \/ CallProvider(i)
      BY <2>1 DEF Lookup, FindPool, BeginHold, AbortHold, CallProvider, Goto, TypeOK, Before, After
    <2>2. CASE CommitHold(i)
      BY <2>2 DEF CommitHold, Goto, TypeOK, Before, After, Opens
    <2>3. CASE ProviderAnswers(i)
      BY <2>3 DEF ProviderAnswers, Goto, TypeOK, Before, After
    <2>4. CASE Records(i)
      <3>1. pc' = [pc EXCEPT ![i] = "done"] /\ answer' = [answer EXCEPT ![i] = "none"]
        BY <2>4, RecordsEffect
      <3>2. QED
        BY <3>1 DEF TypeOK, Before, After
    <2>5. CASE CrashCall(i)
      BY <2>5 DEF CrashCall, TypeOK, Before, After
    <2>6. QED
      BY <1>2, <2>1, <2>2, <2>3, <2>4, <2>5 DEF CallStep, Records, HoldForPayout, HoldForRefund
  <1>3. ASSUME NEW l \in Loops, LoopStep(l) PROVE Goal
    <2>1. UNCHANGED <<pc, answer>>
      BY <1>3, ResolvesEffect DEF LoopStep, Resolves, ListStuckPayouts, ListStuckRefunds, List,
                                  AskStatus, EndLoop, CrashLoop, calls
    <2>2. QED
      BY <2>1, <1>1
  <1>4. ASSUME NEW i \in Instructions, BankStep(i) PROVE Goal
    BY <1>4, <1>1 DEF BankStep, calls
  <1>5. CASE UNCHANGED vars
    BY <1>5, <1>1 DEF vars, calls
  <1>6. QED
    BY <1>2, <1>3, <1>4, <1>5 DEF Next
LEMMA LoopAsks ==
    ASSUME TypeOK, AnswerInv, [Next]_vars, NEW l \in Loops
    PROVE  /\ \A i \in Instructions : seen'[l][i] # "skip" => Exists(i)
           /\ loopPc'[l] = "resolving" =>
                \/ loopPc[l] = "resolving" /\ target'[l] = target[l] /\ told'[l] = told[l]
                \/ /\ target'[l] \in Instructions /\ Exists(target'[l])
                   /\ told'[l] \in StatusAnswers(target'[l])
  <1> DEFINE Goal ==
        /\ \A i \in Instructions : seen'[l][i] # "skip" => Exists(i)
        /\ loopPc'[l] = "resolving" =>
             \/ loopPc[l] = "resolving" /\ target'[l] = target[l] /\ told'[l] = told[l]
             \/ /\ target'[l] \in Instructions /\ Exists(target'[l])
                /\ told'[l] \in StatusAnswers(target'[l])
  <1>1. ASSUME UNCHANGED job PROVE Goal
    BY <1>1 DEF AnswerInv, job
  <1>2. ASSUME NEW i \in Instructions, CallStep(i) PROVE Goal
    <2>1. UNCHANGED job
      BY <1>2, RecordsEffect DEF CallStep, Records, HoldForPayout, HoldForRefund, CommitHold, Lookup,
         FindPool, BeginHold, AbortHold, CallProvider, ProviderAnswers, CrashCall
    <2>2. QED
      BY <2>1, <1>1
  <1>3. ASSUME NEW i \in Instructions, BankStep(i) PROVE Goal
    BY <1>3, <1>1 DEF BankStep
  <1>4. ASSUME NEW m \in Loops, NEW kind, NEW guard, List(m, kind, guard), "absent" \notin guard
        PROVE  Goal
    <2>1. \A i \in Instructions : seen'[l][i] # "skip" => seen[l][i] # "skip" \/ status[i] \in guard
      BY <1>4 DEF List, TypeOK
    <2>2. loopPc'[l] = "resolving" => loopPc[l] = "resolving"
      BY <1>4 DEF List, TypeOK
    <2>3. target' = target /\ told' = told
      BY <1>4 DEF List
    <2>4. QED
      BY <1>4, <2>1, <2>2, <2>3 DEF AnswerInv, Exists
  <1>5. ASSUME NEW m \in Loops, NEW i \in Instructions, AskStatus(m, i) PROVE Goal
    <2>1. seen' = seen /\ Exists(i)
      BY <1>5 DEF AskStatus, AnswerInv
    <2>2. CASE m = l
      BY <1>5, <2>1, <2>2 DEF AskStatus, AnswerInv, TypeOK
    <2>3. CASE m # l
      BY <1>5, <2>1, <2>3 DEF AskStatus, AnswerInv, TypeOK
    <2>4. QED
      BY <2>2, <2>3
  <1>6. ASSUME NEW m \in Loops, Resolves(m) PROVE Goal
    <2>1. /\ target[m] \in Instructions
          /\ loopPc' = [loopPc EXCEPT ![m] = "scanning"]
          /\ seen' = [seen EXCEPT ![m][target[m]] = "skip"]
          /\ target' = [target EXCEPT ![m] = "none"] /\ told' = [told EXCEPT ![m] = "none"]
      BY <1>6, ResolvesEffect
    <2>2. \A i \in Instructions : seen'[l][i] # "skip" => seen[l][i] # "skip"
      BY <2>1 DEF TypeOK
    <2>3. loopPc'[l] = "resolving" =>
            loopPc[l] = "resolving" /\ target'[l] = target[l] /\ told'[l] = told[l]
      BY <2>1 DEF TypeOK
    <2>4. QED
      BY <2>2, <2>3 DEF AnswerInv
  <1>7. ASSUME NEW m \in Loops, EndLoop(m) \/ CrashLoop(m) PROVE Goal
    <2>1. \A i \in Instructions : seen'[l][i] # "skip" => seen[l][i] # "skip"
      <3>1. CASE seen' = seen
        BY <3>1
      <3>2. CASE seen' = [seen EXCEPT ![m] = NothingListed]
        <4>1. seen'[l] = seen[l] \/ seen'[l] = NothingListed
          BY <3>2 DEF TypeOK
        <4>2. QED
          BY <4>1 DEF NothingListed
      <3>3. QED
        BY <1>7, <3>1, <3>2 DEF EndLoop, CrashLoop
    <2>2. loopPc'[l] = "resolving" =>
            loopPc[l] = "resolving" /\ target'[l] = target[l] /\ told'[l] = told[l]
      BY <1>7 DEF EndLoop, CrashLoop, TypeOK
    <2>3. QED
      BY <2>1, <2>2 DEF AnswerInv
  <1>8. CASE UNCHANGED vars
    BY <1>8, <1>1 DEF vars
  <1>9. ASSUME NEW m \in Loops, LoopStep(m) PROVE Goal
    <2>1. CASE ListStuckPayouts(m)
      BY <2>1, <1>4 DEF ListStuckPayouts
    <2>2. CASE ListStuckRefunds(m)
      BY <2>2, <1>4 DEF ListStuckRefunds, RecoverableRefund
    <2>3. QED
      BY <1>9, <1>5, <1>6, <1>7, <2>1, <2>2 DEF LoopStep, Resolves
  <1>10. QED
    BY <1>2, <1>3, <1>8, <1>9 DEF Next

-----------------------------------------------------------------------------
(* The inductive invariant.                                                *)

LEMMA IInvInit == Init => IInv
  <1>1. Init => CallInv
    BY DEF Init, CallInv, Before, After, Exists, RailInit
  <1>2. Init => AnswerInv
    BY DEF Init, AnswerInv, NothingListed
  <1>3. Init => OutcomeMatchesRail
    BY DEF Init, OutcomeMatchesRail, Booked
  <1>4. QED
    BY <1>1, <1>2, <1>3, TypeInit DEF IInv

(* Rows come and do not go.                                                *)
LEMMA RowsStay ==
    ASSUME IInv, [Next]_vars, NEW j \in Instructions
    PROVE  Exists(j)' <=> (Exists(j) \/ Opens(j))
  <1>1. status \in [Instructions -> Statuses]
    BY DEF IInv, TypeOK, Statuses
  <1>2. CASE \E i \in Instructions : Opens(i)
    <2>1. PICK i \in Instructions : Opens(i)
      BY <1>2
    <2>2. pc' = [pc EXCEPT ![i] = "calling"] /\ pc \in [Instructions -> {"received", "routing", "opening",
             "debiting", "calling", "waiting", "settling", "done"}]
      BY <2>1 DEF Opens, CommitHold, Goto, IInv, TypeOK
    <2>3. j # i => ~ Opens(j)
      BY <2>2 DEF Opens
    <2>4. QED
      BY <1>1, <2>1, <2>3 DEF Opens, Exists
  <1>3. CASE ~ \E i \in Instructions : Opens(i)
    <2>1. RowMoves(j, rail[j] \in Taken, rail[j] \in WillNotPay)
      BY <1>3, RowStep DEF IInv
    <2>2. QED
      BY <1>3, <2>1 DEF RowMoves, Exists, Unsettled, Booked
  <1>4. QED
    BY <1>2, <1>3

LEMMA CallNext ==
    ASSUME IInv, [Next]_vars
    PROVE  CallInv'
  <1> SUFFICES ASSUME NEW j \in Instructions
               PROVE  /\ pc'[j] \in Before => ~ Exists(j)'
                      /\ pc'[j] \in After => Exists(j)'
                      /\ ~ Exists(j)' => rail'[j] = "none"
    BY DEF CallInv
  <1>1. /\ pc[j] \in Before => ~ Exists(j)
        /\ pc[j] \in After => Exists(j)
        /\ ~ Exists(j) => rail[j] = "none"
        /\ "calling" \in After
    BY DEF IInv, CallInv, After
  <1>2. /\ pc'[j] \in Before => pc[j] \in Before
        /\ pc'[j] \in After => pc[j] \in After \/ Opens(j)
        /\ rail'[j] = rail[j] \/ rail[j] # "none" \/ pc[j] = "calling"
    BY CallPcStep, RailLasts DEF IInv
  <1>3. Opens(j) => pc'[j] \notin Before
    BY DEF Opens, Before
  <1>4. QED
    BY <1>1, <1>2, <1>3, RowsStay

LEMMA AnswerNext ==
    ASSUME IInv, [Next]_vars
    PROVE  AnswerInv'
  <1>1. ASSUME NEW j \in Instructions, pc'[j] = "settling"
        PROVE  /\ answer'[j] = "accepted" => rail'[j] \in Taken
               /\ answer'[j] = "rejected" => rail'[j] \in WillNotPay
    <2>1. CASE pc[j] = "settling" /\ answer'[j] = answer[j]
      BY <2>1, RailLasts DEF IInv, AnswerInv
    <2>2. CASE answer'[j] \in InitiateAnswers(j) /\ rail' = rail
      BY <2>2 DEF InitiateAnswers, WillNotPay
    <2>3. QED
      BY <1>1, <2>1, <2>2, CallPcStep DEF IInv
  <1>2. ASSUME NEW l \in Loops, NEW i \in Instructions, seen'[l][i] # "skip"
        PROVE  Exists(i)'
    BY <1>2, LoopAsks, RowsStay DEF IInv
  <1>3. ASSUME NEW l \in Loops, loopPc'[l] = "resolving"
        PROVE  /\ Exists(target[l])'
               /\ told'[l] = "success" => rail'[target'[l]] \in Taken
               /\ told'[l] = "failed" => rail'[target'[l]] \in WillNotPay
    <2>1. target'[l] \in Instructions
      BY <1>3, TypeNext DEF IInv, TypeOK
    <2>2. Exists(target'[l]) /\ (told'[l] = "success" => rail[target'[l]] \in Taken)
                             /\ (told'[l] = "failed" => rail[target'[l]] \in WillNotPay)
      <3>1. CASE loopPc[l] = "resolving" /\ target'[l] = target[l] /\ told'[l] = told[l]
        BY <3>1 DEF IInv, AnswerInv
      <3>2. CASE Exists(target'[l]) /\ told'[l] \in StatusAnswers(target'[l])
        BY <3>2 DEF StatusAnswers, Taken
      <3>3. QED
        BY <1>3, <3>1, <3>2, LoopAsks DEF IInv
    <2>3. Exists(target'[l]) => status'[target'[l]] # "absent"
      BY <2>1, RowsStay DEF Exists
    <2>4. QED
      BY <2>1, <2>2, <2>3, RailLasts DEF IInv, Exists
  <1>4. QED
    BY <1>1, <1>2, <1>3 DEF AnswerInv

LEMMA OutcomeNext ==
    ASSUME IInv, [Next]_vars
    PROVE  OutcomeMatchesRail'
  <1> SUFFICES ASSUME NEW j \in Instructions
               PROVE  /\ status'[j] = "failed" => rail'[j] \in WillNotPay
                      /\ status'[j] \in Booked => rail'[j] \in Taken
    BY DEF OutcomeMatchesRail, Booked, Taken, WillNotPay
  <1>1. /\ status[j] = "failed" => rail[j] \in WillNotPay
        /\ status[j] \in Booked => rail[j] \in Taken
        /\ status \in [Instructions -> Statuses]
    BY DEF IInv, OutcomeMatchesRail, TypeOK, Statuses
  <1>2. status'[j] = status[j] \/ status'[j] = "pending"
        \/ RowMoves(j, rail[j] \in Taken, rail[j] \in WillNotPay)
    BY <1>1, RowStep DEF IInv, Opens
  <1>3. /\ status'[j] = "failed" => rail[j] \in WillNotPay
        /\ status'[j] \in Booked => rail[j] \in Taken
    BY <1>1, <1>2 DEF RowMoves, Booked
  <1>4. QED
    BY <1>3, RailLasts DEF IInv

LEMMA IInvNext == IInv /\ [Next]_vars => IInv'
  BY TypeNext, CallNext, AnswerNext, OutcomeNext DEF IInv

THEOREM IInvAlways == Spec => []IInv
  BY IInvInit, IInvNext, PTL DEF Spec

-----------------------------------------------------------------------------
(* The theorems.                                                           *)

(* Every variable keeps a value of its kind: a payout never takes a        *)
(* refund's status or the reverse, and no pool is ever overdrawn.          *)
THEOREM TypeCorrect == Spec => []TypeOK
  <1>1. IInv => TypeOK
    BY DEF IInv
  <1>2. QED
    BY <1>1, IInvAlways, PTL

(* The pool gets its money back only for an instruction the bank will      *)
(* never pay, and an instruction is booked as done only when the bank has  *)
(* taken it, whichever of the call and the overlapping loops hears it      *)
(* first, and however late.                                                *)
THEOREM OutcomeCorrect == Spec => []OutcomeMatchesRail
  <1>1. IInv => OutcomeMatchesRail
    BY DEF IInv
  <1>2. QED
    BY <1>1, IInvAlways, PTL

(* A row that is settled, or in an operator's hands, is moved by nobody,   *)
(* and an accepted refund never goes back to pending.                      *)
THEOREM FinalCorrect == Spec => OutcomeIsFinal
  <1> DEFINE Final == \A i \in Instructions :
          /\ status[i] \in {"success", "successful", "failed", "requires_review"}
                => status'[i] = status[i]
          /\ Exists(i) => status'[i] \notin {"absent", "pending"} \/ status'[i] = status[i]
  <1>1. ASSUME IInv, [Next]_vars PROVE Final
    <2> SUFFICES ASSUME NEW j \in Instructions
                 PROVE  /\ status[j] \in {"success", "successful", "failed", "requires_review"}
                              => status'[j] = status[j]
                        /\ Exists(j) => status'[j] \notin {"absent", "pending"} \/ status'[j] = status[j]
      OBVIOUS
    <2>1. CASE \E i \in Instructions : Opens(i)
      <3>1. PICK i \in Instructions : Opens(i)
        BY <2>1
      <3>2. status[i] = "absent"
        BY <1>1, <3>1 DEF Opens, IInv, CallInv, Before, Exists
      <3>3. status' = [status EXCEPT ![i] = "pending"] /\ status \in [Instructions -> Statuses]
        BY <1>1, <3>1 DEF Opens, IInv, TypeOK, Statuses
      <3>4. QED
        BY <3>2, <3>3 DEF Exists
    <2>2. CASE RowMoves(j, rail[j] \in Taken, rail[j] \in WillNotPay)
      BY <2>2 DEF RowMoves, Unsettled, Booked
    <2>3. QED
      BY <1>1, <2>1, <2>2, RowStep DEF IInv
  <1>2. IInv /\ [Next]_vars => [Final]_vars
    BY <1>1
  <1>3. QED
    BY <1>2, IInvAlways, PTL DEF Spec, OutcomeIsFinal

(* Of the instructions of a kind that carry one key, however they race,    *)
(* at most one ever takes money out of a pool.                             *)
THEOREM KeysCorrect == Spec => []OneInstructionPerKey
  <1>1. Init => OneInstructionPerKey
    BY DEF Init, OneInstructionPerKey, Exists
  <1>2. ASSUME IInv, OneInstructionPerKey, [Next]_vars PROVE OneInstructionPerKey'
    <2>1. request' = request
      BY <1>2, RowStep DEF IInv
    <2> SUFFICES ASSUME NEW i \in Instructions, NEW j \in Instructions, Exists(i)', Exists(j)',
                        Kind(i) = Kind(j), request[i].key = request[j].key
                 PROVE  i = j
      BY <2>1 DEF OneInstructionPerKey, Kind
    <2>2. CASE Exists(i) /\ Exists(j)
      BY <1>2, <2>2 DEF OneInstructionPerKey
    <2>3. CASE Opens(i) /\ Exists(j)
      BY <2>3 DEF Opens, KeyFree, KeyTaken
    <2>4. CASE Exists(i) /\ Opens(j)
      BY <2>4 DEF Opens, KeyFree, KeyTaken
    <2>5. CASE Opens(i) /\ Opens(j)
      BY <1>2, <2>5 DEF Opens, CommitHold, Goto, IInv, TypeOK
    <2>6. QED
      BY <1>2, <2>2, <2>3, <2>4, <2>5, RowsStay
  <1>3. QED
    BY <1>1, <1>2, IInvAlways, PTL DEF Spec

-----------------------------------------------------------------------------
(* The refinement: payouts, refunds and their recovery keep the promise of *)
(* Outbound, for any number of pools, keys, instructions and overlapping   *)
(* loops: a step is a step of the promise, or changes nothing it speaks of.*)

(* A transaction that can still commit has read the balance it will write  *)
(* over, so that its own subtraction is the pool's.                        *)
SnapshotInv ==
    \A i \in Instructions :
        pc[i] = "debiting" /\ i \notin overtaken => snap[i] = poolBalance[Pool(i)]

(* Only a hold and a return touch a pool, and both overtake whoever has it *)
(* open.                                                                   *)
LEMMA Untouched ==
    ASSUME SnapshotInv, request' = request, poolBalance' = poolBalance,
           NEW by \in Instructions, overtaken' = overtaken \/ overtaken' = overtaken \ {by},
           snap' = snap \/ (\E n \in Nat : snap' = [snap EXCEPT ![by] = n]),
           \A j \in Instructions : pc'[j] = "debiting" => pc[j] = "debiting",
           overtaken' # overtaken \/ snap' # snap => pc'[by] # "debiting",
           TypeOK
    PROVE  SnapshotInv'
  <1> SUFFICES ASSUME NEW j \in Instructions, pc'[j] = "debiting", j \notin overtaken'
               PROVE  snap'[j] = poolBalance'[Pool(j)']
    BY DEF SnapshotInv
  <1>1. pc[j] = "debiting" /\ Pool(j)' = Pool(j)
    BY DEF Pool
  <1>2. CASE overtaken' = overtaken /\ snap' = snap
    BY <1>1, <1>2 DEF SnapshotInv
  <1>3. CASE j # by
    <2>1. j \notin overtaken
      BY <1>3
    <2>2. snap'[j] = snap[j]
      BY <1>3 DEF TypeOK
    <2>3. QED
      BY <1>1, <2>1, <2>2 DEF SnapshotInv
  <1>4. QED
    BY <1>2, <1>3

LEMMA Overtaken ==
    ASSUME SnapshotInv, TypeOK, request' = request,
           NEW by \in Instructions, overtaken' = Overtake(Pool(by), by), pc'[by] # "debiting",
           \A j \in Instructions : pc'[j] = "debiting" => pc[j] = "debiting",
           \A j \in Instructions \ {by} : snap'[j] = snap[j],
           \A q \in Pools \ {Pool(by)} : poolBalance'[q] = poolBalance[q]
    PROVE  SnapshotInv'
  <1> SUFFICES ASSUME NEW j \in Instructions, pc'[j] = "debiting", j \notin overtaken'
               PROVE  snap'[j] = poolBalance'[Pool(j)']
    BY DEF SnapshotInv
  <1>1. pc[j] = "debiting" /\ Pool(j)' = Pool(j) /\ j # by
    BY DEF Pool
  <1>2. j \notin overtaken /\ Pool(j) # Pool(by)
    BY <1>1 DEF Overtake
  <1>3. poolBalance'[Pool(j)] = poolBalance[Pool(j)]
    BY <1>2, RequestType
  <1>4. QED
    BY <1>1, <1>2, <1>3 DEF SnapshotInv

(* A row's money can be given back whoever has the pool open.              *)
LEMMA GiveBackSnapshots ==
    ASSUME SnapshotInv, TypeOK, request' = request, snap' = snap,
           NEW i \in Instructions, NEW guard, NEW by, GiveBack(i, guard, by), pc'[i] # "debiting",
           \A j \in Instructions : pc'[j] = "debiting" => pc[j] = "debiting"
    PROVE  SnapshotInv'
  <1>1. CASE status[i] \in guard /\ CanPost(Entry(i, by))
    <2>1. overtaken' = Overtake(Pool(i), i)
          /\ \A q \in Pools \ {Pool(i)} : poolBalance'[q] = poolBalance[q]
      BY <1>1 DEF GiveBack, CreditPool, TypeOK
    <2>2. QED
      BY <2>1, Overtaken
  <1>2. CASE ~ (status[i] \in guard /\ CanPost(Entry(i, by)))
    <2>1. UNCHANGED <<overtaken, poolBalance>>
      BY <1>2 DEF GiveBack, books
    <2>2. QED
      BY <2>1, Untouched
  <1>3. QED
    BY <1>1, <1>2

LEMMA SnapshotCall ==
    ASSUME IInv, SnapshotInv, NEW i \in Instructions, CallStep(i)
    PROVE  SnapshotInv'
  <1>0. TypeOK
    BY DEF IInv
  <1>1. CASE BeginHold(i)
    <2>1. \A j \in Instructions : Pool(j)' = Pool(j)
      BY <1>1 DEF BeginHold, Pool
    <2>2. snap'[i] = poolBalance[Pool(i)]
      BY <1>0, <1>1 DEF BeginHold, TypeOK
    <2>3. \A j \in Instructions \ {i} : snap'[j] = snap[j] /\ pc'[j] = pc[j]
                                        /\ (j \in overtaken' <=> j \in overtaken)
      BY <1>0, <1>1 DEF BeginHold, Goto, TypeOK
    <2>4. poolBalance' = poolBalance
      BY <1>1 DEF BeginHold, books
    <2>5. QED
      BY <2>1, <2>2, <2>3, <2>4 DEF SnapshotInv
  <1>2. CASE CommitHold(i)
    <2>1. /\ overtaken' = Overtake(Pool(i), i) /\ request' = request
          /\ pc' = [pc EXCEPT ![i] = "calling"]
          /\ snap' = [snap EXCEPT ![i] = 0]
          /\ poolBalance' = [poolBalance EXCEPT ![Pool(i)] = snap[i] - request[i].amount]
      BY <1>2 DEF CommitHold, Goto, DebitPool
    <2>2. pc'[i] # "debiting" /\ \A j \in Instructions : pc'[j] = "debiting" => pc[j] = "debiting"
      BY <1>0, <2>1 DEF TypeOK
    <2>3. /\ \A j \in Instructions \ {i} : snap'[j] = snap[j]
          /\ \A q \in Pools \ {Pool(i)} : poolBalance'[q] = poolBalance[q]
      BY <1>0, <2>1 DEF TypeOK
    <2>4. QED
      BY <1>0, <2>1, <2>2, <2>3, Overtaken
  <1>3. CASE AbortHold(i)
    <2>1. /\ request' = request /\ poolBalance' = poolBalance /\ overtaken' = overtaken \ {i}
          /\ snap' = [snap EXCEPT ![i] = 0] /\ pc' = [pc EXCEPT ![i] = "done"]
      BY <1>3 DEF AbortHold, Goto, books
    <2>2. pc'[i] # "debiting" /\ \A j \in Instructions : pc'[j] = "debiting" => pc[j] = "debiting"
      BY <1>0, <2>1 DEF TypeOK
    <2>3. QED
      BY <1>0, <2>1, <2>2, Untouched
  <1>4. CASE Records(i)
    <2>1. pc' = [pc EXCEPT ![i] = "done"] /\ request' = request /\ snap' = snap
      BY <1>0, <1>4, RecordsEffect
    <2>2. pc'[i] # "debiting" /\ \A j \in Instructions : pc'[j] = "debiting" => pc[j] = "debiting"
      BY <1>0, <2>1 DEF TypeOK
    <2>3. CASE PayoutRejected(i) \/ RefundRejected(i)
      BY <1>0, <2>1, <2>2, <2>3, GiveBackSnapshots DEF PayoutRejected, RefundRejected
    <2>4. CASE PayoutAccepted(i) \/ RefundAccepted(i) \/ PayoutAmbiguous(i) \/ RefundAmbiguous(i)
      <3>1. UNCHANGED <<poolBalance, overtaken>>
        BY <2>4 DEF PayoutAccepted, RefundAccepted, PayoutAmbiguous, RefundAmbiguous, MoveRow
      <3>2. QED
        BY <1>0, <2>1, <2>2, <3>1, Untouched
    <2>5. QED
      BY <1>4, <2>3, <2>4 DEF Records
  <1>5. CASE Lookup(i) \/ FindPool(i) \/ CallProvider(i) \/ ProviderAnswers(i) \/ CrashCall(i)
    <2>1. UNCHANGED <<request, poolBalance, snap, overtaken>>
      BY <1>5 DEF Lookup, FindPool, CallProvider, ProviderAnswers, CrashCall, books
    <2>2. \A j \in Instructions : pc'[j] = "debiting" => pc[j] = "debiting"
      BY <1>0, <1>5 DEF Lookup, FindPool, CallProvider, ProviderAnswers, CrashCall, Goto, TypeOK
    <2>3. QED
      BY <1>0, <2>1, <2>2, Untouched
  <1>6. QED
    BY <1>1, <1>2, <1>3, <1>4, <1>5 DEF CallStep, Records, HoldForPayout, HoldForRefund

LEMMA SnapshotLoop ==
    ASSUME IInv, SnapshotInv, NEW l \in Loops, LoopStep(l)
    PROVE  SnapshotInv'
  <1>0. TypeOK
    BY DEF IInv
  <1>1. CASE Resolves(l)
    <2>1. UNCHANGED <<request, pc, snap>> /\ target[l] \in Instructions /\ loopPc[l] = "resolving"
      BY <1>0, <1>1, ResolvesEffect
    <2>2. pc'[target[l]] # "debiting"
      BY <2>1 DEF IInv, AnswerInv, CallInv, Before
    <2>3. CASE ResolveFailed(l)
      BY <1>0, <2>1, <2>2, <2>3, GiveBackSnapshots
      DEF ResolveFailed, ResolvePayoutAsFailed, ResolveRefundAsFailed
    <2>4. CASE ResolveSuccess(l) \/ ResolveUnknown(l)
      <3>1. UNCHANGED <<poolBalance, overtaken>>
        BY <2>4 DEF ResolveSuccess, ResolveUnknown, ResolvePayoutAsSuccess, ResolveRefundAsSuccess,
                    FlagPayoutForReview, FlagRefundForReview, MoveRow
      <3>2. QED
        BY <1>0, <2>1, <3>1, Untouched
    <2>5. QED
      BY <1>1, <2>3, <2>4 DEF Resolves
  <1>2. CASE ~ Resolves(l)
    <2>1. UNCHANGED <<calls, books>>
      BY <1>2 DEF LoopStep, Resolves, ListStuckPayouts, ListStuckRefunds, List, AskStatus, EndLoop, CrashLoop
    <2>2. QED
      BY <2>1 DEF SnapshotInv, Pool, calls, books
  <1>3. QED
    BY <1>1, <1>2

LEMMA SnapshotNext ==
    ASSUME IInv, SnapshotInv, [Next]_vars
    PROVE  SnapshotInv'
  <1>1. ASSUME UNCHANGED <<calls, books>> PROVE SnapshotInv'
    BY <1>1 DEF SnapshotInv, Pool, calls, books
  <1>2. QED
    BY <1>1, SnapshotCall, SnapshotLoop DEF Next, vars, BankStep

LEMMA RefIInv == Spec => [](IInv /\ SnapshotInv)
  <1>1. Init => SnapshotInv
    BY DEF Init, SnapshotInv
  <1>2. QED
    BY <1>1, IInvInit, IInvNext, SnapshotNext, PTL DEF Spec
-----------------------------------------------------------------------------
(* The books: a step posts at most one entry, and moves the pool by it.    *)

Returns(i, by) ==
    /\ status[i] \in Unsettled
    /\ status' = [status EXCEPT ![i] = "failed"]
    /\ poolLedger' = poolLedger \cup {Entry(i, by)}
    /\ poolBalance' = CreditPool(i)

Holds(i) ==
    /\ status' = [status EXCEPT ![i] = "pending"]
    /\ poolLedger' = poolLedger \cup {Entry(i, "hold")}
    /\ poolBalance' = [poolBalance EXCEPT ![Pool(i)] = poolBalance[Pool(i)] - request[i].amount]

Reversals == {"service_reversal", "recovery_reversal"}

(* Nothing is posted, no row comes and none fails.                         *)
NothingPosted ==
    /\ UNCHANGED <<poolBalance, poolLedger>>
    /\ \A i \in Instructions : Exists(i)' <=> Exists(i)
    /\ \A i \in Instructions : status'[i] = "failed" <=> status[i] = "failed"

LEMMA GiveBackPosts ==
    ASSUME TypeOK, NEW i \in Instructions, NEW guard \in SUBSET Unsettled, NEW by \in Reversals,
           GiveBack(i, guard, by)
    PROVE  Returns(i, by) \/ NothingPosted
  <1>1. CASE status[i] \in guard /\ CanPost(Entry(i, by))
    BY <1>1 DEF GiveBack, Returns
  <1>2. CASE ~ (status[i] \in guard /\ CanPost(Entry(i, by)))
    BY <1>2 DEF GiveBack, NothingPosted, books, Exists
  <1>3. QED
    BY <1>1, <1>2

LEMMA MoveRowPosts ==
    ASSUME TypeOK, NEW i \in Instructions, NEW guard, status[i] \in guard => status[i] \in Unsettled,
           NEW to, to \notin {"absent", "failed"}, MoveRow(i, guard, to)
    PROVE  NothingPosted
  BY DEF MoveRow, NothingPosted, Exists, Unsettled, TypeOK

LEMMA CallPosts ==
    ASSUME IInv, SnapshotInv, NEW i \in Instructions, CallStep(i)
    PROVE  \/ ~ Exists(i) /\ Holds(i)
           \/ \E by \in Reversals : Returns(i, by)
           \/ NothingPosted
  <1>0. TypeOK
    BY DEF IInv
  <1>1. CASE CommitHold(i)
    <2>1. ~ Exists(i)
      BY <1>1 DEF CommitHold, Goto, IInv, CallInv, Before
    <2>2. QED
      BY <1>1, <2>1 DEF CommitHold, Goto, Serializable, SnapshotInv, DebitPool, Holds
  <1>2. CASE PayoutRejected(i) \/ RefundRejected(i)
    <2>1. GiveBack(i, {"pending"}, "service_reversal")
      BY <1>2 DEF PayoutRejected, RefundRejected
    <2>2. {"pending"} \in SUBSET Unsettled /\ "service_reversal" \in Reversals
      BY DEF Unsettled, Reversals
    <2>3. QED
      BY <1>0, <2>1, <2>2, GiveBackPosts
  <1>3. CASE PayoutAccepted(i) \/ PayoutAmbiguous(i) \/ RefundAccepted(i) \/ RefundAmbiguous(i)
    <2>1. PICK to \in {"success", "requires_review", "processing"} : MoveRow(i, {"pending"}, to)
      BY <1>3 DEF PayoutAccepted, PayoutAmbiguous, RefundAccepted, RefundAmbiguous
    <2>2. QED
      BY <1>0, <2>1, MoveRowPosts DEF Unsettled
  <1>4. CASE \/ Lookup(i) \/ FindPool(i) \/ BeginHold(i) \/ AbortHold(i)
             \/ CallProvider(i) \/ ProviderAnswers(i) \/ CrashCall(i)
    BY <1>4 DEF Lookup, FindPool, BeginHold, AbortHold, CallProvider, ProviderAnswers, CrashCall,
                NothingPosted, Exists, books
  <1>5. QED
    BY <1>1, <1>2, <1>3, <1>4 DEF CallStep, HoldForPayout, HoldForRefund

LEMMA LoopPosts ==
    ASSUME IInv, NEW l \in Loops, LoopStep(l)
    PROVE  (\E i \in Instructions, by \in Reversals : Returns(i, by)) \/ NothingPosted
  <1>0. TypeOK
    BY DEF IInv
  <1>1. CASE Resolves(l)
    <2>1. target[l] \in Instructions
      BY <1>0, <1>1, ResolvesEffect
    <2>2. CASE ResolveFailed(l)
      <3>1. PICK guard \in SUBSET Unsettled : GiveBack(target[l], guard, "recovery_reversal")
        BY <2>2 DEF ResolveFailed, ResolvePayoutAsFailed, ResolveRefundAsFailed, RecoverableRefund,
                    Unsettled
      <3>2. QED
        BY <1>0, <2>1, <3>1, GiveBackPosts DEF Reversals
    <2>3. CASE ResolveSuccess(l) \/ ResolveUnknown(l)
      <3>1. seen[l][target[l]] \in Unsettled \cup {"skip"} /\ status[target[l]] # "skip"
        BY <2>1 DEF IInv, TypeOK, Unsettled, PayoutStatuses, RefundStatuses
      <3>2. PICK to \in {"success", "successful", "requires_review"},
                 guard \in SUBSET (Unsettled \cup {"skip"}) : MoveRow(target[l], guard, to)
        BY <2>3, <3>1 DEF ResolveSuccess, ResolveUnknown, ResolvePayoutAsSuccess,
             ResolveRefundAsSuccess, FlagPayoutForReview, FlagRefundForReview, RecoverableRefund,
             Unsettled
      <3>3. QED
        BY <1>0, <2>1, <3>1, <3>2, MoveRowPosts
    <2>4. QED
      BY <1>1, <2>2, <2>3 DEF Resolves
  <1>2. CASE ~ Resolves(l)
    BY <1>2 DEF LoopStep, Resolves, ListStuckPayouts, ListStuckRefunds, List, AskStatus, EndLoop,
                CrashLoop, calls, books, NothingPosted, Exists
  <1>3. QED
    BY <1>1, <1>2

LEMMA StepPosts ==
    ASSUME IInv, SnapshotInv, [Next]_vars
    PROVE  /\ request' = request
           /\ \/ \E i \in Instructions : ~ Exists(i) /\ Holds(i)
              \/ \E i \in Instructions, by \in Reversals : Returns(i, by)
              \/ NothingPosted
  <1>1. request' = request
    BY RowStep DEF IInv
  <1>2. ASSUME UNCHANGED <<calls, books>> PROVE NothingPosted
    BY <1>2 DEF NothingPosted, Exists, calls, books
  <1>3. QED
    BY <1>1, <1>2, CallPosts, LoopPosts DEF Next, BankStep, vars

LEMMA AmountType == ASSUME NEW e \in LedgerEntries PROVE Amount(e) \in Int
  <1>1. e.amount \in Nat
    BY DEF LedgerEntries
  <1>2. QED
    BY <1>1 DEF Amount

LEMMA TotalGrows ==
    ASSUME NEW L, L \subseteq LedgerEntries, IsFiniteSet(L), NEW e \in LedgerEntries, e \notin L
    PROVE  Total(L) \in Int /\ Total(L \cup {e}) = Total(L) + Amount(e)
  <1> DEFINE f == [m \in L |-> Amount(m)]
             g == [m \in L \cup {e} |-> Amount(m)]
  <1>1. g[e] = Amount(e) /\ g[e] \in Int
    BY AmountType
  <1>2. \A m \in L : f[m] \in Int /\ g[m] = f[m]
    BY AmountType
  <1>3. Total(L) = SumFunctionOnSet(f, L) /\ Total(L \cup {e}) = SumFunctionOnSet(g, L \cup {e})
    BY Zenon DEF Total
  <1> HIDE DEF f, g
  <1>4. SumFunctionOnSet(f, L) \in Int
        /\ SumFunctionOnSet(g, L \cup {e}) = SumFunctionOnSet(f, L) + g[e]
    BY <1>1, <1>2, SumGrows
  <1>5. QED
    BY <1>1, <1>3, <1>4

(* A new entry moves the total of its own pool and of no other.            *)
LEMMA PostingCounts ==
    ASSUME TypeOK, PoolMatchesLedger, IsFiniteSet(poolLedger),
           NEW e \in LedgerEntries, e \notin poolLedger, poolLedger' = poolLedger \cup {e},
           poolBalance' = [poolBalance EXCEPT ![e.pool] = poolBalance[e.pool] + Amount(e)]
    PROVE  IsFiniteSet(poolLedger') /\ PoolMatchesLedger'
  <1>1. IsFiniteSet(poolLedger')
    BY FS_AddElement
  <1> SUFFICES ASSUME NEW q \in Pools
               PROVE  poolBalance'[q] = OPENING + Total(Entries(q)')
    BY <1>1 DEF PoolMatchesLedger, Total, Amount
  <1>2. IsFiniteSet(Entries(q)) /\ Entries(q) \subseteq LedgerEntries
    BY FS_Subset DEF TypeOK, Entries, LedgerEntries
  <1>3. /\ poolBalance[q] = OPENING + Total(Entries(q)) /\ OPENING \in Nat
        /\ poolBalance \in [Pools -> Nat] /\ e.pool \in Pools /\ Amount(e) \in Int
    BY AmountType, PoolAmountsArePositive DEF PoolMatchesLedger, TypeOK, LedgerEntries
  <1>4. CASE q = e.pool
    <2>1. Entries(q)' = Entries(q) \cup {e} /\ e \notin Entries(q)
      BY <1>4 DEF Entries
    <2>2. Total(Entries(q)') = Total(Entries(q)) + Amount(e) /\ Total(Entries(q)) \in Int
      BY <1>2, <2>1, TotalGrows
    <2>3. poolBalance'[q] = poolBalance[q] + Amount(e)
      BY <1>3, <1>4
    <2>4. QED
      BY <1>3, <2>2, <2>3
  <1>5. CASE q # e.pool
    <2>1. Entries(q)' = Entries(q)
      BY <1>5 DEF Entries
    <2>2. poolBalance'[q] = poolBalance[q]
      BY <1>3, <1>5
    <2>3. QED
      BY <1>3, <2>1, <2>2
  <1>6. QED
    BY <1>4, <1>5

LEMMA EntryFields ==
    ASSUME NEW i, NEW by
    PROVE  /\ Entry(i, by).ref = i /\ Entry(i, by).by = by /\ Entry(i, by).pool = Pool(i)
           /\ Entry(i, by).amount = request[i].amount
  BY DEF Entry

BooksInv == IsFiniteSet(poolLedger) /\ BooksAgree

LEMMA BooksInit == Init => BooksInv
  <1> SUFFICES ASSUME Init PROVE BooksInv
    OBVIOUS
  <1>1. IsFiniteSet(poolLedger) /\ EntriesAgree
    BY FS_EmptySet DEF Init, EntriesAgree, Exists
  <1>2. ASSUME NEW q \in Pools PROVE poolBalance[q] = OPENING + Total(Entries(q))
    <2>1. Entries(q) = {}
      BY DEF Init, Entries
    <2>2. Total({}) = 0
      BY SumEmpty DEF Total
    <2>3. Total(Entries(q)) = 0
      BY <2>1, <2>2
    <2>4. QED
      BY <2>3, PoolAmountsArePositive DEF Init
  <1>3. QED
    BY <1>1, <1>2 DEF BooksInv, BooksAgree, PoolMatchesLedger

LEMMA BooksNext ==
    ASSUME IInv, SnapshotInv, BooksInv, [Next]_vars
    PROVE  BooksInv'
  <1>0. TypeOK /\ EntriesAgree /\ PoolMatchesLedger /\ IsFiniteSet(poolLedger)
    BY DEF IInv, BooksInv, BooksAgree
  <1>1. request' = request
    BY StepPosts
  <1>2. \A i \in Instructions, by \in Reversals \cup {"hold"} : Entry(i, by)' = Entry(i, by)
    BY <1>1 DEF Entry, Pool
  <1>3. ASSUME NEW i \in Instructions, ~ Exists(i), Holds(i) PROVE BooksInv'
    <2> DEFINE e == Entry(i, "hold")
    <2>1. e \in LedgerEntries /\ e \notin poolLedger
      BY <1>0, <1>3, EntryType DEF EntriesAgree
    <2>2. Amount(e) = - request[i].amount /\ e.pool = Pool(i)
      BY EntryFields DEF Amount
    <2>3. poolLedger' = poolLedger \cup {e}
          /\ poolBalance' = [poolBalance EXCEPT ![e.pool] = poolBalance[e.pool] + Amount(e)]
      <3>1. poolBalance[Pool(i)] - request[i].amount = poolBalance[e.pool] + Amount(e)
        BY <1>0, <2>2, RequestType
      <3>2. QED
        BY <1>3, <2>2, <3>1 DEF Holds
    <2>4. IsFiniteSet(poolLedger') /\ PoolMatchesLedger'
      BY <1>0, <2>1, <2>3, PostingCounts
    <2>5. EntriesAgree'
      <3>1. \A j \in Instructions, by \in Reversals \cup {"hold"} :
                Entry(j, by)' \in poolLedger'
                  <=> Entry(j, by) \in poolLedger \/ (j = i /\ by = "hold")
        BY <1>2, <2>3, EntryFields
      <3>2. \A j \in Instructions : status'[j] = IF j = i THEN "pending" ELSE status[j]
        BY <1>0, <1>3 DEF Holds, TypeOK
      <3> HIDE DEF e
      <3>3. QED
        BY <1>0, <1>3, <3>1, <3>2 DEF EntriesAgree, Exists, Reversals
    <2>6. QED
      BY <2>4, <2>5 DEF BooksInv, BooksAgree
  <1>4. ASSUME NEW i \in Instructions, NEW by \in Reversals, Returns(i, by) PROVE BooksInv'
    <2> DEFINE e == Entry(i, by)
    <2>1. e \in LedgerEntries /\ Entry(i, "service_reversal") \notin poolLedger
          /\ Entry(i, "recovery_reversal") \notin poolLedger
      BY <1>0, <1>4, EntryType DEF EntriesAgree, Returns, Unsettled, Reversals
    <2>2. Amount(e) = request[i].amount /\ e.pool = Pool(i)
      BY EntryFields DEF Amount, Reversals
    <2>3. poolLedger' = poolLedger \cup {e}
          /\ poolBalance' = [poolBalance EXCEPT ![e.pool] = poolBalance[e.pool] + Amount(e)]
      BY <1>4, <2>2 DEF Returns, CreditPool
    <2>4. IsFiniteSet(poolLedger') /\ PoolMatchesLedger'
      BY <1>0, <2>1, <2>3, PostingCounts DEF Reversals
    <2>5. EntriesAgree'
      <3>1. \A j \in Instructions, b \in Reversals \cup {"hold"} :
                Entry(j, b)' \in poolLedger' <=> Entry(j, b) \in poolLedger \/ (j = i /\ b = by)
        BY <1>2, <2>3, EntryFields
      <3>2. \A j \in Instructions : status'[j] = IF j = i THEN "failed" ELSE status[j]
        BY <1>0, <1>4 DEF Returns, TypeOK
      <3>3. status[i] \in Unsettled
        BY <1>4 DEF Returns
      <3> HIDE DEF e
      <3>4. QED
        BY <1>0, <2>1, <3>1, <3>2, <3>3 DEF EntriesAgree, Exists, Unsettled, Reversals
    <2>6. QED
      BY <2>4, <2>5 DEF BooksInv, BooksAgree
  <1>5. ASSUME NothingPosted PROVE BooksInv'
    <2>1. EntriesAgree'
      BY <1>0, <1>2, <1>5 DEF NothingPosted, EntriesAgree, Reversals
    <2>2. PoolMatchesLedger' /\ IsFiniteSet(poolLedger')
      BY <1>0, <1>5 DEF NothingPosted, PoolMatchesLedger, Total, Amount, Entries
    <2>3. QED
      BY <2>1, <2>2 DEF BooksInv, BooksAgree
  <1>6. QED
    BY <1>3, <1>4, <1>5, StepPosts

(* Rows, ledger and pool balance tell one story, for any number of pools,  *)
(* instructions and overlapping loops: every row has its debit, every      *)
(* failed row one credit, and the pool's balance is what they add up to.   *)
THEOREM BooksCorrect == Spec => []BooksAgree
  <1>1. BooksInv => BooksAgree
    BY DEF BooksInv
  <1>2. QED
    BY <1>1, BooksInit, BooksNext, RefIInv, PTL DEF Spec

-----------------------------------------------------------------------------
(* The promise's view of this module's state.                              *)
Owners  == [i \in Instructions |-> Pool(i)]
Charged == [i \in Instructions |-> IF Exists(i) THEN request[i].amount ELSE 0]
Stage   == [i \in Instructions |-> StageOf(status[i])]
Bank    == [i \in Instructions |-> BankOf(rail[i])]

LEMMA StageOfStatus ==
    /\ StageOf("absent") = "absent"
    /\ \A s \in {"pending", "processing", "requires_review"} : StageOf(s) = "held"
    /\ \A s \in {"success", "successful"} : StageOf(s) = "sent"
    /\ StageOf("failed") = "returned"
  <1>1. StageOf("absent") = "absent" /\ StageOf("failed") = "returned"
    BY DEF StageOf
  <1>2. \A s \in {"pending", "processing", "requires_review"} : StageOf(s) = "held"
    BY DEF StageOf
  <1>3. \A s \in {"success", "successful"} : StageOf(s) = "sent"
    BY DEF StageOf
  <1>4. QED
    BY <1>1, <1>2, <1>3

LEMMA RefInit == Init => Promise!Init
  <1> SUFFICES ASSUME Init PROVE Promise!Init
    OBVIOUS
  <1>1. TypeOK
    BY TypeInit
  <1>2. \A i \in Instructions :
            /\ Pool(i) \in Pools
            /\ ~ Exists(i) /\ StageOf(status[i]) = "absent" /\ BankOf(rail[i]) = "untold"
    BY <1>1, RequestType, StageOfStatus DEF Init, RailInit, Exists, BankOf
  <1>3. poolBalance \in [Pools -> {OPENING}]
    BY DEF Init
  <1>4. QED
    BY <1>2, <1>3 DEF Promise!Init

LEMMA Unseen ==
    ASSUME poolBalance' = poolBalance, request' = request,
           \A i \in Instructions : /\ StageOf(status'[i]) = StageOf(status[i])
                                   /\ Exists(i)' <=> Exists(i)
                                   /\ BankOf(rail'[i]) = BankOf(rail[i])
    PROVE  UNCHANGED Promise!vars
  <1>1. Owners' = Owners /\ Charged' = Charged
    BY DEF Owners, Charged, Pool
  <1>2. Stage' = Stage /\ Bank' = Bank
    BY DEF Stage, Bank
  <1>3. QED
    BY <1>1, <1>2 DEF Promise!vars, Owners, Charged, Stage, Bank

LEMMA CommitIsHold ==
    ASSUME IInv, SnapshotInv, NEW i \in Instructions, CommitHold(i)
    PROVE  Promise!Hold(i)
  <1>1. Pool(i) \in Pools /\ request[i].amount \in Amounts /\ request[i].amount \in Nat \ {0}
    BY RequestType DEF IInv, TypeOK, Requests
  <1>2. status[i] = "absent" /\ ~ Exists(i)
    BY DEF CommitHold, Goto, IInv, CallInv, Before, Exists
  <1>3. snap[i] = poolBalance[Pool(i)]
    BY DEF CommitHold, Goto, Serializable, SnapshotInv
  <1>4. request[i].amount <= poolBalance[Pool(i)]
        /\ poolBalance' = [poolBalance EXCEPT ![Pool(i)] = poolBalance[Pool(i)] - request[i].amount]
    <2>1. snap[i] >= request[i].amount
          /\ poolBalance' = [poolBalance EXCEPT ![Pool(i)] = snap[i] - request[i].amount]
      BY DEF CommitHold, DebitPool
    <2>2. snap[i] \in Nat
      BY RequestType DEF IInv
    <2>3. QED
      BY <1>1, <1>3, <2>1, <2>2
  <1>5. status' = [status EXCEPT ![i] = "pending"] /\ request' = request /\ rail' = rail
    BY DEF CommitHold
  <1>6. Charged' = [Charged EXCEPT ![i] = request[i].amount]
    BY <1>5 DEF Charged, Exists, IInv, TypeOK
  <1>7. \A j \in Instructions : Stage'[j] = IF j = i THEN "held" ELSE Stage[j]
    BY <1>5, StageOfStatus DEF Stage, IInv, TypeOK
  <1>8. Stage' = [Stage EXCEPT ![i] = "held"] /\ Stage[i] = "absent"
    BY <1>2, <1>7, StageOfStatus DEF Stage
  <1>9. Owners' = Owners /\ Bank' = Bank /\ Owners[i] = Pool(i)
    BY <1>5 DEF Owners, Bank, Pool
  <1>10. \E d \in Amounts :
            /\ d <= poolBalance[Owners[i]]
            /\ poolBalance' = [poolBalance EXCEPT ![Owners[i]] = poolBalance[Owners[i]] - d]
            /\ Charged' = [Charged EXCEPT ![i] = d]
    BY <1>1, <1>4, <1>6, <1>9
  <1>11. QED
    BY <1>8, <1>9, <1>10 DEF Promise!Hold, Owners, Charged, Stage, Bank

(* A conditional update of a row books it as sent, or is not seen.         *)
LEMMA MoveIsPromised ==
    ASSUME IInv, NEW i \in Instructions, NEW guard, NEW to, MoveRow(i, guard, to),
           status[i] \in guard => status[i] \in Unsettled,
           \/ to \in {"processing", "requires_review"}
           \/ to \in {"success", "successful"} /\ rail[i] \in Taken,
           request' = request, rail' = rail
    PROVE  Promise!Next \/ UNCHANGED Promise!vars
  <1>1. poolBalance' = poolBalance /\ Owners' = Owners /\ Bank' = Bank
    BY DEF MoveRow, Owners, Bank, Pool
  <1>2. CASE status[i] \notin guard
    BY <1>1, <1>2, Unseen DEF MoveRow, Exists
  <1>3. CASE status[i] \in guard /\ to \in {"processing", "requires_review"}
    <2>1. status' = [status EXCEPT ![i] = to] /\ status[i] \in Unsettled
      BY <1>3 DEF MoveRow
    <2>2. StageOf(to) = "held" /\ StageOf(status[i]) = "held" /\ to # "absent" /\ status[i] # "absent"
      BY <1>3, <2>1, StageOfStatus DEF Unsettled
    <2>3. \A j \in Instructions : /\ StageOf(status'[j]) = StageOf(status[j])
                                  /\ Exists(j)' <=> Exists(j)
      BY <2>1, <2>2 DEF Exists, IInv, TypeOK
    <2>4. QED
      BY <1>1, <2>3, Unseen
  <1>4. CASE status[i] \in guard /\ to \in {"success", "successful"} /\ rail[i] \in Taken
    <2>1. status' = [status EXCEPT ![i] = to] /\ status[i] \in Unsettled
      BY <1>4 DEF MoveRow
    <2>2. StageOf(to) = "sent" /\ StageOf(status[i]) = "held" /\ to # "absent" /\ status[i] # "absent"
      BY <1>4, <2>1, StageOfStatus DEF Unsettled
    <2>3. \A j \in Instructions : Stage'[j] = IF j = i THEN "sent" ELSE Stage[j]
      BY <2>1, <2>2 DEF Stage, IInv, TypeOK
    <2>4. Stage' = [Stage EXCEPT ![i] = "sent"] /\ Stage[i] = "held"
      BY <2>2, <2>3 DEF Stage
    <2>5. Charged' = Charged
      BY <2>1, <2>2 DEF Charged, Exists, IInv, TypeOK
    <2>6. Bank[i] \in {"accepted", "paid", "bounced"}
      BY <1>4 DEF Bank, BankOf, Taken
    <2>7. Promise!BookSent(i)
      BY <1>1, <2>4, <2>5, <2>6
      DEF Promise!BookSent, Promise!BankAccepted, Owners, Charged, Stage, Bank
    <2>8. QED
      BY <2>7 DEF Promise!Next
  <1>5. QED
    BY <1>2, <1>3, <1>4

LEMMA GiveBackIsPromised ==
    ASSUME IInv, NEW i \in Instructions, NEW guard, NEW by, GiveBack(i, guard, by),
           status[i] \in guard => status[i] \in Unsettled, rail[i] \in WillNotPay,
           request' = request, rail' = rail
    PROVE  Promise!Next \/ UNCHANGED Promise!vars
  <1>1. CASE status[i] \in guard /\ CanPost(Entry(i, by))
    <2>1. /\ status' = [status EXCEPT ![i] = "failed"] /\ status[i] \in Unsettled
          /\ poolBalance' = [poolBalance EXCEPT ![Pool(i)] = poolBalance[Pool(i)] + request[i].amount]
      BY <1>1 DEF GiveBack, CreditPool
    <2>2. Owners' = Owners /\ Bank' = Bank /\ Owners[i] = Pool(i)
      BY DEF Owners, Bank, Pool
    <2>3. Charged' = Charged /\ Charged[i] = request[i].amount
      BY <2>1 DEF Charged, Exists, Unsettled, IInv, TypeOK
    <2>4. StageOf(status[i]) = "held" /\ StageOf("failed") = "returned"
      BY <2>1, StageOfStatus DEF Unsettled
    <2>5. \A j \in Instructions : Stage'[j] = IF j = i THEN "returned" ELSE Stage[j]
      BY <2>1, <2>4 DEF Stage, IInv, TypeOK
    <2>6. Stage' = [Stage EXCEPT ![i] = "returned"] /\ Stage[i] = "held"
      BY <2>4, <2>5 DEF Stage
    <2>7. Bank[i] \in {"bounced", "refused"}
      BY DEF Bank, BankOf, WillNotPay
    <2>8. Promise!Return(i)
      BY <2>1, <2>2, <2>3, <2>6, <2>7
      DEF Promise!Return, Promise!BankDeclined, Owners, Charged, Stage, Bank
    <2>9. QED
      BY <2>8 DEF Promise!Next
  <1>2. CASE ~ (status[i] \in guard /\ CanPost(Entry(i, by)))
    BY <1>2, Unseen DEF GiveBack, books, Exists
  <1>3. QED
    BY <1>1, <1>2

LEMMA BankIsBank ==
    ASSUME IInv, NEW i \in Instructions, BankStep(i)
    PROVE  Promise!BankMoves(i)
  <1>1. poolBalance' = poolBalance /\ Owners' = Owners /\ Charged' = Charged /\ Stage' = Stage
    BY DEF BankStep, calls, books, Owners, Charged, Stage, Pool, Exists
  <1>2. Stage[i] # "absent"
    <2>1. Exists(i)
      BY DEF BankStep, RailStep, RailTakes, RailRefuses, RailPays, RailBounces, MoveRail, IInv, CallInv
    <2>2. status[i] \in {"pending", "processing", "requires_review", "success", "successful", "failed"}
      BY <2>1 DEF Exists, IInv, TypeOK, PayoutStatuses, RefundStatuses
    <2>3. QED
      BY <2>2, StageOfStatus DEF Stage
  <1>3. PICK from \in RailStates, to \in RailStates :
            /\ MoveRail(i, from, to)
            /\ <<from, to>> \in {<<"sent", "queued">>, <<"sent", "refused">>,
                                 <<"queued", "paid">>, <<"queued", "bounced">>}
    BY DEF BankStep, RailStep, RailTakes, RailRefuses, RailPays, RailBounces, RailStates
  <1>4. \A j \in Instructions : Bank'[j] = IF j = i THEN BankOf(to) ELSE Bank[j]
    BY <1>3 DEF MoveRail, Bank, IInv, TypeOK
  <1>5. Bank' = [Bank EXCEPT ![i] = BankOf(to)] /\ Bank[i] = BankOf(from)
    BY <1>3, <1>4 DEF Bank, MoveRail
  <1>6. \/ BankOf(from) = "untold" /\ BankOf(to) = "accepted"
        \/ BankOf(from) = "untold" /\ BankOf(to) = "refused"
        \/ BankOf(from) = "accepted" /\ BankOf(to) = "paid"
        \/ BankOf(from) = "accepted" /\ BankOf(to) = "bounced"
    BY <1>3 DEF BankOf
  <1>7. QED
    BY <1>1, <1>2, <1>5, <1>6 DEF Promise!BankMoves, Owners, Charged, Stage, Bank

LEMMA CallIsPromised ==
    ASSUME IInv, SnapshotInv, NEW i \in Instructions, CallStep(i)
    PROVE  Promise!Next \/ UNCHANGED Promise!vars
  <1>1. CASE CommitHold(i)
    BY <1>1, CommitIsHold DEF Promise!Next
  <1>2. CASE Records(i)
    <2>1. request' = request /\ rail' = rail
      BY <1>2, RecordsEffect DEF IInv
    <2>2. pc[i] = "settling"
      BY <1>2 DEF Records, PayoutAccepted, PayoutRejected, PayoutAmbiguous, RefundAccepted,
                  RefundRejected, RefundAmbiguous, Settle, Goto
    <2>3. (answer[i] = "accepted" => rail[i] \in Taken)
          /\ (answer[i] = "rejected" => rail[i] \in WillNotPay)
      BY <2>2 DEF IInv, AnswerInv
    <2>4. CASE PayoutAccepted(i) \/ PayoutAmbiguous(i) \/ RefundAccepted(i) \/ RefundAmbiguous(i)
      BY <2>1, <2>3, <2>4, MoveIsPromised
      DEF PayoutAccepted, PayoutAmbiguous, RefundAccepted, RefundAmbiguous, Settle, Unsettled
    <2>5. CASE PayoutRejected(i) \/ RefundRejected(i)
      BY <2>1, <2>3, <2>5, GiveBackIsPromised DEF PayoutRejected, RefundRejected, Settle, Unsettled
    <2>6. QED
      BY <1>2, <2>4, <2>5 DEF Records
  <1>3. CASE CallProvider(i)
    <2>1. \A j \in Instructions : BankOf(rail'[j]) = BankOf(rail[j])
      BY <1>3 DEF CallProvider, Instruct, MoveRail, BankOf, IInv, TypeOK
    <2>2. QED
      BY <1>3, <2>1, Unseen DEF CallProvider, books, Exists
  <1>4. CASE Lookup(i) \/ FindPool(i) \/ BeginHold(i) \/ AbortHold(i) \/ ProviderAnswers(i) \/ CrashCall(i)
    BY <1>4, Unseen DEF Lookup, FindPool, BeginHold, AbortHold, ProviderAnswers, CrashCall, books, Exists
  <1>5. QED
    BY <1>1, <1>2, <1>3, <1>4 DEF CallStep, Records, HoldForPayout, HoldForRefund

LEMMA LoopIsPromised ==
    ASSUME IInv, NEW l \in Loops, LoopStep(l)
    PROVE  Promise!Next \/ UNCHANGED Promise!vars
  <1>1. CASE Resolves(l)
    <2>1. target[l] \in Instructions /\ loopPc[l] = "resolving" /\ request' = request /\ rail' = rail
      BY <1>1, ResolvesEffect DEF IInv
    <2>2. (told[l] = "success" => rail[target[l]] \in Taken)
          /\ (told[l] = "failed" => rail[target[l]] \in WillNotPay)
      BY <2>1 DEF IInv, AnswerInv
    <2>3. seen[l][target[l]] \in Unsettled \cup {"skip"} /\ status[target[l]] # "skip"
      BY <2>1 DEF IInv, TypeOK, Unsettled, PayoutStatuses, RefundStatuses
    <2>4. CASE ResolveSuccess(l)
      BY <2>1, <2>2, <2>4, MoveIsPromised
      DEF ResolveSuccess, ResolvePayoutAsSuccess, ResolveRefundAsSuccess, RecoverableRefund, Resolve,
          Unsettled
    <2>5. CASE ResolveFailed(l)
      BY <2>1, <2>2, <2>5, GiveBackIsPromised
      DEF ResolveFailed, ResolvePayoutAsFailed, ResolveRefundAsFailed, RecoverableRefund, Resolve,
          Unsettled
    <2>6. CASE ResolveUnknown(l)
      BY <2>1, <2>3, <2>6, MoveIsPromised
      DEF ResolveUnknown, FlagPayoutForReview, FlagRefundForReview, Resolve, Unsettled
    <2>7. QED
      BY <1>1, <2>4, <2>5, <2>6 DEF Resolves
  <1>2. CASE ~ Resolves(l)
    BY <1>2, Unseen DEF LoopStep, Resolves, ListStuckPayouts, ListStuckRefunds, List, AskStatus,
                        EndLoop, CrashLoop, calls, books, Exists
  <1>3. QED
    BY <1>1, <1>2

LEMMA RefNext ==
    ASSUME IInv, SnapshotInv, [Next]_vars
    PROVE  [Promise!Next]_(Promise!vars)
  <1>1. CASE UNCHANGED vars
    BY <1>1, Unseen DEF vars, calls, books, Exists
  <1>2. ASSUME NEW i \in Instructions, BankStep(i)
        PROVE  Promise!Next
    BY <1>2, BankIsBank DEF Promise!Next
  <1>3. QED
    BY <1>1, <1>2, CallIsPromised, LoopIsPromised DEF Next

(* Payouts, refunds and their recovery keep the promise of Outbound: take  *)
(* the money out of the pool before instructing, book as sent only what    *)
(* the bank took, give back once, in full, only what it will never pay.    *)
THEOREM PromiseKept == Spec => KeepsPromise
  BY RefInit, RefNext, RefIInv, PTL DEF Spec, KeepsPromise, Promise!Spec
-----------------------------------------------------------------------------
(* What the promise implies, carried over.                                 *)

Outgoing == INSTANCE OutboundProofs WITH
    Purses  <- Pools,
    Costs   <- Amounts,
    Opening <- {OPENING},
    purse   <- poolBalance,
    owner   <- [i \in Instructions |-> Pool(i)],
    cost    <- [i \in Instructions |-> IF Exists(i) THEN request[i].amount ELSE 0],
    stage   <- [i \in Instructions |-> StageOf(status[i])],
    bank    <- [i \in Instructions |-> BankOf(rail[i])]

(* A partner is never given back what the bank pays or has paid, what is   *)
(* booked as sent the bank has accepted, and a pool is short of its        *)
(* opening balance by exactly the payouts and refunds under way, in an     *)
(* operator's hands or done, in every state.                               *)
THEOREM PromiseCarries == Spec => [](Outgoing!NothingGivenAway /\ Outgoing!NothingIsLost)
  <1>1. Outgoing!MoneyIsNatural
    BY PoolAmountsArePositive DEF Outgoing!MoneyIsNatural
  <1>2. Outgoing!Spec => []Outgoing!NothingGivenAway /\ []Outgoing!NothingIsLost
    BY <1>1, Outgoing!PromiseIsSafe, Outgoing!PursesAreAccountedFor
  <1>3. KeepsPromise => Outgoing!Spec
    <2>1. Promise!Init <=> Outgoing!Init
      BY Zenon DEF Promise!Init, Outgoing!Init
    <2>2. [Promise!Next]_(Promise!vars) <=> [Outgoing!Next]_(Outgoing!vars)
      BY Zenon DEF Promise!Hold, Outgoing!Hold, Promise!BookSent, Outgoing!BookSent, Promise!Return,
             Outgoing!Return, Promise!BankMoves, Outgoing!BankMoves, Promise!BankAccepted,
             Outgoing!BankAccepted, Promise!BankDeclined, Outgoing!BankDeclined, Promise!vars,
             Outgoing!vars, Promise!Next, Outgoing!Next
    <2> QED BY <2>1, <2>2, PTL DEF KeepsPromise, Promise!Spec, Outgoing!Spec
  <1> QED BY <1>2, <1>3, PromiseKept, PTL
=============================================================================
