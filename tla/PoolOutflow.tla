----------------------------- MODULE PoolOutflow -----------------------------
(***************************************************************************)
(* Money a partner moves out of its settlement pool: payouts               *)
(* (modules/payout) and refunds (modules/refund), the pool and its ledger, *)
(* and the two loops of the recovery job that look after them.             *)
(*                                                                         *)
(* Both services take the amount out of the pool in one transaction, then  *)
(* tell the bank, then record what it answered; what is common to them is  *)
(* written once and each service's own steps say where it differs.  An     *)
(* instruction is one call of processPayout or processRefund and the row   *)
(* it creates.  Calls, loops and the bank interleave at every await, and a *)
(* call or a loop can die at each.                                         *)
(***************************************************************************)
EXTENDS Integers, FiniteSets, Functions, BankRail

CONSTANTS Pools, Keys, Amounts,
          PayoutLoops, RefundLoops,   \* overlapping runs of the recovery loops
          OPENING                     \* what each pool holds at the start

ASSUME PoolAmountsArePositive == Amounts \subseteq Nat \ {0} /\ OPENING \in Nat
ASSUME LoopsDiffer == PayoutLoops \cap RefundLoops = {}

VARIABLES
    request,      \* what each call asks for
    pc,           \* where each call is
    snap,         \* the pool balance its open transaction has read
    overtaken,    \* open transactions whose pool has been written since
    answer,       \* the provider's answer a call is about to record
    poolBalance,  \* SettlementPool.poolBalance
    status,       \* Payout.status, Refund.status
    poolLedger,   \* PoolLedgerEntry rows
    loopPc,       \* where each recovery loop is
    seen,         \* the status each row had when the loop listed it
    target,       \* the row the loop is working on
    told          \* the provider's answer about it

calls == <<request, pc, snap, overtaken, answer>>
books == <<poolBalance, status, poolLedger>>
job   == <<loopPc, seen, target, told>>
vars  == <<calls, books, job, rail>>

Loops    == PayoutLoops \cup RefundLoops
Requests == [kind: {"payout", "refund"}, pool: Pools, key: Keys, amount: Amounts]

PayoutStatuses == {"absent", "pending", "success", "failed", "requires_review"}
RefundStatuses == {"absent", "pending", "processing", "successful", "failed", "requires_review"}

NothingListed == [i \in Instructions |-> "skip"]

Kind(i) == request[i].kind
Pool(i) == request[i].pool
Exists(i) == status[i] # "absent"

-----------------------------------------------------------------------------
(* The pool and its ledger.                                                *)

(* An entry's reference is the row's _id, with a suffix for a reversal     *)
(* that says whether the service or the recovery job posted it.            *)
Entry(i, by) == [ref |-> i, by |-> by, pool |-> Pool(i), amount |-> request[i].amount]

(* The pool ledger's unique index.                                         *)
CanPost(e) == ~ \E l \in poolLedger : l.ref = e.ref /\ l.by = e.by /\ l.pool = e.pool

(* Every transaction on pool q that is open when q is written.             *)
Overtake(q, by) ==
    (overtaken \ {by}) \cup {j \in Instructions \ {by} : pc[j] = "debiting" /\ Pool(j) = q}

(* Mutant: the entry is posted but the pool's own total is not touched.    *)
LedgerOnly(i) == poolBalance

CreditPool(i) == [poolBalance EXCEPT ![Pool(i)] = @ + request[i].amount]

(* A conditional update of the row's status.                               *)
MoveRow(i, guard, to) ==
    /\ status' = IF status[i] \in guard THEN [status EXCEPT ![i] = to] ELSE status
    /\ UNCHANGED <<poolBalance, poolLedger, overtaken>>

(* The reversal transaction: row, ledger and pool together, or nothing.    *)
GiveBack(i, guard, by) ==
    IF status[i] \in guard /\ CanPost(Entry(i, by))
      THEN /\ status' = [status EXCEPT ![i] = "failed"]
           /\ poolLedger' = poolLedger \cup {Entry(i, by)}
           /\ poolBalance' = CreditPool(i)
           /\ overtaken' = Overtake(Pool(i), i)
      ELSE UNCHANGED <<books, overtaken>>

-----------------------------------------------------------------------------
(* processPayout and processRefund up to the provider's answer.            *)

Goto(i, from, to) ==
    /\ pc[i] = from
    /\ pc' = [pc EXCEPT ![i] = to]

KeyTaken(i) ==
    \E j \in Instructions : Exists(j) /\ Kind(j) = Kind(i) /\ request[j].key = request[i].key

Lookup(i) ==
    /\ Goto(i, "received", IF KeyTaken(i) THEN "done" ELSE "routing")
    /\ UNCHANGED <<request, snap, overtaken, answer, books, job, rail>>

(* The partner's active pool is looked up; there may be none.              *)
FindPool(i) ==
    /\ \E next \in {"opening", "done"} : Goto(i, "routing", next)
    /\ UNCHANGED <<request, snap, overtaken, answer, books, job, rail>>

BeginHold(i) ==
    /\ Goto(i, "opening", "debiting")
    /\ snap' = [snap EXCEPT ![i] = poolBalance[Pool(i)]]
    /\ overtaken' = overtaken \ {i}
    /\ UNCHANGED <<request, answer, books, job, rail>>

Serializable(i) == i \notin overtaken

(* Mutant: the unique index on idempotencyKey is missing.                  *)
NoUniqueIndex(i) == TRUE

KeyFree(i) == ~ KeyTaken(i)

DebitPool(i) == [poolBalance EXCEPT ![Pool(i)] = snap[i] - request[i].amount]

(* Row, ledger entry and pool debit commit together.                       *)
CommitHold(i) ==
    /\ Serializable(i)
    /\ KeyFree(i)
    /\ snap[i] >= request[i].amount
    /\ Goto(i, "debiting", "calling")
    /\ status' = [status EXCEPT ![i] = "pending"]
    /\ poolLedger' = poolLedger \cup {Entry(i, "hold")}
    /\ poolBalance' = DebitPool(i)
    /\ snap' = [snap EXCEPT ![i] = 0]
    /\ overtaken' = Overtake(Pool(i), i)
    /\ UNCHANGED <<request, answer, job, rail>>

HoldForPayout(i) == Kind(i) = "payout" /\ CommitHold(i)
HoldForRefund(i) == Kind(i) = "refund" /\ CommitHold(i)

(* Insufficient funds, a key taken meanwhile, a write conflict, any error. *)
AbortHold(i) ==
    /\ Goto(i, "debiting", "done")
    /\ snap' = [snap EXCEPT ![i] = 0]
    /\ overtaken' = overtaken \ {i}
    /\ UNCHANGED <<request, answer, books, job, rail>>

CallProvider(i) ==
    /\ Goto(i, "calling", "waiting")
    /\ Instruct(i)
    /\ UNCHANGED <<request, snap, overtaken, answer, books, job>>

ProviderAnswers(i) ==
    /\ Goto(i, "waiting", "settling")
    /\ \E a \in InitiateAnswers(i) : answer' = [answer EXCEPT ![i] = a]
    /\ UNCHANGED <<request, snap, overtaken, books, job, rail>>

-----------------------------------------------------------------------------
(* Recording the answer.                                                   *)

Settle(i, kind, a) ==
    /\ Kind(i) = kind
    /\ answer[i] = a
    /\ Goto(i, "settling", "done")
    /\ answer' = [answer EXCEPT ![i] = "none"]
    /\ UNCHANGED <<request, snap, job, rail>>

(* Mutant: payout.save(), which overwrites whatever the row has become.    *)
SaveBlindly(i) == Settle(i, "payout", "accepted") /\ MoveRow(i, PayoutStatuses, "success")

PayoutAccepted(i) == Settle(i, "payout", "accepted") /\ MoveRow(i, {"pending"}, "success")

PayoutRejected(i) ==
    Settle(i, "payout", "rejected") /\ GiveBack(i, {"pending"}, "service_reversal")

PayoutAmbiguous(i) ==
    Settle(i, "payout", "ambiguous") /\ MoveRow(i, {"pending"}, "requires_review")

RefundAccepted(i) == Settle(i, "refund", "accepted") /\ MoveRow(i, {"pending"}, "processing")

RefundRejected(i) ==
    Settle(i, "refund", "rejected") /\ GiveBack(i, {"pending"}, "service_reversal")

RefundAmbiguous(i) ==
    Settle(i, "refund", "ambiguous") /\ MoveRow(i, {"pending"}, "requires_review")

(* The process dies, or a database error escapes the handler.              *)
CrashCall(i) ==
    /\ pc[i] \in {"calling", "waiting", "settling"}
    /\ pc' = [pc EXCEPT ![i] = "done"]
    /\ answer' = [answer EXCEPT ![i] = "none"]
    /\ UNCHANGED <<request, snap, overtaken, books, job, rail>>

CallStep(i) ==
    \/ Lookup(i) \/ FindPool(i) \/ BeginHold(i)
    \/ HoldForPayout(i) \/ HoldForRefund(i) \/ AbortHold(i)
    \/ CallProvider(i) \/ ProviderAnswers(i)
    \/ PayoutAccepted(i) \/ PayoutRejected(i) \/ PayoutAmbiguous(i)
    \/ RefundAccepted(i) \/ RefundRejected(i) \/ RefundAmbiguous(i)
    \/ CrashCall(i)

-----------------------------------------------------------------------------
(* The recovery job: resolveStuckPayouts and resolveStuckRefunds, which    *)
(* runOnce starts together and nothing keeps from overlapping themselves.  *)

List(l, kind, guard) ==
    /\ loopPc[l] = "idle"
    /\ loopPc' = [loopPc EXCEPT ![l] = "scanning"]
    /\ seen' = [seen EXCEPT ![l] =
                  [i \in Instructions |->
                     IF Kind(i) = kind /\ status[i] \in guard THEN status[i] ELSE "skip"]]
    /\ UNCHANGED <<calls, books, target, told, rail>>

(* Mutant: a refund already given back is recovered again.                 *)
RecoverableOrFailed == {"pending", "processing", "failed"}

RecoverableRefund == {"pending", "processing"}

ListStuckPayouts(l) == l \in PayoutLoops /\ List(l, "payout", {"pending"})
ListStuckRefunds(l) == l \in RefundLoops /\ List(l, "refund", RecoverableRefund)

AskStatus(l, i) ==
    /\ loopPc[l] = "scanning"
    /\ seen[l][i] # "skip"
    /\ loopPc' = [loopPc EXCEPT ![l] = "resolving"]
    /\ target' = [target EXCEPT ![l] = i]
    /\ \E s \in StatusAnswers(i) : told' = [told EXCEPT ![l] = s]
    /\ UNCHANGED <<calls, books, seen, rail>>

(* The row is dealt with; the loop goes on to the next one.                *)
Resolve(l, kind, s) ==
    /\ loopPc[l] = "resolving"
    /\ Kind(target[l]) = kind
    /\ told[l] = s
    /\ loopPc' = [loopPc EXCEPT ![l] = "scanning"]
    /\ seen' = [seen EXCEPT ![l][target[l]] = "skip"]
    /\ target' = [target EXCEPT ![l] = "none"]
    /\ told' = [told EXCEPT ![l] = "none"]
    /\ UNCHANGED <<request, pc, snap, answer, rail>>

ResolvePayoutAsSuccess(l) ==
    Resolve(l, "payout", "success") /\ MoveRow(target[l], {"pending"}, "success")

ResolvePayoutAsFailed(l) ==
    Resolve(l, "payout", "failed") /\ GiveBack(target[l], {"pending"}, "recovery_reversal")

(* Mutant: a payout the provider knows nothing of is left as it is.        *)
LeaveUnknown(l) == Resolve(l, "payout", "unknown") /\ UNCHANGED <<books, overtaken>>

FlagPayoutForReview(l) ==
    Resolve(l, "payout", "unknown") /\ MoveRow(target[l], {"pending"}, "requires_review")

(* Mutant: the payout loop's word for success, which no refund has.        *)
PayoutWord(l) ==
    Resolve(l, "refund", "success") /\ MoveRow(target[l], RecoverableRefund, "success")

ResolveRefundAsSuccess(l) ==
    Resolve(l, "refund", "success") /\ MoveRow(target[l], RecoverableRefund, "successful")

ResolveRefundAsFailed(l) ==
    Resolve(l, "refund", "failed") /\ GiveBack(target[l], RecoverableRefund, "recovery_reversal")

(* Guarded by the status the row had when the loop listed it.              *)
FlagRefundForReview(l) ==
    Resolve(l, "refund", "unknown") /\ MoveRow(target[l], {seen[l][target[l]]}, "requires_review")

EndLoop(l) ==
    /\ loopPc[l] = "scanning"
    /\ seen[l] = NothingListed
    /\ loopPc' = [loopPc EXCEPT ![l] = "idle"]
    /\ UNCHANGED <<calls, books, seen, target, told, rail>>

(* The process dies, or an error ends the loop (runOnce rejects).          *)
CrashLoop(l) ==
    /\ loopPc[l] # "idle"
    /\ loopPc' = [loopPc EXCEPT ![l] = "idle"]
    /\ seen' = [seen EXCEPT ![l] = NothingListed]
    /\ target' = [target EXCEPT ![l] = "none"]
    /\ told' = [told EXCEPT ![l] = "none"]
    /\ UNCHANGED <<calls, books, rail>>

ResolveSuccess(l) == ResolvePayoutAsSuccess(l) \/ ResolveRefundAsSuccess(l)
ResolveFailed(l)  == ResolvePayoutAsFailed(l) \/ ResolveRefundAsFailed(l)
ResolveUnknown(l) == FlagPayoutForReview(l) \/ FlagRefundForReview(l)

LoopStep(l) ==
    \/ ListStuckPayouts(l) \/ ListStuckRefunds(l)
    \/ \E i \in Instructions : AskStatus(l, i)
    \/ ResolveSuccess(l) \/ ResolveFailed(l) \/ ResolveUnknown(l)
    \/ EndLoop(l) \/ CrashLoop(l)

-----------------------------------------------------------------------------
Init ==
    /\ request \in [Instructions -> Requests]
    /\ pc = [i \in Instructions |-> "received"]
    /\ snap = [i \in Instructions |-> 0]
    /\ overtaken = {}
    /\ answer = [i \in Instructions |-> "none"]
    /\ poolBalance = [q \in Pools |-> OPENING]
    /\ status = [i \in Instructions |-> "absent"]
    /\ poolLedger = {}
    /\ loopPc = [l \in Loops |-> "idle"]
    /\ seen = [l \in Loops |-> NothingListed]
    /\ target = [l \in Loops |-> "none"]
    /\ told = [l \in Loops |-> "none"]
    /\ RailInit

BankStep(i) == RailStep(i) /\ UNCHANGED <<calls, books, job>>

Next ==
    \/ \E i \in Instructions : CallStep(i) \/ BankStep(i)
    \/ \E l \in Loops : LoopStep(l)

Spec == Init /\ [][Next]_vars

(***************************************************************************)
(* The scheduler starts both loops every five minutes, whatever became of  *)
(* the run before; crashes do not for ever pick the same row and answer.   *)
(* Nothing is assumed of the calls, which may stop anywhere, nor of the    *)
(* bank.                                                                   *)
(***************************************************************************)
RecoveryRuns ==
    \A l \in Loops :
        /\ WF_vars(ListStuckPayouts(l) \/ ListStuckRefunds(l) \/ EndLoop(l))
        /\ \A i \in Instructions :
              /\ SF_vars(AskStatus(l, i))
              /\ SF_vars(target[l] = i /\ ResolveSuccess(l))
              /\ SF_vars(target[l] = i /\ ResolveFailed(l))
              /\ SF_vars(target[l] = i /\ ResolveUnknown(l))

FairSpec == Spec /\ RecoveryRuns

-----------------------------------------------------------------------------
(* Properties.                                                             *)

(* Every variable holds a value of its kind: a payout never takes a        *)
(* refund's status or the reverse, and no pool is ever overdrawn.          *)
TypeOK ==
    /\ request \in [Instructions -> Requests]
    /\ pc \in [Instructions -> {"received", "routing", "opening", "debiting", "calling",
                                "waiting", "settling", "done"}]
    /\ snap \in [Instructions -> Nat]
    /\ overtaken \subseteq Instructions
    /\ answer \in [Instructions -> {"none", "accepted", "rejected", "ambiguous"}]
    /\ poolBalance \in [Pools -> Nat]
    /\ status \in [Instructions -> PayoutStatuses \cup RefundStatuses]
    /\ \A i \in Instructions :
          status[i] \in (IF Kind(i) = "payout" THEN PayoutStatuses ELSE RefundStatuses)
    /\ poolLedger \subseteq [ref : Instructions, pool : Pools, amount : Nat \ {0},
                             by : {"hold", "service_reversal", "recovery_reversal"}]
    /\ loopPc \in [Loops -> {"idle", "scanning", "resolving"}]
    /\ seen \in [Loops -> [Instructions -> {"skip", "pending", "processing"}]]
    /\ target \in [Loops -> Instructions \cup {"none"}]
    /\ \A l \in Loops : loopPc[l] = "resolving" => target[l] \in Instructions
    /\ told \in [Loops -> {"none", "success", "failed", "unknown"}]
    /\ rail \in [Instructions -> RailStates]

Booked == {"success", "processing", "successful"}

(* The pool gets its money back only for an instruction the bank will      *)
(* never pay, and an instruction is booked as under way or done only when  *)
(* the bank has taken it, whatever order answers, loops and bank act in.   *)
OutcomeMatchesRail ==
    \A i \in Instructions :
        /\ status[i] = "failed" => rail[i] \in WillNotPay
        /\ status[i] \in Booked => rail[i] \in Taken

(* The pool ledger tells the same story as the rows: one debit for each    *)
(* row, and one credit for each failed row, by the service or by the       *)
(* recovery job but never by both (their entries have different            *)
(* references, so the unique index would not stop the second).             *)
EntriesAgree ==
    \A i \in Instructions :
        LET posted(by) == Entry(i, by) \in poolLedger IN
        /\ posted("hold") <=> Exists(i)
        /\ (posted("service_reversal") \/ posted("recovery_reversal")) <=> status[i] = "failed"
        /\ ~ (posted("service_reversal") /\ posted("recovery_reversal"))

Amount(e)  == IF e.by = "hold" THEN - e.amount ELSE e.amount
Total(L)   == SumFunctionOnSet([e \in L |-> Amount(e)], L)
Entries(q) == {e \in poolLedger : e.pool = q}

(* The cached pool balance is what the pool ledger adds up to, as          *)
(* reconcilePools checks, with holds and reversals of both services and of *)
(* both recovery loops in flight on one pool.                              *)
PoolMatchesLedger == \A q \in Pools : poolBalance[q] = OPENING + Total(Entries(q))

(* Rows, pool ledger and pool balance tell one story.                      *)
BooksAgree == EntriesAgree /\ PoolMatchesLedger

(* A retried payout or refund instruction, same key, never takes the money *)
(* out of the pool twice.                                                  *)
OneInstructionPerKey ==
    \A i, j \in Instructions :
        /\ Exists(i) /\ Exists(j)
        /\ Kind(i) = Kind(j) /\ request[i].key = request[j].key
        => i = j

(* No late answer and no second loop moves a row that is settled or has    *)
(* been handed to an operator, nor takes a refund the bank has accepted    *)
(* back to pending.                                                        *)
OutcomeIsFinal ==
    [][\A i \in Instructions :
          /\ status[i] \in {"success", "successful", "failed", "requires_review"}
                => status'[i] = status[i]
          /\ Exists(i) => status'[i] \notin {"absent", "pending"} \/ status'[i] = status[i]]_vars

(* A payout or refund whose call has died does not stay open: some run of  *)
(* its loop settles it or hands it to an operator.                         *)
NothingStaysPending ==
    \A i \in Instructions :
        status[i] \in {"pending", "processing"} ~> status[i] \notin {"pending", "processing"}

-----------------------------------------------------------------------------
(* Payouts and refunds keep the promise of every outbound movement, their  *)
(* purse the partner's pool.                                               *)

StageOf(s) == CASE s = "absent" -> "absent"
                [] s \in {"pending", "processing", "requires_review"} -> "held"
                [] s \in {"success", "successful"} -> "sent"
                [] s = "failed" -> "returned"

BankOf(r) == CASE r \in {"none", "sent"} -> "untold"
               [] r = "queued"  -> "accepted"
               [] r = "paid"    -> "paid"
               [] r = "bounced" -> "bounced"
               [] r = "refused" -> "refused"

Promise == INSTANCE Outbound WITH
    Purses  <- Pools,
    Costs   <- Amounts,
    Opening <- {OPENING},
    purse   <- poolBalance,
    owner   <- [i \in Instructions |-> Pool(i)],
    cost    <- [i \in Instructions |-> IF Exists(i) THEN request[i].amount ELSE 0],
    stage   <- [i \in Instructions |-> StageOf(status[i])],
    bank    <- [i \in Instructions |-> BankOf(rail[i])]

(* Every behaviour of the two services and their recovery is one the       *)
(* promise allows; in particular a refund that is processing can still be  *)
(* given back, one that is successful cannot.                              *)
KeepsPromise == Promise!Spec
=============================================================================
