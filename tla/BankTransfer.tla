---------------------------- MODULE BankTransfer ----------------------------
(***************************************************************************)
(* Customer "To Bank" transfers: modules/bankTransfer/bankTransfer.service *)
(* with the wallet, ledger and history rows it writes and the part of the  *)
(* recovery job that settles transfers left open.                          *)
(*                                                                         *)
(* An instruction stands for one call of initiate() and for the            *)
(* BankTransfer row that call creates; its id is the reference the bank    *)
(* knows the transfer by.  A call advances through pc with one step per    *)
(* database operation or provider call, so that any other call, any        *)
(* recovery pass and the bank can run between two of its awaits, and it    *)
(* can die at each of them.  A database transaction is a begin step that   *)
(* takes the snapshot and a commit step that fails when another            *)
(* transaction has written the same wallet in between (MongoDB's           *)
(* WriteConflict).                                                         *)
(*                                                                         *)
(* One calendar day is modelled: the free allowance and the daily limit    *)
(* count every row.  STALE_THRESHOLD_MS is taken as already elapsed, the   *)
(* worst case for the handlers the recovery job races with.                *)
(***************************************************************************)
EXTENDS Integers, FiniteSets, Functions, BankRail

CONSTANTS Users, Keys,
          Amounts,        \* whole-naira amounts that pass the format checks
          Passes,         \* recovery passes that may overlap
          FEE, FREE_PER_DAY,
          DAILY_LIMIT,    \* maxDailyOutbound of the customer's tier
          OPENING         \* each wallet's balance when the day starts

ASSUME AmountsArePositive ==
    /\ Amounts \subseteq Nat \ {0}
    /\ FEE \in Nat /\ FREE_PER_DAY \in Nat /\ OPENING \in Nat /\ DAILY_LIMIT \in Nat

VARIABLES
    request,    \* what each call asks for
    pc,         \* where each call is
    snap,       \* what its open database transaction has read
    overtaken,  \* open transactions whose wallet has been written since
    answer,     \* the provider's answer a call is about to settle
    balance,    \* Wallet.balance
    status,     \* BankTransfer.status
    fee,        \* BankTransfer.fee
    history,    \* Transaction.status of the customer-facing row
    ledger,     \* LedgerEntry rows
    jobPc,      \* where each recovery pass is
    seen,       \* the status each row had when the pass listed it
    target,     \* the row the pass is working on
    told        \* the provider's answer about it

calls == <<request, pc, snap, overtaken, answer>>
books == <<balance, status, fee, history, ledger>>
job   == <<jobPc, seen, target, told>>
vars  == <<calls, books, job, rail>>

Statuses == {"absent", "pending", "success", "failed", "requires_review"}
Requests == [user: Users, key: Keys, amount: Amounts]
Legs     == {"amount", "fee"}

NoSnapshot    == [balance |-> 0, fee |-> 0]
NothingListed == [i \in Instructions |-> "skip"]

User(i)  == request[i].user
Total(i) == request[i].amount + fee[i]

Entry(i, leg, type, amount) ==
    [ref |-> i, leg |-> leg, type |-> type, wallet |-> User(i), amount |-> amount]

(* One entry for the amount and, when there is a fee, one for the fee.     *)
Entries(i, type, f) ==
    {Entry(i, "amount", type, request[i].amount)}
        \cup (IF f > 0 THEN {Entry(i, "fee", type, f)} ELSE {})

(* The ledger's unique index (sourceType, sourceRef, wallet, direction).   *)
CanPost(entries) ==
    \A e \in entries, l \in ledger :
        ~ (l.type = e.type /\ l.ref = e.ref /\ l.leg = e.leg /\ l.wallet = e.wallet)

-----------------------------------------------------------------------------
(* Reads.                                                                  *)

Exists(i) == status[i] # "absent"

KeyTaken(i) ==
    \E j \in Instructions : /\ Exists(j)
                            /\ request[j].user = User(i)
                            /\ request[j].key = request[i].key

COUNTS_AGAINST_FREE_ALLOWANCE == {"pending", "success", "requires_review"}

UsedToday(u) ==
    Cardinality({j \in Instructions : /\ User(j) = u
                                      /\ status[j] \in COUNTS_AGAINST_FREE_ALLOWANCE})

FreeRemaining(u) ==
    IF UsedToday(u) < FREE_PER_DAY THEN FREE_PER_DAY - UsedToday(u) ELSE 0

(* The history rows the daily limit adds up.                               *)
SentToday(u) ==
    SumFunctionOnSet([j \in Instructions |-> request[j].amount],
                     {j \in Instructions : /\ User(j) = u
                                           /\ history[j] \in {"success", "pending"}})

-----------------------------------------------------------------------------
(* The three guarded transitions, shared by initiate and the recovery job. *)

(* Mutant: a late "accepted" may settle a transfer already given back.     *)
OpenOrFailed == {"pending", "requires_review", "failed"}

Open == {"pending", "requires_review"}

(* Every transaction of u that is open when u's wallet is written.         *)
Overtake(u, by) ==
    (overtaken \ {by}) \cup {j \in Instructions \ {by} : pc[j] = "debiting" /\ User(j) = u}

MarkSuccess(i) ==
    /\ status' = IF status[i] \in Open THEN [status EXCEPT ![i] = "success"] ELSE status
    /\ UNCHANGED <<balance, fee, history, ledger, overtaken>>

FlagForReview(i) ==
    /\ status' = IF status[i] = "pending" THEN [status EXCEPT ![i] = "requires_review"] ELSE status
    /\ UNCHANGED <<balance, fee, history, ledger, overtaken>>

(* Mutant: the reversal forgets the entry for the fee.                     *)
ReversalPostsAmountOnly(i) == {Entry(i, "amount", "reversal", request[i].amount)}

ReversalEntries(i) == Entries(i, "reversal", fee[i])

(* Mutant: the customer is not given the fee back.                         *)
ReversalPaysAmountOnly(i) == request[i].amount

ReversalPays(i) == Total(i)

(* One database transaction; without the guard it aborts, writing nothing. *)
Reverse(i) ==
    LET credits == ReversalEntries(i) IN
    /\ IF status[i] \in Open /\ CanPost(credits)
         THEN /\ status'  = [status EXCEPT ![i] = "failed"]
              /\ balance' = [balance EXCEPT ![User(i)] = @ + ReversalPays(i)]
              /\ ledger'  = ledger \cup credits
              /\ history' = [history EXCEPT ![i] = "failed"]
              /\ overtaken' = Overtake(User(i), i)
         ELSE UNCHANGED <<status, balance, ledger, history, overtaken>>
    /\ UNCHANGED fee

(* The second, separate write of markSuccess.                              *)
AnnotateHistory(i) ==
    /\ history' = [history EXCEPT ![i] = "success"]
    /\ UNCHANGED <<balance, status, fee, ledger>>

-----------------------------------------------------------------------------
(* initiate().                                                             *)

Goto(i, from, to) ==
    /\ pc[i] = from
    /\ pc' = [pc EXCEPT ![i] = to]

Lookup(i) ==
    /\ Goto(i, "received", IF KeyTaken(i) THEN "done" ELSE "validating")
    /\ UNCHANGED <<request, snap, overtaken, answer, books, job, rail>>

(* Account not active, over the single-transfer limit, unknown bank or     *)
(* account: refused before anything is written.                            *)
Refuse(i) ==
    /\ Goto(i, "validating", "done")
    /\ UNCHANGED <<request, snap, overtaken, answer, books, job, rail>>

CheckDailyLimit(i) ==
    /\ Goto(i, "validating",
            IF SentToday(User(i)) + request[i].amount > DAILY_LIMIT THEN "done" ELSE "opening")
    /\ UNCHANGED <<request, snap, overtaken, answer, books, job, rail>>

(* startTransaction: the snapshot holds the wallet and today's transfers.  *)
BeginDebit(i) ==
    /\ Goto(i, "opening", "debiting")
    /\ snap' = [snap EXCEPT ![i] =
                  [balance |-> balance[User(i)],
                   fee |-> IF UsedToday(User(i)) >= FREE_PER_DAY THEN FEE ELSE 0]]
    /\ overtaken' = overtaken \ {i}
    /\ UNCHANGED <<request, answer, books, job, rail>>

(* Mutant: no conflict on the wallet row.                                  *)
NoWriteConflict(i) == TRUE

Serializable(i) == i \notin overtaken

(* Mutant: the unique index on (user, idempotencyKey) is missing.          *)
NoUniqueIndex(i) == TRUE

KeyFree(i) == ~ KeyTaken(i)

(* Mutant: the balance is compared with the amount alone.                  *)
CoversAmountOnly(i) == snap[i].balance >= request[i].amount

Covers(i) == snap[i].balance >= request[i].amount + snap[i].fee

CommitDebit(i) ==
    LET f == snap[i].fee IN
    /\ Serializable(i)
    /\ KeyFree(i)
    /\ Covers(i)
    /\ Goto(i, "debiting", "calling")
    /\ balance' = [balance EXCEPT ![User(i)] = snap[i].balance - (request[i].amount + f)]
    /\ status'  = [status EXCEPT ![i] = "pending"]
    /\ fee'     = [fee EXCEPT ![i] = f]
    /\ history' = [history EXCEPT ![i] = "pending"]
    /\ ledger'  = ledger \cup Entries(i, "payout", f)
    /\ snap' = [snap EXCEPT ![i] = NoSnapshot]
    /\ overtaken' = Overtake(User(i), i)
    /\ UNCHANGED <<request, answer, job, rail>>

(* Insufficient balance, a key taken meanwhile (the winner is returned), a *)
(* write conflict, or any database error: the transaction leaves nothing.  *)
AbortDebit(i) ==
    /\ Goto(i, "debiting", "done")
    /\ snap' = [snap EXCEPT ![i] = NoSnapshot]
    /\ overtaken' = overtaken \ {i}
    /\ UNCHANGED <<request, answer, books, job, rail>>

CallProvider(i) ==
    /\ Goto(i, "calling", "waiting")
    /\ Instruct(i)
    /\ UNCHANGED <<request, snap, overtaken, answer, books, job>>

ProviderAnswers(i) ==
    /\ Goto(i, "waiting", "settling")
    /\ \E a \in InitiateAnswers(i) : answer' = [answer EXCEPT ![i] = a]
    /\ UNCHANGED <<request, snap, overtaken, books, job, rail>>

(* A local variable of the call, gone when the call moves on.              *)
ForgetAnswer(i) == answer' = [answer EXCEPT ![i] = "none"]

SettleAccepted(i) ==
    /\ answer[i] = "accepted"
    /\ Goto(i, "settling", IF status[i] \in Open THEN "annotating" ELSE "done")
    /\ MarkSuccess(i)
    /\ ForgetAnswer(i)
    /\ UNCHANGED <<request, snap, job, rail>>

SettleRejected(i) ==
    /\ answer[i] = "rejected"
    /\ Goto(i, "settling", "done")
    /\ Reverse(i)
    /\ ForgetAnswer(i)
    /\ UNCHANGED <<request, snap, job, rail>>

(* Mutant: a timed-out transfer is given back at once.                     *)
ReverseOnAmbiguous(i) ==
    /\ answer[i] = "ambiguous"
    /\ Goto(i, "settling", "done")
    /\ Reverse(i)
    /\ ForgetAnswer(i)
    /\ UNCHANGED <<request, snap, job, rail>>

SettleAmbiguous(i) ==
    /\ answer[i] = "ambiguous"
    /\ Goto(i, "settling", "done")
    /\ FlagForReview(i)
    /\ ForgetAnswer(i)
    /\ UNCHANGED <<request, snap, job, rail>>

FinishSuccess(i) ==
    /\ Goto(i, "annotating", "done")
    /\ AnnotateHistory(i)
    /\ UNCHANGED <<request, snap, overtaken, answer, job, rail>>

(* The process dies, or a database error escapes the handler.              *)
CrashCall(i) ==
    /\ pc[i] \in {"calling", "waiting", "settling", "annotating"}
    /\ pc' = [pc EXCEPT ![i] = "done"]
    /\ ForgetAnswer(i)
    /\ UNCHANGED <<request, snap, overtaken, books, job, rail>>

CallStep(i) ==
    \/ Lookup(i) \/ Refuse(i) \/ CheckDailyLimit(i)
    \/ BeginDebit(i) \/ CommitDebit(i) \/ AbortDebit(i)
    \/ CallProvider(i) \/ ProviderAnswers(i)
    \/ SettleAccepted(i) \/ SettleRejected(i) \/ SettleAmbiguous(i)
    \/ FinishSuccess(i) \/ CrashCall(i)

-----------------------------------------------------------------------------
(* resolveStuck(), one pass of the recovery job.                           *)

(* Mutant: the pass lists only rows still pending, as it does for payouts. *)
ListsPendingOnly == {"pending"}

Listed == Open

ListStuck(p) ==
    /\ jobPc[p] = "idle"
    /\ jobPc' = [jobPc EXCEPT ![p] = "scanning"]
    /\ seen' = [seen EXCEPT ![p] =
                  [i \in Instructions |-> IF status[i] \in Listed THEN status[i] ELSE "skip"]]
    /\ UNCHANGED <<calls, books, target, told, rail>>

AskStatus(p, i) ==
    /\ jobPc[p] = "scanning"
    /\ seen[p][i] # "skip"
    /\ jobPc' = [jobPc EXCEPT ![p] = "resolving"]
    /\ target' = [target EXCEPT ![p] = i]
    /\ \E s \in StatusAnswers(i) : told' = [told EXCEPT ![p] = s]
    /\ UNCHANGED <<calls, books, seen, rail>>

(* The row is dealt with; the pass goes on to the next one.                *)
NextRow(p, at) ==
    /\ jobPc[p] = "resolving"
    /\ jobPc' = [jobPc EXCEPT ![p] = at]
    /\ seen' = [seen EXCEPT ![p][target[p]] = "skip"]
    /\ told' = [told EXCEPT ![p] = "none"]

ResolveSuccess(p) ==
    /\ told[p] = "success"
    /\ NextRow(p, IF status[target[p]] \in Open THEN "annotating" ELSE "scanning")
    /\ MarkSuccess(target[p])
    /\ UNCHANGED <<request, pc, snap, answer, target, rail>>

ResolveFailed(p) ==
    /\ told[p] = "failed"
    /\ NextRow(p, "scanning")
    /\ Reverse(target[p])
    /\ UNCHANGED <<request, pc, snap, answer, target, rail>>

(* Mutant: a row the provider knows nothing of is left as it is.           *)
LeaveUnknown(p) ==
    /\ told[p] = "unknown"
    /\ NextRow(p, "scanning")
    /\ UNCHANGED <<calls, books, target, rail>>

(* Only a row that was pending when the pass listed it is flagged.         *)
ResolveUnknown(p) ==
    /\ told[p] = "unknown"
    /\ NextRow(p, "scanning")
    /\ IF seen[p][target[p]] = "pending"
         THEN FlagForReview(target[p])
         ELSE UNCHANGED <<books, overtaken>>
    /\ UNCHANGED <<request, pc, snap, answer, target, rail>>

FinishRow(p) ==
    /\ jobPc[p] = "annotating"
    /\ jobPc' = [jobPc EXCEPT ![p] = "scanning"]
    /\ AnnotateHistory(target[p])
    /\ UNCHANGED <<calls, seen, target, told, rail>>

EndPass(p) ==
    /\ jobPc[p] = "scanning"
    /\ seen[p] = NothingListed
    /\ jobPc' = [jobPc EXCEPT ![p] = "idle"]
    /\ target' = [target EXCEPT ![p] = "none"]
    /\ UNCHANGED <<calls, books, seen, told, rail>>

(* The process dies, or an error ends the pass (runOnce rejects).          *)
CrashPass(p) ==
    /\ jobPc[p] # "idle"
    /\ jobPc' = [jobPc EXCEPT ![p] = "idle"]
    /\ seen' = [seen EXCEPT ![p] = NothingListed]
    /\ target' = [target EXCEPT ![p] = "none"]
    /\ told' = [told EXCEPT ![p] = "none"]
    /\ UNCHANGED <<calls, books, rail>>

Resolve(p) == ResolveSuccess(p) \/ ResolveFailed(p) \/ ResolveUnknown(p)

PassStep(p) ==
    \/ ListStuck(p) \/ (\E i \in Instructions : AskStatus(p, i)) \/ Resolve(p)
    \/ FinishRow(p) \/ EndPass(p) \/ CrashPass(p)

-----------------------------------------------------------------------------
Init ==
    /\ request \in [Instructions -> Requests]
    /\ pc = [i \in Instructions |-> "received"]
    /\ snap = [i \in Instructions |-> NoSnapshot]
    /\ overtaken = {}
    /\ answer = [i \in Instructions |-> "none"]
    /\ balance = [u \in Users |-> OPENING]
    /\ status = [i \in Instructions |-> "absent"]
    /\ fee = [i \in Instructions |-> 0]
    /\ history = [i \in Instructions |-> "absent"]
    /\ ledger = {}
    /\ jobPc = [p \in Passes |-> "idle"]
    /\ seen = [p \in Passes |-> NothingListed]
    /\ target = [p \in Passes |-> "none"]
    /\ told = [p \in Passes |-> "none"]
    /\ RailInit

BankStep(i) == RailStep(i) /\ UNCHANGED <<calls, books, job>>

Next ==
    \/ \E i \in Instructions : CallStep(i) \/ BankStep(i)
    \/ \E p \in Passes : PassStep(p)

Spec == Init /\ [][Next]_vars

(***************************************************************************)
(* The scheduler starts a pass every five minutes, whatever became of the  *)
(* one before, and a pass that is cut short is followed by another that    *)
(* lists the same rows: hence strong fairness for the steps of a pass, row *)
(* by row, for crashes do not for ever pick the same row and answer.       *)
(* Nothing is assumed of the calls, which may stop anywhere, nor of the    *)
(* bank.                                                                   *)
(***************************************************************************)
RecoveryRuns ==
    \A p \in Passes :
        /\ WF_vars(ListStuck(p) \/ EndPass(p))
        /\ \A i \in Instructions : SF_vars(AskStatus(p, i))
        /\ \A i \in Instructions :
              /\ SF_vars(target[p] = i /\ ResolveSuccess(p))
              /\ SF_vars(target[p] = i /\ ResolveFailed(p))
              /\ SF_vars(target[p] = i /\ ResolveUnknown(p))
        /\ SF_vars(FinishRow(p))

FairSpec == Spec /\ RecoveryRuns

(* A bank whose status check does not stay "unknown" for ever.             *)
BankTells ==
    \A p \in Passes, i \in Instructions :
        SF_vars(AskStatus(p, i) /\ told'[p] # "unknown")

-----------------------------------------------------------------------------
(* Properties.                                                             *)

(* Every variable holds a value of its kind; in particular no wallet is    *)
(* ever overdrawn, however debits of one wallet overlap.                   *)
TypeOK ==
    /\ request \in [Instructions -> Requests]
    /\ pc \in [Instructions -> {"received", "validating", "opening", "debiting", "calling",
                                "waiting", "settling", "annotating", "done"}]
    /\ snap \in [Instructions -> [balance : Nat, fee : {0, FEE}]]
    /\ overtaken \subseteq Instructions
    /\ answer \in [Instructions -> {"none", "accepted", "rejected", "ambiguous"}]
    /\ balance \in [Users -> Nat]
    /\ status \in [Instructions -> Statuses]
    /\ fee \in [Instructions -> {0, FEE}]
    /\ history \in [Instructions -> {"absent", "pending", "success", "failed"}]
    /\ ledger \subseteq [ref : Instructions, leg : Legs, type : {"payout", "reversal"},
                          wallet : Users, amount : Nat \ {0}]
    /\ jobPc \in [Passes -> {"idle", "scanning", "resolving", "annotating"}]
    /\ seen \in [Passes -> [Instructions -> {"skip", "pending", "requires_review"}]]
    /\ target \in [Passes -> Instructions \cup {"none"}]
    /\ \A p \in Passes : jobPc[p] \in {"resolving", "annotating"} => target[p] \in Instructions
    /\ told \in [Passes -> {"none", "success", "failed", "unknown"}]
    /\ rail \in [Instructions -> RailStates]

(* Money is given back only for a transfer the bank will never pay, and a  *)
(* transfer is called successful only when the bank has taken it, whatever *)
(* order the answer, the recovery passes and the bank act in.              *)
OutcomeMatchesRail ==
    \A i \in Instructions :
        /\ status[i] = "failed"  => rail[i] \in WillNotPay
        /\ status[i] = "success" => rail[i] \in Taken

(* The ledger and the history row tell the same story as the transfer: its *)
(* cost is debited exactly once when it exists, credited back exactly once *)
(* when it failed, fee included, and never otherwise.                      *)
EntriesAgree ==
    /\ ledger = (UNION {Entries(i, "payout", fee[i]) : i \in {j \in Instructions : Exists(j)}})
                \cup (UNION {Entries(i, "reversal", fee[i]) :
                                i \in {j \in Instructions : status[j] = "failed"}})
    /\ \A i \in Instructions :
        /\ history[i] = "failed" <=> status[i] = "failed"
        /\ history[i] = "success" => status[i] = "success"
        /\ history[i] = "absent" <=> ~ Exists(i)

Posted(u, type) == {e \in ledger : e.wallet = u /\ e.type = type}
Amount(E)       == SumFunctionOnSet([e \in E |-> e.amount], E)

(* The cached balance is what the ledger adds up to (the check             *)
(* reconciliation.job.js runs on every wallet), and is never negative.     *)
BalanceMatchesLedger ==
    \A u \in Users :
        /\ balance[u] = OPENING + Amount(Posted(u, "reversal")) - Amount(Posted(u, "payout"))
        /\ balance[u] >= 0

(* Rows, ledger and balance tell one story.                                *)
BooksAgree == EntriesAgree /\ BalanceMatchesLedger

(* A retried request, same user and same key, never creates a second       *)
(* transfer, even while the first one is still in progress.                *)
OneTransferPerKey ==
    \A i, j \in Instructions :
        Exists(i) /\ Exists(j) /\ User(i) = User(j) /\ request[i].key = request[j].key => i = j

(* A transfer is charged the fee exactly when the day's free transfers,    *)
(* as getConfig counts them, are used up at the moment it is created, two  *)
(* simultaneous requests and a reversal in between included.               *)
FeeReflectsAllowance ==
    [][\A i \in Instructions :
          ~ Exists(i) /\ Exists(i)' =>
              fee'[i] = IF FreeRemaining(User(i)) = 0 THEN FEE ELSE 0]_vars

(* Success and failure are final, and so is the money that goes with them: *)
(* no late answer, second pass or retry moves a settled transfer.          *)
OutcomeIsFinal ==
    [][\A i \in Instructions :
          /\ status[i] \in {"success", "failed"} => status'[i] = status[i]
          /\ Exists(i) => Exists(i)' /\ fee'[i] = fee[i]]_vars

(* A transfer whose call has died does not stay pending: some pass settles *)
(* it or hands it to a human.                                              *)
NothingStaysPending ==
    \A i \in Instructions : status[i] = "pending" ~> status[i] # "pending"

(* With a bank that answers status checks, a transfer the bank has dealt   *)
(* with is settled in the end, review included.                            *)
DealtWithGetsSettled ==
    BankTells =>
        \A i \in Instructions :
            rail[i] \in {"paid", "bounced", "refused"} ~> status[i] \in {"success", "failed"}

(* What the header of the recovery job and BACKUP_AND_DR.md promise of a   *)
(* crash: running the job afterwards resolves what was in flight.  The     *)
(* history row the customer sees is part of it.                            *)
HistoryCatchesUp ==
    \A i \in Instructions : status[i] = "success" ~> history[i] = "success"

-----------------------------------------------------------------------------
(* A bank transfer keeps the promise of every outbound movement, its purse *)
(* the customer's wallet.                                                  *)

StageOf(s) == CASE s = "absent"  -> "absent"
                [] s \in Open    -> "held"
                [] s = "success" -> "sent"
                [] s = "failed"  -> "returned"

BankOf(r) == CASE r \in {"none", "sent"} -> "untold"
               [] r = "queued"  -> "accepted"
               [] r = "paid"    -> "paid"
               [] r = "bounced" -> "bounced"
               [] r = "refused" -> "refused"

Promise == INSTANCE Outbound WITH
    Purses  <- Users,
    Costs   <- Amounts \cup {a + FEE : a \in Amounts},
    Opening <- {OPENING},
    purse   <- balance,
    owner   <- [i \in Instructions |-> User(i)],
    cost    <- [i \in Instructions |-> IF Exists(i) THEN Total(i) ELSE 0],
    stage   <- [i \in Instructions |-> StageOf(status[i])],
    bank    <- [i \in Instructions |-> BankOf(rail[i])]

(* Every behaviour of the service is one the promise allows.               *)
KeepsPromise == Promise!Spec
=============================================================================
