---------------------------- MODULE PoolAccount ----------------------------
(***************************************************************************)
(* Money coming in on the virtual accounts of a partner: the bank's        *)
(* deposit notifications (providers/bankWebhook.routes.js), their          *)
(* processing and the resolution of held ones (modules/deposit), and the   *)
(* partner's assign, deactivate and release calls (modules/admin), which   *)
(* decide whether an account takes deposits at all.                        *)
(*                                                                         *)
(* Handlers, operators and the partner's calls interleave at every await.  *)
(* Deposits run in a transaction, which fails if a document it writes has  *)
(* been written since its snapshot; the partner's calls load a wallet and  *)
(* save it without one, writing only the fields they changed.              *)
(***************************************************************************)
EXTENDS Integers, FiniteSets, Functions

CONSTANTS References, Accounts, Amounts,
          Nowhere,          \* an account number that is no pool account
          ExpectedAmounts,  \* what the partner asks for, in kobo
          NotSet,           \* no amount asked for
          Handlers,         \* webhook requests being served
          Operators,        \* requests resolving a held deposit
          Orders,           \* the partner's calls on its accounts
          Spendings         \* payouts and refunds from the pool

ASSUME PaymentsArePositive == Amounts \subseteq Nat \ {0}
ASSUME NowhereIsNoAccount == Nowhere \notin Accounts
ASSUME ExpectedInKobo == ExpectedAmounts \subseteq Nat /\ NotSet \notin ExpectedAmounts
ASSUME ActorsDiffer ==
    /\ Handlers \cap Operators = {} /\ References \cap Spendings = {}
    /\ (Handlers \cup Operators) \cap (Orders \cup Spendings) = {}

VARIABLES
    payment,      \* what the bank reports under each reference
    answered,     \* notifications the bank has had a 2xx for
    pc,           \* where each handler and operator is
    work,         \* the reference it works on
    view,         \* the wallet its open transaction has read
    stale,        \* which of its documents have been written since
    wallet,       \* Wallet rows
    poolBalance,  \* SettlementPool.poolBalance
    deposit,      \* Deposit.status
    ledger,       \* LedgerEntry rows
    poolLedger,   \* PoolLedgerEntry rows
    orderPc,      \* where each call of the partner is
    order,        \* what it asks for and the wallet it has loaded
    opened        \* history: how often an account was made "assigned"

bank  == <<payment, answered>>
txns  == <<pc, work, view, stale>>
books == <<wallet, poolBalance, deposit, ledger, poolLedger>>
calls == <<orderPc, order, opened>>
vars  == <<bank, txns, books, calls>>

Txns == Handlers \cup Operators
Docs == {"account", "pool", "deposit"}

Payments == [account: Accounts \cup {Nowhere}, amount: Amounts]
Wallets  == [status: {"available", "assigned", "deactivated"},
             expectedAmount: ExpectedAmounts \cup {NotSet}, balance: Nat]
NewWallet == [status |-> "available", expectedAmount |-> NotSet, balance |-> 0]

Statuses == {"absent", "held", "confirmed", "failed"}

Account(t) == payment[work[t]].account
Amount(t)  == payment[work[t]].amount
InOpenTxn(t) == pc[t] = "open"

-----------------------------------------------------------------------------
(* Transactions.                                                           *)

Goto(t, from, to) ==
    /\ pc[t] = from
    /\ pc' = [pc EXCEPT ![t] = to]

Begin(t, r, to) ==
    /\ Goto(t, "idle", to)
    /\ work' = [work EXCEPT ![t] = r]

(* Mutant: a write on a document that has changed since does not fail.     *)
NoWriteConflict(t, docs) == TRUE

Serializable(t, docs) == stale[t] \cap docs = {}

(* The documents of t that a write on account a, on the pool or on the     *)
(* deposit of r touches.                                                   *)
Touched(t, a, r, docs) ==
    {d \in docs : d = "pool" \/ (d = "account" /\ Account(t) = a) \/ (d = "deposit" /\ work[t] = r)}

(* by, which is no longer in a transaction, has written docs.              *)
Overtake(by, a, r, docs) ==
    stale' = [t \in Txns |-> IF t = by \/ ~ InOpenTxn(t) THEN {}
                             ELSE stale[t] \cup Touched(t, a, r, docs)]

(* t's transaction is over; it no longer matters what it has read.         *)
Forget(t) == view' = [view EXCEPT ![t] = NewWallet]

-----------------------------------------------------------------------------
(* Crediting a deposit: wallet, wallet ledger, pool ledger and pool.       *)

Credit(r, how) == [ref |-> r, how |-> how, account |-> payment[r].account,
                   amount |-> payment[r].amount]

PoolCredit(r) == [ref |-> r, direction |-> "credit", amount |-> payment[r].amount]

(* The ledgers' unique indexes.                                            *)
CanPost(r) == ~ \E l \in ledger : l.ref = r

Post(r, how) ==
    /\ CanPost(r)
    /\ ledger' = ledger \cup {Credit(r, how)}
    /\ poolLedger' = poolLedger \cup {PoolCredit(r)}
    /\ poolBalance' = poolBalance + payment[r].amount

(* Mutant: the account stays open for the next payment.                    *)
KeepOpen(w) == w

Close(w) == [w EXCEPT !.status = "deactivated"]

(* The balance read in the transaction plus the amount.  (The pool's       *)
(* balance is read in it too; unless it is overtaken that is the current   *)
(* one.)                                                                   *)
Add(w, t) == [w EXCEPT !.balance = view[t].balance + Amount(t)]

-----------------------------------------------------------------------------
(* The webhook and processDeposit.                                         *)

Waiting == {r \in References : r \notin answered}

(* The bank sends, or sends again, what it has had no 2xx for; the first   *)
(* thing looked up is the reference.                                       *)
Receive(h, r) ==
    /\ r \in Waiting
    /\ Begin(h, r, IF deposit[r] = "absent" THEN "opening" ELSE "recorded")
    /\ UNCHANGED <<bank, view, stale, books, calls>>

(* The wallet as the transaction finds it; only an assigned one will do.   *)
Open(h) ==
    /\ pc[h] = "opening"
    /\ IF Account(h) \in Accounts /\ wallet[Account(h)].status = "assigned"
         THEN Goto(h, "opening", "open") /\ view' = [view EXCEPT ![h] = wallet[Account(h)]]
         ELSE Goto(h, "opening", "refused") /\ UNCHANGED view
    /\ UNCHANGED <<bank, work, stale, books, calls>>

(* Naira against kobo.                                                     *)
Mismatch(h) ==
    /\ view[h].expectedAmount # NotSet
    /\ 100 * Amount(h) # view[h].expectedAmount

(* The unique index on Deposit.reference.                                  *)
ReferenceFree(r) == deposit[r] = "absent"

(* Nothing but the deposit's row is written.                               *)
Hold(h) ==
    /\ h \in Handlers
    /\ Goto(h, "open", "recorded")
    /\ Mismatch(h)
    /\ ReferenceFree(work[h])
    /\ deposit' = [deposit EXCEPT ![work[h]] = "held"]
    /\ Forget(h)
    /\ Overtake(h, Account(h), work[h], {"deposit"})
    /\ UNCHANGED <<bank, work, wallet, poolBalance, ledger, poolLedger, calls>>

Confirm(h) ==
    /\ h \in Handlers
    /\ Goto(h, "open", "recorded")
    /\ ~ Mismatch(h)
    /\ ReferenceFree(work[h])
    /\ Serializable(h, {"account", "pool"})
    /\ wallet' = [wallet EXCEPT ![Account(h)] = Close(Add(@, h))]
    /\ deposit' = [deposit EXCEPT ![work[h]] = "confirmed"]
    /\ Post(work[h], "arrival")
    /\ Forget(h)
    /\ Overtake(h, Account(h), work[h], Docs)
    /\ UNCHANGED <<bank, work, calls>>

(* The insert finds the reference taken: a duplicate, if the wallet could  *)
(* be written before it.                                                   *)
FindDuplicate(h) ==
    /\ h \in Handlers
    /\ Goto(h, "open", "recorded")
    /\ ~ ReferenceFree(work[h])
    /\ Mismatch(h) \/ Serializable(h, {"account"})
    /\ Forget(h)
    /\ stale' = [stale EXCEPT ![h] = {}]
    /\ UNCHANGED <<bank, work, books, calls>>

Done(t) ==
    /\ pc' = [pc EXCEPT ![t] = "idle"]
    /\ work' = [work EXCEPT ![t] = "none"]
    /\ Forget(t)
    /\ stale' = [stale EXCEPT ![t] = {}]

(* Mutant: a deposit no account can take is answered with a 5xx.           *)
RecordedOnly == {"recorded"}

Answerable == {"recorded", "refused"}

Answer(h) ==
    /\ pc[h] \in Answerable
    /\ answered' = answered \cup {work[h]}
    /\ Done(h)
    /\ UNCHANGED <<payment, books, calls>>

(* A write conflict, any other error (a 5xx), the process dies, or the     *)
(* answer is lost: the bank will send the notification again.              *)
Fail(h) ==
    /\ h \in Handlers
    /\ pc[h] # "idle"
    /\ Done(h)
    /\ UNCHANGED <<bank, books, calls>>

Serve(h) == Open(h) \/ Hold(h) \/ Confirm(h) \/ FindDuplicate(h) \/ Answer(h) \/ Fail(h)

-----------------------------------------------------------------------------
(* resolveHeldDeposit.                                                     *)

(* Mutant: a deposit that was rejected can be resolved again.              *)
HeldOrFailed == {"held", "failed"}

Resolvable == {"held"}

OpenHeld(o, r) ==
    /\ deposit[r] \in Resolvable
    /\ Begin(o, r, "open")
    /\ view' = [view EXCEPT ![o] = wallet[payment[r].account]]
    /\ UNCHANGED <<bank, stale, books, calls>>

Reject(o) ==
    /\ o \in Operators
    /\ InOpenTxn(o)
    /\ Serializable(o, {"deposit"})
    /\ deposit' = [deposit EXCEPT ![work[o]] = "failed"]
    /\ pc' = [pc EXCEPT ![o] = "idle"]
    /\ work' = [work EXCEPT ![o] = "none"]
    /\ Forget(o)
    /\ Overtake(o, Account(o), work[o], {"deposit"})
    /\ UNCHANGED <<bank, wallet, poolBalance, ledger, poolLedger, calls>>

(* The money enters whatever has become of the account since; its status   *)
(* is left alone.                                                          *)
Accept(o) ==
    /\ o \in Operators
    /\ InOpenTxn(o)
    /\ Serializable(o, Docs)
    /\ wallet' = [wallet EXCEPT ![Account(o)] = Add(@, o)]
    /\ deposit' = [deposit EXCEPT ![work[o]] = "confirmed"]
    /\ Post(work[o], "resolution")
    /\ pc' = [pc EXCEPT ![o] = "idle"]
    /\ work' = [work EXCEPT ![o] = "none"]
    /\ Forget(o)
    /\ Overtake(o, Account(o), work[o], Docs)
    /\ UNCHANGED <<bank, calls>>

Abort(o) ==
    /\ o \in Operators
    /\ InOpenTxn(o)
    /\ Done(o)
    /\ UNCHANGED <<bank, books, calls>>

Resolve(o) == (\E r \in References : OpenHeld(o, r)) \/ Reject(o) \/ Accept(o) \/ Abort(o)

-----------------------------------------------------------------------------
(* assignPoolAccount, deactivatePoolAccount, releasePoolAccount.           *)

Target == [assign |-> "assigned", deactivate |-> "deactivated", release |-> "available"]

Asked == [op: DOMAIN Target, account: Accounts \cup {Nowhere}, expectedAmount: ExpectedAmounts \cup {NotSet},
          seen: Wallets]

NothingLoaded ==
    [op |-> "release", account |-> Nowhere, expectedAmount |-> NotSet, seen |-> NewWallet]

Load(c) ==
    /\ orderPc[c] = "sent"
    /\ orderPc' = [orderPc EXCEPT ![c] = "loaded"]
    /\ \E op \in DOMAIN Target, a \in Accounts, e \in ExpectedAmounts \cup {NotSet} :
          /\ op # "assign" => e = NotSet
          /\ order' = [order EXCEPT ![c] =
                [op |-> op, account |-> a, expectedAmount |-> e, seen |-> wallet[a]]]
    /\ UNCHANGED <<bank, txns, books, opened>>

(* save() writes the fields whose value is not the loaded one.             *)
WritesStatus(o)   == Target[o.op] # o.seen.status
WritesExpected(o) == o.op = "assign" /\ o.expectedAmount # o.seen.expectedAmount

Saved(o, w) ==
    [w EXCEPT !.status = IF WritesStatus(o) THEN Target[o.op] ELSE @,
              !.expectedAmount = IF WritesExpected(o) THEN o.expectedAmount ELSE @]

Save(c) ==
    LET o == order[c] IN
    /\ orderPc[c] = "loaded"
    /\ orderPc' = [orderPc EXCEPT ![c] = "saved"]
    /\ wallet' = [wallet EXCEPT ![o.account] = Saved(o, @)]
    /\ Overtake(c, o.account, "none",
                IF WritesStatus(o) \/ WritesExpected(o) THEN {"account"} ELSE {})
    /\ opened' = IF o.op = "assign" /\ WritesStatus(o)
                   THEN [opened EXCEPT ![o.account] = @ + 1] ELSE opened
    /\ order' = [order EXCEPT ![c] = NothingLoaded]
    /\ UNCHANGED <<bank, pc, work, view, poolBalance, deposit, ledger, poolLedger>>

(* The partner's call dies between its load and its save.                  *)
Lose(c) ==
    /\ orderPc[c] = "loaded"
    /\ orderPc' = [orderPc EXCEPT ![c] = "lost"]
    /\ order' = [order EXCEPT ![c] = NothingLoaded]
    /\ UNCHANGED <<bank, txns, books, opened>>

-----------------------------------------------------------------------------
(* A payout or refund takes money out of the same pool (PoolOutflow has    *)
(* them in detail).                                                        *)

(* Mutant: debitPool does not look whether the pool can pay.               *)
SpendAnyway(n) == TRUE

CanSpend(n) == n <= poolBalance

Spend(s) ==
    /\ ~ \E e \in poolLedger : e.ref = s
    /\ \E n \in Amounts :
          /\ CanSpend(n)
          /\ poolBalance' = poolBalance - n
          /\ poolLedger' = poolLedger \cup {[ref |-> s, direction |-> "debit", amount |-> n]}
    /\ Overtake(s, Nowhere, "none", {"pool"})
    /\ UNCHANGED <<bank, pc, work, view, wallet, deposit, ledger, calls>>

-----------------------------------------------------------------------------
Init ==
    /\ payment \in [References -> Payments]
    /\ answered = {}
    /\ pc = [t \in Txns |-> "idle"]
    /\ work = [t \in Txns |-> "none"]
    /\ view = [t \in Txns |-> NewWallet]
    /\ stale = [t \in Txns |-> {}]
    /\ wallet = [a \in Accounts |-> NewWallet]
    /\ poolBalance = 0
    /\ deposit = [r \in References |-> "absent"]
    /\ ledger = {}
    /\ poolLedger = {}
    /\ orderPc = [c \in Orders |-> "sent"]
    /\ order = [c \in Orders |-> NothingLoaded]
    /\ opened = [a \in Accounts |-> 0]

Next ==
    \/ \E h \in Handlers : Serve(h) \/ \E r \in References : Receive(h, r)
    \/ \E o \in Operators : Resolve(o)
    \/ \E c \in Orders : Load(c) \/ Save(c) \/ Lose(c)
    \/ \E s \in Spendings : Spend(s)

Spec == Init /\ [][Next]_vars

(***************************************************************************)
(* A request being served ends, well or badly.  The bank sends what it has *)
(* had no 2xx for again and again, and a transient failure does not strike *)
(* the same step of every attempt.  Nothing is assumed of operators or of  *)
(* the partner.                                                            *)
(***************************************************************************)
BankRetries ==
    /\ \A h \in Handlers : WF_vars(Serve(h))
    /\ \A r \in References :
          /\ SF_vars(\E h \in Handlers : Receive(h, r))
          /\ SF_vars(\E h \in Handlers : work[h] = r /\ Open(h))
          /\ SF_vars(\E h \in Handlers : work[h] = r /\ (Hold(h) \/ Confirm(h) \/ FindDuplicate(h)))
          /\ SF_vars(\E h \in Handlers : work[h] = r /\ Answer(h))

FairSpec == Spec /\ BankRetries

-----------------------------------------------------------------------------
(* Properties.                                                             *)

(* Every variable holds a value of its kind; neither an account nor the    *)
(* pool is ever overdrawn.                                                 *)
TypeOK ==
    /\ payment \in [References -> Payments]
    /\ answered \subseteq References
    /\ pc \in [Txns -> {"idle", "opening", "open", "recorded", "refused"}]
    /\ work \in [Txns -> References \cup {"none"}]
    /\ \A t \in Txns : pc[t] # "idle" => work[t] \in References
    /\ view \in [Txns -> Wallets]
    /\ stale \in [Txns -> SUBSET Docs]
    /\ wallet \in [Accounts -> Wallets]
    /\ poolBalance \in Nat
    /\ deposit \in [References -> Statuses]
    /\ ledger \subseteq [ref: References, how: {"arrival", "resolution"},
                         account: Accounts, amount: Amounts]
    /\ poolLedger \subseteq [ref: References \cup Spendings, direction: {"credit", "debit"},
                             amount: Amounts]
    /\ orderPc \in [Orders -> {"sent", "loaded", "saved", "lost"}]
    /\ order \in [Orders -> Asked]
    /\ opened \in [Accounts -> Nat]

(* A deposit credits an account only while it is handed out and closes it  *)
(* at once, so an account takes no more payments by itself than the times  *)
(* the partner has opened it: two payments racing for one opening are      *)
(* never both credited, whatever stale assign, deactivate or release lands *)
(* in between (deposit.service.js:140-146).                                *)
OneCreditPerOpening ==
    \A a \in Accounts :
        Cardinality({l \in ledger : l.account = a /\ l.how = "arrival"}) <= opened[a]

(* A deposit is confirmed exactly if the wallet ledger has one entry for   *)
(* it and the pool ledger has one (poolLedger.model.js:6-8).               *)
EntriesAgree ==
    \A r \in References :
        /\ (\E how \in {"arrival", "resolution"} : Credit(r, how) \in ledger)
               <=> deposit[r] = "confirmed"
        /\ Cardinality({l \in ledger : l.ref = r}) <= 1
        /\ PoolCredit(r) \in poolLedger <=> deposit[r] = "confirmed"

Received(L) == SumFunctionOnSet([l \in L |-> l.amount], L)
Signed(e)   == IF e.direction = "credit" THEN e.amount ELSE - e.amount
Total(L)    == SumFunctionOnSet([e \in L |-> Signed(e)], L)
Entries(a)  == {l \in ledger : l.account = a}

(* The cached balances are what the ledgers add up to, with deposits,      *)
(* resolutions, the partner's unguarded saves and spending in flight.      *)
BalancesMatchLedgers ==
    /\ \A a \in Accounts : wallet[a].balance = Received(Entries(a))
    /\ poolBalance = Total(poolLedger)

(* Deposits, both ledgers and both balances tell one story.                *)
BooksAgree == EntriesAgree /\ BalancesMatchLedgers

(* Every notification of the bank is answered with a 2xx in the end,       *)
(* whatever fails, so that the bank can stop sending it.                   *)
EveryNoticeAnswered == \A r \in References : <>(r \in answered)

(* What the webhook answers when no account takes a deposit:               *)
(* "recorded_for_manual_review".                                           *)
AnsweredIsRecorded == \A r \in answered : deposit[r] # "absent"

-----------------------------------------------------------------------------
(* The deposits keep the promise made of money coming in.                  *)

StageOf == [absent |-> "absent", held |-> "held", confirmed |-> "credited", failed |-> "refused"]

Promise == INSTANCE Inbound WITH
    stage <- [r \in References |-> StageOf[deposit[r]]],
    money <- [a \in Accounts |-> wallet[a].balance],
    pool  <- poolBalance

(* Every behaviour of the webhook, the operators and the partner is one    *)
(* the promise allows: no payment enters twice, a held one only when it is *)
(* accepted, a refused one never, and no call of the partner moves money.  *)
KeepsPromise == Promise!Spec
=============================================================================
