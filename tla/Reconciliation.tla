--------------------------- MODULE Reconciliation ---------------------------
(***************************************************************************)
(* The reconciliation job: it compares the cached balance of every wallet  *)
(* and pool with the sum of its ledger, and every pool with the sum of its *)
(* wallets, and keeps one open exception for each that disagrees.          *)
(*                                                                         *)
(* A scanner is one run of reconcileWallets or reconcilePools, repeated by *)
(* the scheduler.  The two halves share no exceptions, so in one behaviour *)
(* all scanners do the same half; several overlap.  A scan reads outside   *)
(* any transaction: the cached balance first, the sum later, the exception *)
(* after that, and it saves last, while money keeps moving in transactions *)
(* that keep the books together.                                           *)
(*                                                                         *)
(* Exceptions are counted, not listed: `open' is how many open rows there  *)
(* are for a check, and a scanner or operator that has loaded one knows it *)
(* as "open" until somebody resolves it.  A save on a row resolved since   *)
(* changes none of its status.                                             *)
(***************************************************************************)
EXTENDS Integers, Functions

CONSTANTS Scanners,
          Scheduled,     \* the scanners of a process whose scheduler keeps running
          Operators,
          Wallets,       \* the pool's wallets
          PoolLedger,    \* check 1 of a pool
          PoolSum,       \* check 2 of a pool
          NoCheck,
          AMOUNT,        \* what one movement moves
          MAX_MOVES,     \* bound on movements and edits of the books
          MAX_ERRORS     \* bound on runs cut short

ASSUME AmountIsPositive == AMOUNT \in Nat \ {0} /\ MAX_MOVES \in Nat /\ MAX_ERRORS \in Nat
ASSUME ChecksDiffer == /\ PoolLedger # PoolSum /\ {PoolLedger, PoolSum} \cap Wallets = {}
                       /\ NoCheck \notin Wallets \cup {PoolLedger, PoolSum}
ASSUME ActorsDiffer == Scanners \cap Operators = {}

VARIABLES
    half,          \* which half the scanners do
    balance,       \* Wallet.balance
    ledger,        \* computeBalance of a wallet
    poolBalance,   \* SettlementPool.poolBalance
    poolLedger,    \* computePoolBalance
    moves,         \* movements and edits so far
    open,          \* open exceptions per check
    pc,            \* where a scanner is
    todo,          \* checks its run has still to do
    check,         \* the check it is at, also an operator's
    cached,        \* the cached balance it has loaded
    inSync,        \* what its comparison said
    found,         \* the open exception it has loaded
    errors,        \* runs cut short so far
    disturbed      \* history: scanners whose run has seen the books move

books == <<balance, ledger, poolBalance, poolLedger, moves>>
scan  == <<pc, todo, check, cached, inSync, found>>
vars  == <<half, books, open, scan, errors, disturbed>>

Checks == Wallets \cup {PoolLedger, PoolSum}
Actors == Scanners \cup Operators
WalletSum == SumFunctionOnSet(balance, Wallets)

Mismatched(k) == CASE k \in Wallets   -> balance[k] # ledger[k]
                   [] k = PoolLedger  -> poolBalance # poolLedger
                   [] OTHER           -> WalletSum # poolBalance

Goto(s, from, to) ==
    /\ pc[s] = from
    /\ pc' = [pc EXCEPT ![s] = to]

-----------------------------------------------------------------------------
(* The books: what the other components do, and an edit of the database.   *)

MayMove ==
    /\ moves < MAX_MOVES
    /\ moves' = moves + 1
    /\ disturbed' = {s \in Scanners : pc[s] # "idle"}
    /\ UNCHANGED <<half, open, scan, errors>>

(* deposit.service.js: a wallet, its pool and both ledgers in one commit.  *)
Deposit(w) ==
    /\ MayMove
    /\ balance' = [balance EXCEPT ![w] = @ + AMOUNT]
    /\ ledger' = [ledger EXCEPT ![w] = @ + AMOUNT]
    /\ poolBalance' = poolBalance + AMOUNT
    /\ poolLedger' = poolLedger + AMOUNT

Covered == poolBalance >= AMOUNT

(* payout.service.js: the pool and its ledger.                             *)
Payout ==
    /\ Covered
    /\ MayMove
    /\ poolBalance' = poolBalance - AMOUNT
    /\ poolLedger' = poolLedger - AMOUNT
    /\ UNCHANGED <<balance, ledger>>

(* A write that bypasses the services, or the manual fix of one.           *)
Edit ==
    /\ MayMove
    /\ \/ \E w \in Wallets : \E b \in {ledger[w], ledger[w] + AMOUNT} :
            /\ balance[w] # b
            /\ balance' = [balance EXCEPT ![w] = b]
            /\ UNCHANGED poolBalance
       \/ \E b \in {poolLedger, WalletSum} :
            /\ poolBalance # b
            /\ poolBalance' = b
            /\ UNCHANGED balance
    /\ UNCHANGED <<ledger, poolLedger>>

-----------------------------------------------------------------------------
(* reconcileWallets() and reconcilePools().                                *)

(* The pool is loaded once, for both its checks.                           *)
Start(s) ==
    /\ Goto(s, "idle", IF half = "pools" THEN "summing" ELSE "loading")
    /\ todo' = [todo EXCEPT ![s] = IF half = "pools" THEN {PoolSum} ELSE Wallets]
    /\ check' = [check EXCEPT ![s] = IF half = "pools" THEN PoolLedger ELSE NoCheck]
    /\ cached' = [cached EXCEPT ![s] = IF half = "pools" THEN poolBalance ELSE 0]
    /\ disturbed' = disturbed \ {s}
    /\ UNCHANGED <<half, books, open, inSync, found, errors>>

(* The cursor gives the next wallet, read now or earlier.                  *)
LoadWallet(s) ==
    /\ Goto(s, "loading", "summing")
    /\ \E w \in todo[s] :
         /\ check' = [check EXCEPT ![s] = w]
         /\ cached' = [cached EXCEPT ![s] = balance[w]]
         /\ todo' = [todo EXCEPT ![s] = @ \ {w}]
    /\ UNCHANGED <<half, books, open, inSync, found, errors, disturbed>>

Computed(k) == CASE k \in Wallets  -> ledger[k]
                 [] k = PoolLedger -> poolLedger
                 [] OTHER          -> WalletSum

Sum(s) ==
    /\ Goto(s, "summing", "looking")
    /\ inSync' = [inSync EXCEPT ![s] = cached[s] = Computed(check[s])]
    /\ UNCHANGED <<half, books, open, todo, check, cached, found, errors, disturbed>>

(* Mutant: any open exception of the entity is taken for this check's.     *)
OfThePool(k) == IF k \in Wallets THEN {k} ELSE {PoolLedger, PoolSum}

(* findOne({type, entityRef, status: "open"}).                             *)
OfThisCheck(k) == {k}

Look(s) ==
    /\ Goto(s, "looking", "saving")
    /\ \/ \E k \in OfThisCheck(check[s]) :
            /\ open[k] > 0
            /\ found' = [found EXCEPT ![s] = "open"]
            /\ check' = [check EXCEPT ![s] = k]
       \/ /\ \A k \in OfThisCheck(check[s]) : open[k] = 0
          /\ found' = [found EXCEPT ![s] = "none"]
          /\ UNCHANGED check
    /\ UNCHANGED <<half, books, open, todo, cached, inSync, errors, disturbed>>

(* On to the next check of the run, or the end of it.                      *)
Continue(s) ==
    /\ Goto(s, "saving", IF todo[s] = {} THEN "idle"
                         ELSE IF half = "pools" THEN "summing" ELSE "loading")
    /\ check' = [check EXCEPT ![s] = IF half = "pools" /\ todo[s] # {} THEN PoolSum ELSE NoCheck]
    /\ todo' = [todo EXCEPT ![s] = IF half = "pools" THEN {} ELSE @]
    /\ cached' = [cached EXCEPT ![s] = IF half = "pools" /\ todo[s] # {} THEN @ ELSE 0]
    /\ inSync' = [inSync EXCEPT ![s] = FALSE]
    /\ UNCHANGED <<half, books, errors, disturbed>>

(* Whoever has loaded the row now has a resolved one in hand.              *)
ResolveRow(k, by) ==
    /\ open' = [open EXCEPT ![k] = @ - 1]
    /\ found' = [a \in Actors |->
                   IF a = by THEN "none"
                   ELSE IF check[a] = k /\ found[a] = "open" THEN "resolved" ELSE found[a]]

LetGo(a) == found' = [found EXCEPT ![a] = "none"] /\ UNCHANGED open

InSync(s) == inSync[s] /\ found[s] = "none" /\ LetGo(s) /\ Continue(s)

AutoResolve(s) ==
    /\ inSync[s] /\ found[s] # "none"
    /\ IF found[s] = "open" THEN ResolveRow(check[s], s) ELSE LetGo(s)
    /\ Continue(s)

Refresh(s) == ~ inSync[s] /\ found[s] # "none" /\ LetGo(s) /\ Continue(s)

(* Mutant: no unique index.                                                *)
AlwaysFree(k) == TRUE

(* The unique partial index on (type, entityRef, status: "open").          *)
IndexFree(k) == open[k] = 0

OpenException(s) ==
    /\ ~ inSync[s] /\ found[s] = "none"
    /\ IF IndexFree(check[s]) THEN open' = [open EXCEPT ![check[s]] = @ + 1] ELSE UNCHANGED open
    /\ UNCHANGED found
    /\ Continue(s)

(* Mutant: numbers that agree are passed over.                             *)
RecordMismatches(s) ==
    pc[s] = "saving" /\ ((inSync[s] /\ LetGo(s) /\ Continue(s)) \/ Refresh(s) \/ OpenException(s))

(* recordCheckResult().                                                    *)
Record(s) ==
    pc[s] = "saving" /\ (InSync(s) \/ AutoResolve(s) \/ Refresh(s) \/ OpenException(s))

(* An error ends the run; the scheduler starts another.                    *)
Fail(s) ==
    /\ pc[s] # "idle"
    /\ errors < MAX_ERRORS
    /\ errors' = errors + 1
    /\ pc' = [pc EXCEPT ![s] = "idle"]
    /\ todo' = [todo EXCEPT ![s] = {}]
    /\ check' = [check EXCEPT ![s] = NoCheck]
    /\ cached' = [cached EXCEPT ![s] = 0]
    /\ inSync' = [inSync EXCEPT ![s] = FALSE]
    /\ LetGo(s)
    /\ UNCHANGED <<half, books, disturbed>>

-----------------------------------------------------------------------------
(* resolveException(), by an operator.                                     *)

LoadException(o) ==
    /\ check[o] = NoCheck
    /\ \E k \in Checks :
         /\ open[k] > 0
         /\ check' = [check EXCEPT ![o] = k]
    /\ found' = [found EXCEPT ![o] = "open"]
    /\ UNCHANGED <<half, books, open, pc, todo, cached, inSync, errors, disturbed>>

ResolveException(o) ==
    /\ check[o] # NoCheck
    /\ check' = [check EXCEPT ![o] = NoCheck]
    /\ IF found[o] = "open" THEN ResolveRow(check[o], o) ELSE LetGo(o)
    /\ UNCHANGED <<half, books, pc, todo, cached, inSync, errors, disturbed>>

-----------------------------------------------------------------------------
Init ==
    /\ half \in {"wallets", "pools"}
    /\ balance = [w \in Wallets |-> 0]
    /\ ledger = [w \in Wallets |-> 0]
    /\ poolBalance = 0
    /\ poolLedger = 0
    /\ moves = 0
    /\ open = [k \in Checks |-> 0]
    /\ pc = [s \in Scanners |-> "idle"]
    /\ todo = [s \in Scanners |-> {}]
    /\ check = [a \in Actors |-> NoCheck]
    /\ cached = [s \in Scanners |-> 0]
    /\ inSync = [s \in Scanners |-> FALSE]
    /\ found = [a \in Actors |-> "none"]
    /\ errors = 0
    /\ disturbed = {}

Step(s) == Start(s) \/ LoadWallet(s) \/ Sum(s) \/ Look(s) \/ Record(s)

Next ==
    \/ \E w \in Wallets : Deposit(w)
    \/ Payout
    \/ Edit
    \/ \E s \in Scanners : Step(s) \/ Fail(s)
    \/ \E o \in Operators : LoadException(o) \/ ResolveException(o)

Spec == Init /\ [][Next]_vars

(* A scheduler starts a run every hour whatever became of the last, and a  *)
(* run that meets no error goes on to its end.  Of the other scanners (a   *)
(* process that is shut down) nothing is assumed.                          *)
Fairness == \A s \in Scheduled : WF_vars(Step(s))

FairSpec == Spec /\ Fairness

-----------------------------------------------------------------------------
(* Properties.                                                             *)

(* Every variable holds a value of its kind.                               *)
TypeOK ==
    /\ half \in {"wallets", "pools"}
    /\ balance \in [Wallets -> Int] /\ ledger \in [Wallets -> Int]
    /\ poolBalance \in Int /\ poolLedger \in Int
    /\ moves \in 0 .. MAX_MOVES
    /\ open \in [Checks -> Nat]
    /\ pc \in [Scanners -> {"idle", "loading", "summing", "looking", "saving"}]
    /\ todo \in [Scanners -> SUBSET Checks]
    /\ check \in [Actors -> Checks \cup {NoCheck}]
    /\ cached \in [Scanners -> Int]
    /\ inSync \in [Scanners -> BOOLEAN]
    /\ found \in [Actors -> {"none", "open", "resolved"}]
    /\ errors \in 0 .. MAX_ERRORS
    /\ disturbed \subseteq Scanners

(* One row per ongoing discrepancy (reconciliationException.model.js:7-11, *)
(* 48-52): overlapping runs that find none open do not both open one, and  *)
(* a row resolved by a run and an operator at once is resolved once.       *)
OneOpenException == \A k \in Checks : open[k] <= 1

(* What a scan says is true of books that stood still while it ran: it     *)
(* opens an exception only for a mismatch and resolves one only when the   *)
(* numbers agree.  (When money moves between its reads it may be wrong     *)
(* either way, see TruthInTheEnd.)                                         *)
VerdictsAreTrue ==
    [][\A s \in Scanners, k \in Checks :
         s \notin disturbed /\ pc[s] = "saving" /\ pc'[s] # "saving" /\ open'[k] # open[k] =>
             (open'[k] > open[k] <=> Mismatched(k))]_vars

(* When the books come to rest the exceptions tell the truth: a false      *)
(* alarm raised by a scan that read around a commit is resolved for good,  *)
(* and a discrepancy is reported again however often a torn read or an     *)
(* operator has resolved it.                                               *)
InScope(k) == (k \in Wallets) <=> (half = "wallets")

TruthInTheEnd ==
    \A k \in Checks :
        /\ <>[](InScope(k) /\ ~ Mismatched(k)) => <>[](open[k] = 0)
        /\ <>[](InScope(k) /\ Mismatched(k)) => []<>(open[k] = 1)
=============================================================================
