# A formal model of the U-BEE backend

U-BEE is a wallet service: customers hold naira in wallets, pay each other,
pay out to bank accounts, and partners (the first is SwiftPay) collect deposits
on virtual accounts whose money is pooled. The backend is a Node.js/Express
process on MongoDB (`backend/src`), with a .NET MAUI app (`mobile`) in front.
All paths below are relative to the repository.

What is hard about it is money under concurrency: every request handler yields
at each `await`, several processes may run the same code, a bank answers late,
ambiguously or not at all, and a crash can fall between any two writes. The
models here are about exactly that. They keep every guard, write and early
return of the services they cover, and abstract names, texts and wording.

Contents: [components](#components), [modules](#modules), [runs](#runs),
[fairness](#fairness), [proofs](#proofs), [what the models found](#what-the-models-found),
[limits of the models](#limits-of-the-models), [not modelled](#not-modelled), [plan](#plan).

## Components

How they fit together:

    app ── routes ─┬─ transaction (wallet transfers) ───────────┐
                   ├─ bankTransfer ──┐                          ├─ wallet + ledger
                   │                 ├─ bank provider           │
    partner ───────┼─ payout, refund ┘      │                   ├─ settlement pool
                   ├─ admin (pool accounts)  │                  │    + pool ledger
    bank webhook ──┼─ deposit ──────────────┼───────────────────┘
    admins ────────┼─ approval ─ adjustment ─┘ (wallet only)
                   └─ account state, KYC, disputes, sessions, OTP ...
    jobs: recoverStuckTransfers (rows left open), reconciliation (books)

All state is in MongoDB documents; components share it and call each other
directly. There are three ways a write can go wrong, and the models keep them
apart: a *transaction* aborts when a document it writes was written since its
snapshot; a *guarded update* (`findOneAndUpdate({_id, status: ...})`) does
nothing when the guard no longer holds; a *load and save* outside a transaction
overwrites the fields it changed, whatever has happened since.

| Component | State it keeps | Operations | What makes it hard | Correct when |
|---|---|---|---|---|
| bank transfers (`modules/bankTransfer`) | BankTransfer and Transaction rows, wallet, ledger | `initiate`, `markSuccess`, `flagForReview`, `reverse`, `resolveStuck` | ambiguous and late answers, crash between debit and call, races for balance and free allowance | no money is both given back and paid; books agree; every row is settled in the end |
| payouts, refunds (`modules/payout`, `modules/refund`) | Payout and Refund rows, pool, pool ledger | `processPayout`, `processRefund`, their reversals | as above, with two services and two recovery loops writing different ledger references | same, and one reversal per row |
| recovery job (`jobs/recoverStuckTransfers.job.js`) | none of its own | three loops | overlapping runs, crash in the middle | no run undoes another; nothing stays pending |
| bank provider (`providers`) | the bank's own | `initiateTransfer`, `checkTransferStatus` | says "ambiguous", says "unknown", changes its mind from accepted to bounced | external: modelled by its documented contract |
| deposits, bank webhook (`modules/deposit`, `providers/bankWebhook.routes.js`) | Deposit rows, wallet, pool, two ledgers | `processDeposit`, `resolveHeldDeposit` | duplicate and simultaneous notifications, two operators, retries | each payment enters once, in wallet and pool together |
| pool accounts (`modules/admin`) | wallet status and expected amount | assign, deactivate, release, `createPoolWallet`, export | load and save outside a transaction against deposits | one deposit per hand-out |
| wallet transfers (`modules/transaction`) | Transaction pairs, two wallets, ledger | `transfer` | crossing transfers, repeated keys, limits read before the transaction | money is kept; one transfer per key; truthful answers; limits hold |
| account state (`modules/account`) | User.accountState | `setAccountState` | lands between a check and a commit | |
| adjustments, approvals (`modules/adjustment`, `modules/approval`) | Adjustment and ApprovalRequest rows, wallet, ledger | `applyAdjustment`, `createRequest`, `approveRequest`, `rejectRequest` | two deciders at once, crash between applying and saving | applied once; two people; "approved" means applied |
| settlement pool, ledgers, wallet | balances and entries | credit, debit, post, sum | shared by all of the above | cached balance = sum of entries |
| reconciliation (`modules/reconciliation`) | ReconciliationException rows | two scans, record, resolve | reads in separate queries while money moves; overlapping runs | one open exception per discrepancy; verdicts true of books at rest; the truth in the end |
| sessions (`modules/session`) | RefreshToken rows | issue, rotate, revoke, revoke all, log out | two rotations of one token; a rotation cut short | no token is usable beside its successor |
| login and PIN (`modules/auth`) | attempt counter, lock, PIN | `checkPin`, lock, login, reset | parallel attempts on one counter | every wrong attempt counts; a full counter locks |
| one-time passwords, MFA (`modules/otp`, `modules/mfa`) | Otp rows, `mfaEnabled` | generate, deliver, verify; enable, disable | codes of one purpose offered for another; delivery that fails | a session behind a second factor was earned by a used login code |
| registration (`modules/auth`, `modules/wallet`) | User and Wallet rows | look-ups, create, create, clean up | two sign-ups with one number, a wallet that cannot be created | user and wallet come together |
| KYC (`modules/kyc`) | status, tier, identity numbers | submit, verify, reject | a submission or an account-state change between load and save | a higher tier has both numbers on file; a freeze is not undone |
| partners and signatures (`modules/partner`) | status, secrets, grace window | create, seed, suspend, rotate | rotation against suspension; requests signed before a rotation | the old secret stands during the grace; a suspension is not undone |
| admin users (`modules/adminUser`) | roles, status | bootstrap, create, login, disable | count, then create; a login under way while disabled | disabled stays disabled |
| disputes, notifications, audit log, operator reports, HTTP shell, bank directory, mobile client | | | | see [not modelled](#not-modelled) |

The hazards, each at its line, are in `PROJECT.json`, "hazards", with the
property that would notice the code going wrong there, or a note saying what is
still missing.

## Modules

| Module | Models |
|---|---|
| `BankRail` | the bank behind the provider adapter: what an instruction goes through, what `initiateTransfer` and `checkTransferStatus` may answer in each state |
| `Outbound` | abstract: what every movement out through the bank promises |
| `BankTransfer` | bank transfers with their part of the recovery job; INSTANCE of `Outbound`, purse = wallet |
| `PoolOutflow` | payouts and refunds with theirs; INSTANCE of `Outbound`, purse = pool |
| `Inbound` | abstract: what handling money coming in promises |
| `PoolAccount` | bank notifications, deposits, held deposits, the partner's calls on its accounts; INSTANCE of `Inbound` |
| `WalletTransfer` | transfers between wallets, with operators freezing accounts |
| `Approval` | approval requests and adjustments |
| `SignIn` | one customer's PIN, one-time codes, second factor and refresh tokens |
| `Registration` | signing up: user, wallet, clean-up |
| `Kyc` | a customer's file: identity numbers, tier, account state |
| `Partners` | partners, their secrets and status, their pool and accounts |
| `AdminUsers` | operator accounts |
| `Reconciliation` | both scans, the exceptions, the operator, over books that move |
| `Access` | the six components that decide who may do what (`Approval` to `AdminUsers`) side by side, and the properties checked of them |
| `MC...` | instances for TLC: symmetry, constants in the `.cfg` |
| `Sums` | facts about the sum of a function over a finite set, on which the books' theorems rest |
| `...Proofs` | theorems, beside `Outbound`, `BankTransfer`, `PoolOutflow`, `PoolAccount`, `WalletTransfer`, `Reconciliation` and, for its six components, `Access` |

Conventions shared by the modules:

* An *instruction* or *call* is one execution of the service function and, at
  the same time, the row that execution creates. `pc` says at which `await` it
  is. Between two awaits JavaScript runs alone, so that stretch is one action.
* A database transaction is a begin action that takes the snapshot (`snap`,
  `view`) and a commit action. A commit on a document that was written in
  between is disabled and only the abort is left: `overtaken` (or `stale`) names
  the open transactions whose snapshot has been overtaken. A transaction reads
  from its snapshot, so the values it writes are computed from `snap`.
* A unique index is a guard of the insert; the duplicate-key error is an action
  of its own where the code handles it.
* `Die`, `CrashCall`, `CrashPass`, `CrashLoop`: the process stops at an await.
  Rows stay, everything in memory is gone. An error that the code does not
  handle has the same effect and is the same action. Where no liveness is
  claimed of a call (`SignIn`, `Kyc`, `Partners`, `AdminUsers`, `Registration`,
  the unscheduled scanners of `Reconciliation`) a process that dies is simply a
  call that takes no further step.
* A load and save is an action that keeps what was loaded and an action that
  writes the fields that differ from it (`Saved`, `Field`), as mongoose does.
* Definitions under a comment that starts with "Mutant:" are wrong on purpose:
  each replaces the definition that follows it, and the property named with it
  in `PROJECT.json` must then fail. No specification uses them.

### BankRail

An instruction is `none`, `sent`, `queued`, `paid`, `bounced` or `refused`. The
call travels and the answer travels back: the bank may have acted without the
caller learning it (`ambiguous`), and a status check answers from what the bank
knows at that moment, or `unknown` always. `accepted` and `success` mean the
bank has taken the instruction (it may still bounce); `rejected` and `failed`
mean it will never pay. This is `providers/bankProvider.interface.js:21-71`; the
mock adapter is one of the allowed behaviours.

### BankTransfer

`Lookup` (the key), `CheckDailyLimit`, `BeginDebit`/`CommitDebit`/`AbortDebit`
(the transaction: allowance, fee, balance, rows, entries), `CallProvider`,
`ProviderAnswers`, `SettleAccepted`/`SettleRejected`/`SettleAmbiguous`, and
`FinishSuccess` for the second write of `markSuccess`. A pass of the recovery
job is `ListStuck`, then per row `AskStatus` and `ResolveSuccess`,
`ResolveFailed` or `ResolveUnknown`. The three transitions `MarkSuccess`,
`FlagForReview` and `Reverse` are shared by both, as in the code.

### PoolOutflow

Payouts and refunds are one model because they share the pool and have the same
shape; each step says where they differ: a refund goes through `processing` and
can still bounce, a payout is `success` at once; the service's reversal and the
recovery job's reversal post under different references, so that the unique
index would not stop the second, and only the guarded status does.

### PoolAccount

A webhook request (`Handlers`) looks up the reference, opens the transaction,
and holds, confirms, finds a duplicate or is refused. An operator's
`resolveHeldDeposit` runs in a transaction of its own. The partner's three calls
load the wallet and save it later without a guard, and mongoose writes only the
fields that differ from what was loaded (`WritesStatus`, `WritesExpected`).
`Spend` is the pool's debit by payouts. `opened` is a history variable: how
often an account went to `assigned`.

### WalletTransfer

`Lookup`, `CheckSender` (account state, limits, read outside the transaction),
`Begin`, `Commit` or `FindDuplicate` or `Abort`. `CountedToday` is empty: see
the findings. The single-transfer limit is the bound on `Amounts`.

### Approval

Three kinds of call (approve, reject, adjust) and `CreateRequest`. Approving
runs `applyAdjustment` and then saves the decision, in two writes; a request is
saved by its id alone, so the last save wins. `makerChecker` is
`env.REQUIRE_MAKER_CHECKER`, chosen at the start. Roles are the sets `Makers`
and `Checkers`, which may overlap (a superadmin).

### SignIn

A call is one request: login, confirming a payment, completing a login with a
code, a forgotten PIN and its reset, refreshing, logging out, revoking one or
all sessions, enabling and disabling the second factor. Its first step is its
first read (`Receive...`), each later step one write. `checkPin` increments the
counter in the database (`Incremented`, an `$inc`) and locks from the value that
comes back; a code's counter is written from the value that was loaded
(`SaveOtp`). Rotation is `RevokeOld` (`GiveUpOld`) and then `CreateSuccessor`, two
writes. `guesses` is a history variable.

### Registration, Kyc, Partners, AdminUsers

`Registration` is `registerUser`: two look-ups, `User.create`, `createWallet`
and, when that fails, the user's deletion. `Kyc` puts `submitKyc` (one update),
`verifyKyc` and `setAccountState` (loads and saves) on one User document.
`Partners` has `createPartner`, `setPartnerStatus`, `rotateWebhookSecret` and
`ensurePartnerFromEnv`, what the signature check `Accepts`, and
`createPoolWallet` with its three writes. `AdminUsers` has the bootstrap,
creation, login and `setStatus`, behind the check every admin route makes
(`LetIn`), also with the shared key that may still be on.

### Access, MCAccess

These five and `Approval` share no state in the models. `Access` puts them side
by side, so that they have one set of constants and their properties one place
(`RulingsHold` speaks of three of them); its specification is the conjunction of
theirs. Running them together would only multiply their states, so `MCAccess`
adds `focus`, which picks one of them at the start while the others stay where
they are: the states add up. Every property is checked in every behaviour; each
is about one component or a conjunction of such.

### Reconciliation

`Start`, `LoadWallet`, `Sum`, `Look` and `Record` are the steps of a scan between
awaits, `half` says which of the two scans it is. A pool is loaded once for both
its checks, so the second compares with a balance read before the first. Between
any two steps deposits, payouts and edits of the database (`Edit`, what the
check exists for, and its manual repair) move the books. The exceptions of a
check are counted: `found` says whether a scanner or an operator holds one that
is still open or has been resolved since. `disturbed` is a history variable: the
scanners whose run has seen the books move.

## Runs

| Run | Instance | What it shows |
|---|---|---|
| `transfer_core` | 2 calls, 1 customer, 2 keys, amounts 95 and 100, fee 10, 1 free, 1 pass | safety and refinement of bank transfers |
| `transfer_live` | 1 call, 2 overlapping passes, fair | no pass undoes the other; nothing stays pending; review is settled if the bank tells |
| `transfer_history` | 1 call, 1 pass, fair | *violation*: the history row can stay pending |
| `pool_core` | 2 instructions of either kind, 1 pool, 2 keys, 1 run of each loop | safety and refinement of payouts and refunds |
| `pool_live` | 1 instruction, 1 payout loop, 2 refund loops, fair | overlapping loops; nothing stays pending or processing |
| `deposit_core` | 2 payments, 2 requests, 2 operators, 2 partner calls, 1 payout | safety and refinement of deposits |
| `deposit_live` | 2 payments, 2 requests, 1 partner call, fair | every notification is answered |
| `deposit_refused` | 1 payment | *violation*: "recorded for manual review" records nothing |
| `wallet_core` | 2 calls, 2 customers, 1 partner account, 1 key or none, amounts 60 and 100 | safety of transfers |
| `wallet_daily` | 2 calls, 1 customer, limit 100 | *violation*: the daily limit does not limit |
| `access_core` | corrections: 2 calls, 2 requests, 3 admins, 2 references; sign-in: 2 requests, limits of 2, a session and perhaps a code at the start; files: 2 customers, 2 clerks; partners: 1, with 3 secrets and 3 requests; operators: 2 names, 3 requests; 3 sign-ups | safety of who may do what |
| `recon_core` | 2 overlapping scanners of which 1 is scheduled, 1 wallet, 1 operator, 3 movements or edits, 1 error, fair | one open exception, true verdicts, the truth in the end |

Why these bounds are enough for the cases that matter:

* *Two* calls are the least that race, and every guard in the code is about a
  pair (one key, one balance, one opening, one row). The transfers' opening
  balance of 205 pays for both transfers when the cheaper one is charged the fee
  and not when the dearer one is, so both the allowance and the balance are contested;
  the pool's 200 pays two small instructions or one large one.
* *Two* passes or loops are needed for overlap; they are run over one row,
  because passes share nothing but rows.
* One customer and one account concentrate the conflicts; the properties that
  need two (crossing transfers, another customer's key) have two in `wallet_core`.
* Amounts are few because only comparisons and sums matter; they differ so that
  sums tell the entries apart. Wallet amounts fit a JavaScript integer by far
  and no bound on their size is at stake.

* `recon_core` needs two movements for a torn read that is repaired by a second
  one, and a third to break the books for good; a scan of one wallet and a pool
  already has every read the code makes, and the second wallet of a scan starts
  where the first has ended.
* Limits of 2 attempts: the second wrong PIN is the one that locks, and two
  parallel ones are the least that can both be it.

No counter in the models is unbounded: each call runs once, so the numbers of
calls, instructions, payments and orders bound everything else. Recovery passes,
scans and the bank's repeats are unbounded cycles over a finite state space.
Named bounds are `MAX_MOVES` and `MAX_ERRORS` (`Reconciliation`: movements of the
books, runs cut short); `MAX_PIN_ATTEMPTS` and `MAX_ATTEMPTS` are the code's own.
`Secrets` and `Numbers` bound the secrets and account numbers that are generated.
`CHECK_DEADLOCK FALSE` is set where the system may stop: when every call has
ended and nothing runs on its own (`MCPoolAccount`, `MCAccess`).

The properties that relate several actors:

* `OutcomeMatchesRail`: given back only what the bank will never pay.
* `BooksAgree`, `BalancesMatchLedger`: rows, ledgers and cached balances tell
  one story in every state, and no money is made or lost on the way.
* `OutcomeIsFinal`: no late answer or second pass moves a settled row.
* `KeepsPromise`: the refinement to `Outbound` or `Inbound`.
* `OneTransferPerKey`, `OneInstructionPerKey`, `OncePerReference`: repeated
  requests, also simultaneous ones.
* `FeeReflectsAllowance`: the fee is right at the moment of the commit though it
  was decided in the snapshot.
* `OneCreditPerOpening`: one payment per hand-out of an account.
* `AnswersAreTrue`, `TakesTwoAdmins`.
* `ApprovedIsApplied`: an approved request's reference has a correction on file,
  and it is the one asked for unless somebody else had used the reference.
* `AttemptsAreCounted`: parallel wrong PINs, from two screens, each count, and
  nobody is left with a full counter and no lock on its way.
* `EverySessionWasEarned`: every session goes back to the right PIN and, where
  the account asks for one, to a login code that has been used.
* `OldTokenDies`: no refresh token is usable beside its successor.
* `HigherTierHasBoth`, `OneAccountEach`: what the document and its indexes say
  together.
* `RulingsHold`: a freeze, a suspension, a ban is lifted by an operator's own
  decision and by no other save of the same document.
* `RotationKeepsOld`: what was signed before a rotation still verifies after it.
* `OneOpenException`, `VerdictsAreTrue`: overlapping scans.
* `NothingStaysPending`, `DealtWithGetsSettled`, `EveryNoticeAnswered`,
  `TruthInTheEnd`: liveness.

`TypesOK` in `access_core` is the six components' type invariants together.

## Fairness

Nothing is assumed of the calls of customers and partners (they may stop
anywhere), of operators, or of the bank's own moves.

* `RecoveryRuns` (`BankTransfer`, `PoolOutflow`): `startScheduler` starts a pass
  every five minutes whatever became of the one before
  (`jobs/recoverStuckTransfers.job.js:314-319`), so listing is weakly fair. A pass can
  be cut short by a crash at every await, which disables its next step, and is
  followed by another pass that lists the same rows; hence strong fairness for
  its steps, row by row. What this excludes is only a process that crashes at
  the same row at every pass for ever. The job is opt-in
  (`RUN_RECOVERY_JOB=true`); without it no liveness is claimed.
* `BankTells` is a hypothesis inside `DealtWithGetsSettled`: a bank whose status
  check is not "unknown" for ever.
* `BankRetries` (`PoolAccount`): a request being served ends, the bank repeats
  what it has had no 2xx for, and a transient failure does not strike every
  attempt at the same step (`providers/bankWebhook.routes.js:64-68,80-83`).
* `Fairness` (`Reconciliation`): the steps of a *scheduled* scanner are weakly
  fair: the scheduler starts a run every hour whatever became of the last, and a
  run that meets no error ends. Errors are bounded (`MAX_ERRORS`); the scans of
  a process that is shut down, and operators, may stop anywhere.

## Proofs

TLC checks the instances above; TLAPS proves the following for every number of
calls, customers, pools, accounts, scanners and loops, and for all values of the
constants that satisfy the named assumptions. Each assumption is in the module
that declares the constant:

| Module | Assumption |
|---|---|
| `BankTransfer`, `WalletTransfer` | `AmountsArePositive`: amounts are positive, limits and fees natural numbers |
| `WalletTransfer` | `AccountsDiffer`, `NoKeyIsNoKey`; `AccountsAreFinite`: finitely many wallets, so that what they hold together is a number |
| `OutboundProofs` | `MoneyIsNatural`, a hypothesis of its theorems; both instances prove it |
| `PoolOutflow` | `PoolAmountsArePositive`; `LoopsDiffer`: no loop is both a payout and a refund loop |
| `PoolAccount` | `PaymentsArePositive`, `NowhereIsNoAccount`, `ExpectedInKobo`; `ActorsDiffer`: requests, operators, partner calls and spendings have different names, since one variable tells their transactions apart (TLC's instances satisfied it all along; the proof showed that it is needed) |
| `Approval` | `CorrectionsArePositive` |
| `SignIn` | `LimitsArePositive`: both attempt limits are positive |
| `Access` | `NothingIsNothing`: what stands for a missing identity number or a missing secret (null in the documents) is none of them |
| `Reconciliation` | `AmountIsPositive`, `ChecksDiffer`, `ActorsDiffer` |

None of the properties is inductive by itself. What the inductive invariant
(`IInv`, or the name given below) adds to the property is the argument.

### Sums

`BooksAgree` and `BalancesMatchLedger` speak of sums over sets, and the sum of
the community modules is a recursive function on the subsets of a set. The
library's induction theorems take an operator as a parameter, which the
installed provers cannot instantiate; `Sums` does without. Strict inclusion is a
well-founded ordering of the subsets of a finite set, so a *set* of subsets that
contains every subset all of whose proper subsets it contains is the whole
power set (`SubsetInduction`). With it: the sum is well defined
(`AddsExists`, `AddsUnique`) and an integer (`SumInt`); it can be taken apart at
any element, not just at the one the recursion picks (`SumSplit`); adding an
element adds its value (`SumGrows`); changing the function at one element
changes the sum by the difference (`SumChanges`). The proofs of the books need
nothing else about sums.

### Money

* `BankTransferProofs`. `IInv`: `TypeOK`; `CallInv`, where a call may be while
  its row does not exist yet and that the bank knows nothing of it until then;
  `AnswerInv`, that what a call or a pass has been told is *still* true when it
  acts on it ("taken" and "will not pay" are for ever, which is what makes
  acting on an old answer sound); `SnapshotInv`, that an open transaction that
  has not been overtaken has read the balance it will write over; and
  `OutcomeMatchesRail`. From it: `TypeCorrect` (no wallet is overdrawn),
  `OutcomeCorrect`, `FinalCorrect` (an action property), `KeysCorrect`, and
  `PromiseKept`: `BankTransfer` implements `Outbound`.
  `BooksCorrect`: with the ledger and the rows finite (`FiniteInv`), each
  debit and each reversal posts entries that were not there, so that a sum grows
  by what the balance moved by. `FeeCorrect` (an action property): `PriceInv`,
  that the fee an open transaction has decided on is today's unless its wallet
  has been written since. Whatever changes the number of transfers that count
  (`UsedToday`: a debit, a reversal) writes that very wallet, so that a stale
  fee never commits; this is why the allowance, which no unique index or guard
  protects, is safe from two simultaneous requests.
* `PoolOutflowProofs`: the same argument with two services and two loops, each of
  which may act on an old answer of its own; `TypeCorrect`, `OutcomeCorrect`,
  `FinalCorrect`, `KeysCorrect`, `PromiseKept` (also `Outbound`, the purse being
  the pool), and `BooksCorrect`, in which the guarded status is what keeps the
  service's reversal and the loop's, posted under different references, apart.
* `OutboundProofs`: the abstract promise itself implies that nothing given back
  is ever paid and nothing the bank has not accepted is booked as sent
  (`PromiseIsSafe`), that no purse is overdrawn, and that money is
  neither made nor lost (`PursesAreAccountedFor`: a purse and what has been taken
  out of it and not put back make up what it held at the start; the invariant
  adds that finitely many instructions have been charged). `PromiseCarries` in
  `BankTransferProofs` and `PoolOutflowProofs` instantiates these theorems with the
  refinement mapping: a wallet is short of its opening balance by exactly the
  transfers that did not fail, a pool by its payouts and refunds. These two and
  the theorems of `OutboundProofs` are about properties no run lists; what TLC
  checks of them is in `KeepsPromise` and `BooksAgree`.
* `PoolAccountProofs`. `IInv`: `TypeOK`; `DepositInv`, that only payments for a
  pool's account are recorded; `TxnInv`, that a transaction has read what is there
  unless a write conflict tells it otherwise; `OrderInv`, that a call of the
  partner saves the wallet it has loaded; `OpeningInv`, that an account that is
  open has an opening left over. From it: `TypeCorrect`, `OpeningsCorrect`, and
  `PromiseKept`: `PoolAccount` implements `Inbound`. `BooksCorrect`: `EntryInv`,
  that every credit in either ledger is a confirmed deposit's own.
* `WalletTransferProofs`. `IInv`: `TypeOK`; `OpenInv`, that an open transfer names
  two different wallets and has read a balance that covers it; `SnapshotInv`;
  `AnswersAreTrue`; `EntryInv`, that entries belong to booked transfers; and
  `BooksAgree` itself. From it: `TypeCorrect`, `AnswersCorrect`, `KeysCorrect`,
  `BooksCorrect` (the wallets together hold what they were opened with, each what
  its entries say) and `MoneyMovesInPairs`: every step leaves all balances alone
  or takes from one wallet exactly what it gives to another.
* `ReconciliationProofs`: `ScanOK` (types), `PlaceInv`, `RowInv`, that whoever
  holds an open row holds one there is; `FreshInv`, that an undisturbed scan's
  numbers are today's. From it: `OneOpenCorrect` and `VerdictsCorrect`.

### Who may do what

`AccessProofs` has a section for each component of `Access`.

* Approvals, `ApprovalInv`: `CallInv`, that a call let past its checks stays
  entitled to act; `RequestInv`; `SnapshotInv`; `AppliedInv`, that a correction
  that counts as applied is on file, `ApprovedOnFile`, the same of an approved
  request; `FiledInv`, that what is on file was asked for by a call entitled to
  it, to the letter. From it: `TypeCorrect`, `OnceCorrect`,
  `ApprovedCorrect`, `TwoAdminsCorrect`, and `BooksCorrect`
  (`BalancesMatchLedger`: of two overlapping corrections of a wallet both count
  or one fails).
* Signing in, `SignInInv`: what a request has proved at the place it has
  reached; `CodeInv`, that a login code was sent by a login that had the right
  PIN; `ParentInv`; `SessionInv`, that who opened a session had earned it. From
  it: `AttemptsCorrect`, `OldTokensDie`, `SessionsEarned`. The step lemmas rest
  on `Kept`: rows are only added, a used code and a revoked token stay so.
* Customers' files, `FileInv`: what a decision under way will write. It rests
  on two facts about the code: a decision writes no identity number, and numbers
  once on file are replaced but never removed, so that both are still there when
  a tier decided on an older load is saved. From it: `TierCorrect` and the first
  part of `RulingsCorrect`.
* Partners, `PartnerInv`: `SecretInv`, that a partner's secret has been generated
  and is not its previous one, and what a request under way will write (a save
  writes only the fields that differ from the load, so a rotation's fields and a
  suspension's do not meet). From it: `RotationCorrect` and the second part of
  `RulingsCorrect`. Both are action properties.
* Operator accounts, `VisitInv`: the status a login will save is the one it has
  loaded, so that it writes none. From it: the third part of `RulingsCorrect`.
* Registration, `SignUpInv`: where a sign-up stands says which rows it has left
  behind. From it: `AccountsCorrect`.
* `TypesCorrect` puts the six type invariants together.

The theorems about approvals and signing in have `Spec` and `SignInSpec` as their
hypothesis, those about the other components that component's specification
(`KY!Spec`, `PA!Spec`, ...), and the two that speak of several their conjunction.

### Only model-checked

Liveness: `NothingStaysPending`, `DealtWithGetsSettled`, `EveryNoticeAnswered` and
`TruthInTheEnd`. Neither `ENABLED` nor fairness is in reach of the prover. Every
other property of a passing run is a theorem. The properties of the violating
runs are false.

## What the models found

* `transfer_history` — `markSuccess` writes the transfer and the history row in
  two writes; a crash between leaves the customer's history pending for ever,
  since no pass lists a settled transfer (`bankTransfer.service.js:61-70,292-295`).
* `deposit_refused` — a payment that fails with a "terminal" error is answered
  `recorded_for_manual_review` and nothing is recorded
  (`bankWebhook.routes.js:76-78`).
* `wallet_daily` — the daily total of wallet transfers compares an ObjectId with
  a string and is always zero (`transaction.service.js:55-58`).

Seen while modelling, as counterexamples of properties the repository does not
state; the hazards list them without a property:

* a payout or refund in `requires_review` is looked at by nothing again, though
  the provider interface says the status check resolves it later
  (`recoverStuckTransfers.job.js:149,263`);
* an acknowledged assign leaves the account closed (`admin.service.js:103`);
* wallets add up to more than the pool after a payout (`settlementPool.model.js:6`;
  reconciliation's second pool check then reports a mismatch in good order);
* a rejected request whose correction was applied (`approval.service.js:113`);
* an approved request that has moved nothing: its reference had been used by
  another request for another wallet, direction or amount, `applyAdjustment`
  answers with that row (`adjustment.service.js:24-25,71-74`) and the approval
  takes it for its own. `ApprovedIsApplied` says exactly what is left: such a
  request has somebody else's correction under its reference;
* two pools for one partner, when its first two accounts are created at once
  (`admin.service.js:28`);
* two successors of one refresh token, when it is rotated twice at once, and a
  session that survives revoke-all, when its token is being rotated
  (`session.service.js:59,145`);
* wrong one-time codes counted once for two parallel tries (`otp.service.js:82`).

## Limits of the models

* One day: no row ages out of the daily windows, and the recovery threshold
  (`STALE_THRESHOLD_MS`) counts as elapsed, the worst case for races with calls
  still running.
* Transactions are snapshot isolation with first-committer-wins on the documents
  both write, at commit. MongoDB may report the conflict earlier, at the write;
  that only makes a doomed transaction end sooner. Unacknowledged commits are
  the crash actions.
* Amounts, names, texts, signatures, encryption, notifications and audit entries
  are abstracted. An audit entry is written after the fact and never fails its
  caller, so nothing the properties speak of depends on it.
* Wallets are modelled per component. What a transfer, a deposit and an
  adjustment do to one wallet at the same time is not composed yet; the conflict
  rule is the same for all of them.
* `SignIn` is about one customer. Refresh tokens do not reach their 30-day
  expiry, and `exceptSessionId` of revoke-all is left out: no route passes it.
* `Registration`: the database's answer to creating the wallet is never
  ambiguous. Were the wallet written and the answer lost, the clean-up would
  leave a wallet without its user; with a driver that retries writes that takes
  two failures in a row.
* `Reconciliation` counts open exceptions and does not keep the resolved ones;
  the numbers written on a row (expected, actual) are left out. What moves the
  books are three actions standing for all that moves money: both sides at
  once, the pool alone with its ledger, and a write behind the services' back.

## Not modelled

* *Disputes*: a dispute moves no money, nothing reads its status, and updates
  are loads and saves of which the last wins; no document promises more.
* *Notifications and device tokens*, *audit log*: fire-and-forget; they never
  fail their caller and nothing modelled reads them.
* *Operator reports*, listings, histories, the settlement export: reads only.
* *Bank directory and partner-bank mock*: a static list, and a stand-in for an
  external bank; what the bank does is `BankRail`.
* *HTTP shell*: routing, validation, rate limits, configuration; what they
  guarantee to the services is the models' input sets.
* *Mobile client*: outside the backend. It decides when a submit carries an old
  idempotency key and when a new one; the service models allow every choice of
  key.

## Plan

What is left, in order:

1. Composition of wallets: transfers, deposits and corrections on one wallet and
   its pool (`Books`), with the abstract specification "a ledger that only grows
   and a balance that equals it", which all money components implement.
2. `MobileSubmit`: the app's key handling composed with the transfer services
   (a new key for each submit; a key dropped on an answer with a status).
3. The settlement export over deposits that are held and accepted later.
