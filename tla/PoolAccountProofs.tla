-------------------------- MODULE PoolAccountProofs --------------------------
(***************************************************************************)
(* Theorems about PoolAccount, for any number of payments, accounts,       *)
(* requests, operators, calls of the partner and spendings.                *)
(***************************************************************************)
EXTENDS PoolAccount, Sums

(* Only payments for a pool's account are ever recorded.                   *)
DepositInv == \A r \in References : deposit[r] # "absent" => payment[r].account \in Accounts

(* What a transaction has read is what is there, unless it knows (by a     *)
(* write conflict) that it is not.                                         *)
TxnInv ==
    \A t \in Txns : InOpenTxn(t) =>
        /\ Account(t) \in Accounts
        /\ "account" \notin stale[t] => wallet[Account(t)] = view[t]
        /\ t \in Handlers => view[t].status = "assigned"
        /\ t \in Operators /\ "deposit" \notin stale[t] => deposit[work[t]] = "held"

(* An account that is open has an opening left over.                       *)
Arrivals(a) == {e \in ledger : e.account = a /\ e.how = "arrival"}
OpenNow(a)  == IF wallet[a].status = "assigned" THEN 1 ELSE 0

OpeningInv ==
    /\ IsFiniteSet(ledger)
    /\ \A a \in Accounts : Cardinality(Arrivals(a)) + OpenNow(a) <= opened[a]

(* A call of the partner saves the wallet it has loaded.                   *)
OrderInv == \A c \in Orders : orderPc[c] = "loaded" => order[c].account \in Accounts

IInv == TypeOK /\ DepositInv /\ OrderInv /\ TxnInv /\ OpeningInv

-----------------------------------------------------------------------------
LEMMA NewWalletType == NewWallet \in Wallets
  BY DEF NewWallet, Wallets

LEMMA PaymentType ==
    ASSUME TypeOK, NEW r \in References
    PROVE  /\ payment[r].account \in Accounts \cup {Nowhere}
           /\ payment[r].amount \in Amounts /\ payment[r].amount \in Nat \ {0}
  <1>1. payment[r] \in Payments
    BY DEF TypeOK
  <1>2. QED
    BY <1>1, PaymentsArePositive DEF Payments

(* The account of a transaction that adds a payment to it.                 *)
LEMMA AddType ==
    ASSUME TypeOK, NEW t \in Txns, work[t] \in References, NEW w \in Wallets
    PROVE  /\ Add(w, t) \in Wallets /\ Close(Add(w, t)) \in Wallets
           /\ Add(w, t).balance = view[t].balance + Amount(t)
           /\ Close(Add(w, t)).balance = view[t].balance + Amount(t)
           /\ Add(w, t).status = w.status /\ Close(Add(w, t)).status = "deactivated"
  <1>1. view[t].balance \in Nat /\ Amount(t) \in Nat
    BY PaymentType DEF TypeOK, Wallets, Amount
  <1>2. Add(w, t) = [status |-> w.status, expectedAmount |-> w.expectedAmount,
                     balance |-> view[t].balance + Amount(t)]
    BY DEF Add, Wallets
  <1>3. Close(Add(w, t)) = [status |-> "deactivated", expectedAmount |-> w.expectedAmount,
                            balance |-> view[t].balance + Amount(t)]
    BY <1>2 DEF Close
  <1>4. QED
    BY <1>1, <1>2, <1>3 DEF Wallets

LEMMA OvertakeType ==
    ASSUME TypeOK, NEW by, NEW a, NEW r, NEW docs \in SUBSET Docs, Overtake(by, a, r, docs)
    PROVE  stale' \in [Txns -> SUBSET Docs]
  BY DEF Overtake, Touched, TypeOK

LEMMA PostType ==
    ASSUME TypeOK, NEW r \in References, payment[r].account \in Accounts,
           NEW how \in {"arrival", "resolution"}, Post(r, how)
    PROVE  /\ ledger' \subseteq [ref: References, how: {"arrival", "resolution"},
                                 account: Accounts, amount: Amounts]
           /\ poolLedger' \subseteq [ref: References \cup Spendings, direction: {"credit", "debit"},
                                     amount: Amounts]
           /\ poolBalance' \in Nat /\ poolBalance' = poolBalance + payment[r].amount
  <1>1. Credit(r, how) \in [ref: References, how: {"arrival", "resolution"},
                            account: Accounts, amount: Amounts]
    BY PaymentType DEF Credit
  <1>2. PoolCredit(r) \in [ref: References \cup Spendings, direction: {"credit", "debit"}, amount: Amounts]
    BY PaymentType DEF PoolCredit
  <1>3. poolBalance' \in Nat
    BY PaymentType DEF Post, TypeOK
  <1>4. QED
    BY <1>1, <1>2, <1>3 DEF Post, TypeOK

LEMMA SavedType ==
    ASSUME NEW o \in Asked, NEW w \in Wallets
    PROVE  /\ Saved(o, w) \in Wallets /\ Saved(o, w).balance = w.balance
           /\ Saved(o, w).status = IF WritesStatus(o) THEN Target[o.op] ELSE w.status
           /\ ~ WritesStatus(o) /\ ~ WritesExpected(o) => Saved(o, w) = w
           /\ Target[o.op] \in {"available", "assigned", "deactivated"}
           /\ Target[o.op] = "assigned" <=> o.op = "assign"
  <1>1. o.op \in {"assign", "deactivate", "release"} /\ o.expectedAmount \in ExpectedAmounts \cup {NotSet}
    BY DEF Asked, Target
  <1>2. Target[o.op] = CASE o.op = "assign" -> "assigned" [] o.op = "deactivate" -> "deactivated"
                         [] OTHER -> "available"
    BY <1>1 DEF Target
  <1> DEFINE st == IF WritesStatus(o) THEN Target[o.op] ELSE w.status
             ex == IF WritesExpected(o) THEN o.expectedAmount ELSE w.expectedAmount
  <1>3. Saved(o, w) = [w EXCEPT !.status = st, !.expectedAmount = ex]
    BY DEF Saved
  <1>4. st \in {"available", "assigned", "deactivated"} /\ ex \in ExpectedAmounts \cup {NotSet}
    BY <1>1, <1>2 DEF Wallets
  <1>5. ~ WritesStatus(o) /\ ~ WritesExpected(o) => st = w.status /\ ex = w.expectedAmount
    OBVIOUS
  <1> HIDE DEF st, ex
  <1>6. /\ [w EXCEPT !.status = st, !.expectedAmount = ex] \in Wallets
        /\ [w EXCEPT !.status = st, !.expectedAmount = ex].balance = w.balance
        /\ [w EXCEPT !.status = st, !.expectedAmount = ex].status = st
    BY <1>4 DEF Wallets
  <1>7. [w EXCEPT !.status = st, !.expectedAmount = ex]
          = [[w EXCEPT !.status = st] EXCEPT !.expectedAmount = ex]
    BY DEF Wallets
  <1>8. st = w.status /\ ex = w.expectedAmount => Saved(o, w) = w
    BY <1>3, <1>7 DEF Wallets
  <1>9. st = IF WritesStatus(o) THEN Target[o.op] ELSE w.status
    BY DEF st
  <1>10. QED
    BY <1>1, <1>2, <1>3, <1>5, <1>6, <1>8, <1>9

LEMMA TypeInit == Init => TypeOK
  <1>1. NothingLoaded \in Asked
    BY NewWalletType DEF NothingLoaded, Asked, Target
  <1>2. QED
    BY <1>1, NewWalletType DEF Init, TypeOK, Statuses
-----------------------------------------------------------------------------
(* Transactions.                                                           *)

(* Everybody else's transaction is as it was, and the books it reads too.  *)
LEMMA TxnFrame ==
    ASSUME TypeOK, TxnInv, NEW by, UNCHANGED <<payment, wallet, deposit>>,
           by \in Txns => pc'[by] # "open",
           \A t \in Txns \ {by} : /\ pc'[t] = pc[t] /\ work'[t] = work[t]
                                  /\ view'[t] = view[t] /\ stale'[t] = stale[t]
    PROVE  TxnInv'
  BY DEF TxnInv, InOpenTxn, Account

(* A write overtakes every open transaction that has read what it wrote.   *)
LEMMA Overtaken ==
    ASSUME TypeOK, TxnInv, NEW by, NEW a, NEW r, NEW docs, Overtake(by, a, r, docs),
           payment' = payment, by \in Txns => pc'[by] # "open",
           \A t \in Txns \ {by} : pc'[t] = pc[t] /\ work'[t] = work[t] /\ view'[t] = view[t],
           \A b \in Accounts : b # a \/ "account" \notin docs => wallet'[b] = wallet[b],
           \A q \in References : q # r \/ "deposit" \notin docs => deposit'[q] = deposit[q]
    PROVE  TxnInv'
  <1> SUFFICES ASSUME NEW t \in Txns, pc'[t] = "open"
               PROVE  /\ Account(t)' \in Accounts
                      /\ "account" \notin stale'[t] => wallet'[Account(t)'] = view'[t]
                      /\ t \in Handlers => view'[t].status = "assigned"
                      /\ t \in Operators /\ "deposit" \notin stale'[t] => deposit'[work'[t]] = "held"
    BY DEF TxnInv, InOpenTxn
  <1>1. t # by /\ pc[t] = "open" /\ Account(t)' = Account(t) /\ work'[t] = work[t] /\ view'[t] = view[t]
    BY DEF Account
  <1>2. stale'[t] = stale[t] \cup Touched(t, a, r, docs)
    BY <1>1 DEF Overtake, InOpenTxn
  <1>3. work[t] \in References /\ Account(t) \in Accounts
    BY <1>1 DEF TypeOK, TxnInv, InOpenTxn
  <1>4. ASSUME "account" \notin stale'[t] PROVE wallet'[Account(t)] = view[t]
    <2>1. "account" \notin stale[t] /\ (Account(t) # a \/ "account" \notin docs)
      BY <1>2, <1>4 DEF Touched
    <2>2. QED
      BY <1>1, <1>3, <2>1 DEF TxnInv, InOpenTxn
  <1>5. ASSUME t \in Operators, "deposit" \notin stale'[t] PROVE deposit'[work[t]] = "held"
    <2>1. "deposit" \notin stale[t] /\ (work[t] # r \/ "deposit" \notin docs)
      BY <1>2, <1>5 DEF Touched
    <2>2. QED
      BY <1>1, <1>3, <1>5, <2>1 DEF TxnInv, InOpenTxn
  <1>6. QED
    BY <1>1, <1>3, <1>4, <1>5 DEF TxnInv, InOpenTxn

-----------------------------------------------------------------------------
(* What each step does.                                                    *)

(* The steps of a handler that leave the books alone.                      *)
LEMMA QuietServe ==
    ASSUME TypeOK, TxnInv, NEW h \in Handlers,
           \/ \E r \in References : Receive(h, r)
           \/ Open(h) \/ FindDuplicate(h) \/ Answer(h) \/ Fail(h)
    PROVE  TypeOK' /\ TxnInv' /\ UNCHANGED <<payment, books, opened>>
  <1>0. h \in Txns /\ NewWallet \in Wallets
    BY NewWalletType DEF Txns
  <1>5. UNCHANGED <<payment, books, opened>>
    BY DEF Receive, Open, FindDuplicate, Answer, Fail, bank, books, calls
  <1>1. ASSUME NEW r \in References, Receive(h, r) PROVE TypeOK' /\ TxnInv'
    <2>1. TypeOK'
      BY <1>0, <1>1 DEF TypeOK, Receive, Begin, Goto, bank, books, calls
    <2>2. TxnInv'
      <3>1. /\ UNCHANGED <<payment, wallet, deposit, view, stale>>
            /\ pc'[h] # "open" /\ \A t \in Txns \ {h} : pc'[t] = pc[t] /\ work'[t] = work[t]
        BY <1>0, <1>1 DEF Receive, Begin, Goto, bank, books, TypeOK
      <3>2. QED
        BY <3>1, TxnFrame
    <2>3. QED
      BY <2>1, <2>2
  <1>2. CASE Open(h)
    <2>1. CASE Account(h) \in Accounts /\ wallet[Account(h)].status = "assigned"
      <3>1. /\ pc' = [pc EXCEPT ![h] = "open"] /\ pc[h] = "opening"
            /\ view' = [view EXCEPT ![h] = wallet[Account(h)]]
            /\ UNCHANGED <<bank, work, stale, books, calls>>
        BY <1>2, <2>1 DEF Open, Goto
      <3>2. TypeOK'
        BY <1>0, <2>1, <3>1 DEF TypeOK, bank, books, calls
      <3>3. TxnInv'
        BY <1>0, <2>1, <3>1, ActorsDiffer DEF TxnInv, TypeOK, InOpenTxn, Account, bank, books
      <3>4. QED
        BY <1>5, <3>2, <3>3
    <2>2. CASE ~ (Account(h) \in Accounts /\ wallet[Account(h)].status = "assigned")
      <3>1. /\ pc' = [pc EXCEPT ![h] = "refused"] /\ pc[h] = "opening"
            /\ UNCHANGED <<bank, work, view, stale, books, calls>>
        BY <1>2, <2>2 DEF Open, Goto
      <3>2. TypeOK'
        BY <1>0, <3>1 DEF TypeOK, bank, books, calls
      <3>3. pc'[h] # "open" /\ \A t \in Txns \ {h} : pc'[t] = pc[t]
        BY <1>0, <3>1 DEF TypeOK
      <3>4. TxnInv'
        BY <3>1, <3>3, TxnFrame DEF bank, books
      <3>5. QED
        BY <1>5, <3>2, <3>4
    <2>3. QED
      BY <2>1, <2>2
  <1>3. CASE FindDuplicate(h)
    <2>1. TypeOK'
      BY <1>0, <1>3 DEF TypeOK, FindDuplicate, Goto, Forget, bank, books, calls
    <2>2. /\ UNCHANGED <<payment, wallet, deposit>> /\ pc'[h] # "open"
          /\ \A t \in Txns \ {h} : /\ pc'[t] = pc[t] /\ work'[t] = work[t]
                                   /\ view'[t] = view[t] /\ stale'[t] = stale[t]
      BY <1>0, <1>3 DEF FindDuplicate, Goto, Forget, bank, books, TypeOK
    <2>3. QED
      BY <1>5, <2>1, <2>2, TxnFrame
  <1>4. CASE Answer(h) \/ Fail(h)
    <2>1. pc[h] # "idle" /\ Done(h) /\ UNCHANGED <<payment, books, calls>>
      BY <1>4 DEF Answer, Fail, Answerable, bank
    <2>2. answered' \subseteq References
      BY <1>4, <2>1 DEF Answer, Fail, bank, TypeOK, Txns
    <2>3. TypeOK'
      BY <1>0, <2>1, <2>2 DEF TypeOK, Done, Forget, books, calls
    <2>4. /\ pc'[h] # "open"
          /\ \A t \in Txns \ {h} : /\ pc'[t] = pc[t] /\ work'[t] = work[t]
                                   /\ view'[t] = view[t] /\ stale'[t] = stale[t]
      BY <1>0, <2>1 DEF Done, Forget, TypeOK
    <2>5. QED
      BY <1>5, <2>1, <2>3, <2>4, TxnFrame DEF books
  <1>6. QED
    BY <1>1, <1>2, <1>3, <1>4, <1>5
(* A payment held on arrival, or rejected by an operator: its row alone.   *)
LEMMA RowWritten ==
    ASSUME TypeOK, TxnInv, NEW t \in Txns, work[t] \in References, NEW s \in {"held", "failed"},
           deposit' = [deposit EXCEPT ![work[t]] = s],
           NEW p \in {"idle", "recorded"}, pc' = [pc EXCEPT ![t] = p],
           work' = work \/ (p = "idle" /\ work' = [work EXCEPT ![t] = "none"]),
           Forget(t), Overtake(t, Account(t), work[t], {"deposit"}),
           UNCHANGED <<bank, wallet, poolBalance, ledger, poolLedger, calls>>
    PROVE  TypeOK' /\ TxnInv'
  <1>1. stale' \in [Txns -> SUBSET Docs]
    BY OvertakeType DEF Docs
  <1>2. view' \in [Txns -> Wallets]
    BY NewWalletType DEF Forget, TypeOK
  <1>3. deposit' \in [References -> Statuses]
    BY DEF TypeOK, Statuses
  <1>4. /\ pc' \in [Txns -> {"idle", "opening", "open", "recorded", "refused"}]
        /\ work' \in [Txns -> References \cup {"none"}]
        /\ \A u \in Txns : pc'[u] # "idle" => work'[u] \in References
    BY DEF TypeOK
  <1>5. TypeOK'
    BY <1>1, <1>2, <1>3, <1>4 DEF TypeOK, bank, calls
  <1>6. /\ pc'[t] # "open"
        /\ \A u \in Txns \ {t} : pc'[u] = pc[u] /\ work'[u] = work[u] /\ view'[u] = view[u]
        /\ \A q \in References : q # work[t] => deposit'[q] = deposit[q]
    BY DEF TypeOK, Forget
  <1>7. TxnInv'
    BY <1>6, Overtaken DEF bank
  <1>8. QED
    BY <1>5, <1>7

(* A payment credited, on arrival or by an operator: everything at once.   *)
LEMMA Credited ==
    ASSUME TypeOK, TxnInv, NEW t \in Txns, work[t] \in References, Account(t) \in Accounts,
           NEW w \in Wallets, wallet' = [wallet EXCEPT ![Account(t)] = w],
           deposit' = [deposit EXCEPT ![work[t]] = "confirmed"],
           NEW how \in {"arrival", "resolution"}, Post(work[t], how),
           NEW p \in {"idle", "recorded"}, pc' = [pc EXCEPT ![t] = p],
           work' = work \/ (p = "idle" /\ work' = [work EXCEPT ![t] = "none"]),
           Forget(t), Overtake(t, Account(t), work[t], Docs), UNCHANGED <<bank, calls>>
    PROVE  TypeOK' /\ TxnInv'
  <1>1. stale' \in [Txns -> SUBSET Docs]
    BY OvertakeType
  <1>2. view' \in [Txns -> Wallets]
    BY NewWalletType DEF Forget, TypeOK
  <1>3. deposit' \in [References -> Statuses] /\ wallet' \in [Accounts -> Wallets]
    BY DEF TypeOK, Statuses
  <1>4. /\ pc' \in [Txns -> {"idle", "opening", "open", "recorded", "refused"}]
        /\ work' \in [Txns -> References \cup {"none"}]
        /\ \A u \in Txns : pc'[u] # "idle" => work'[u] \in References
    BY DEF TypeOK
  <1>5. /\ ledger' \subseteq [ref: References, how: {"arrival", "resolution"},
                              account: Accounts, amount: Amounts]
        /\ poolLedger' \subseteq [ref: References \cup Spendings, direction: {"credit", "debit"},
                                  amount: Amounts]
        /\ poolBalance' \in Nat
    BY PostType DEF Account
  <1>6. TypeOK'
    BY <1>1, <1>2, <1>3, <1>4, <1>5 DEF TypeOK, bank, calls
  <1>7. /\ pc'[t] # "open"
        /\ \A u \in Txns \ {t} : pc'[u] = pc[u] /\ work'[u] = work[u] /\ view'[u] = view[u]
        /\ \A q \in References : q # work[t] => deposit'[q] = deposit[q]
        /\ \A b \in Accounts : b # Account(t) => wallet'[b] = wallet[b]
    BY DEF TypeOK, Forget
  <1>8. TxnInv'
    BY <1>7, Overtaken DEF bank, Docs
  <1>9. QED
    BY <1>6, <1>8

LEMMA HoldEffect ==
    ASSUME IInv, NEW h \in Handlers, Hold(h)
    PROVE  /\ TypeOK' /\ TxnInv'
           /\ work[h] \in References /\ deposit[work[h]] = "absent" /\ Account(h) \in Accounts
           /\ deposit' = [deposit EXCEPT ![work[h]] = "held"]
           /\ UNCHANGED <<payment, wallet, poolBalance, ledger, poolLedger, opened>>
  <1>1. h \in Txns /\ TypeOK /\ TxnInv /\ pc[h] = "open" /\ work[h] \in References
    BY DEF Txns, IInv, Hold, Goto, TypeOK
  <1>2. Account(h) \in Accounts /\ deposit[work[h]] = "absent"
    BY <1>1 DEF TxnInv, InOpenTxn, Hold, ReferenceFree
  <1>3. TypeOK' /\ TxnInv'
    BY <1>1, RowWritten DEF Hold, Goto
  <1>4. QED
    BY <1>1, <1>2, <1>3 DEF Hold, bank, calls

LEMMA RejectEffect ==
    ASSUME IInv, NEW o \in Operators, Reject(o)
    PROVE  /\ TypeOK' /\ TxnInv'
           /\ work[o] \in References /\ deposit[work[o]] = "held"
           /\ deposit' = [deposit EXCEPT ![work[o]] = "failed"]
           /\ UNCHANGED <<payment, wallet, poolBalance, ledger, poolLedger, opened>>
  <1>1. o \in Txns /\ TypeOK /\ TxnInv /\ pc[o] = "open" /\ work[o] \in References
    BY DEF Txns, IInv, Reject, InOpenTxn, TypeOK
  <1>2. deposit[work[o]] = "held"
    BY <1>1 DEF TxnInv, InOpenTxn, Reject, Serializable
  <1>3. TypeOK' /\ TxnInv'
    BY <1>1, RowWritten DEF Reject
  <1>4. QED
    BY <1>1, <1>2, <1>3 DEF Reject, bank, calls

LEMMA ConfirmEffect ==
    ASSUME IInv, NEW h \in Handlers, Confirm(h)
    PROVE  /\ TypeOK' /\ TxnInv'
           /\ work[h] \in References /\ deposit[work[h]] = "absent" /\ Account(h) \in Accounts
           /\ wallet[Account(h)].status = "assigned"
           /\ \E w \in Wallets :
                /\ wallet' = [wallet EXCEPT ![Account(h)] = w]
                /\ w.status = "deactivated" /\ w.balance = wallet[Account(h)].balance + Amount(h)
           /\ deposit' = [deposit EXCEPT ![work[h]] = "confirmed"]
           /\ ledger' = ledger \cup {Credit(work[h], "arrival")}
           /\ poolLedger' = poolLedger \cup {PoolCredit(work[h])}
           /\ poolBalance' = poolBalance + Amount(h)
           /\ UNCHANGED <<payment, opened>>
  <1>1. h \in Txns /\ TypeOK /\ TxnInv /\ pc[h] = "open" /\ work[h] \in References
    BY DEF Txns, IInv, Confirm, Goto, TypeOK
  <1>2. Account(h) \in Accounts /\ deposit[work[h]] = "absent"
    BY <1>1 DEF TxnInv, InOpenTxn, Confirm, ReferenceFree
  <1>3. wallet[Account(h)] = view[h] /\ view[h].status = "assigned"
    BY <1>1 DEF TxnInv, InOpenTxn, Confirm, Serializable
  <1> DEFINE w == Close(Add(wallet[Account(h)], h))
  <1>4. wallet[Account(h)] \in Wallets
    BY <1>1, <1>2 DEF TypeOK
  <1>5. w \in Wallets /\ w.status = "deactivated" /\ w.balance = wallet[Account(h)].balance + Amount(h)
    BY <1>1, <1>3, <1>4, AddType
  <1>6. wallet' = [wallet EXCEPT ![Account(h)] = w]
    BY DEF Confirm
  <1> HIDE DEF w
  <1>7. TypeOK' /\ TxnInv'
    BY <1>1, <1>2, <1>5, <1>6, Credited DEF Confirm, Goto
  <1>8. QED
    BY <1>1, <1>2, <1>3, <1>5, <1>6, <1>7 DEF Confirm, Post, Amount, bank, calls

LEMMA AcceptEffect ==
    ASSUME IInv, NEW o \in Operators, Accept(o)
    PROVE  /\ TypeOK' /\ TxnInv'
           /\ work[o] \in References /\ deposit[work[o]] = "held" /\ Account(o) \in Accounts
           /\ \E w \in Wallets :
                /\ wallet' = [wallet EXCEPT ![Account(o)] = w]
                /\ w.status = wallet[Account(o)].status
                /\ w.balance = wallet[Account(o)].balance + Amount(o)
           /\ deposit' = [deposit EXCEPT ![work[o]] = "confirmed"]
           /\ ledger' = ledger \cup {Credit(work[o], "resolution")}
           /\ poolLedger' = poolLedger \cup {PoolCredit(work[o])}
           /\ poolBalance' = poolBalance + Amount(o)
           /\ UNCHANGED <<payment, opened>>
  <1>1. o \in Txns /\ TypeOK /\ TxnInv /\ pc[o] = "open" /\ work[o] \in References
    BY DEF Txns, IInv, Accept, InOpenTxn, TypeOK
  <1>2. Account(o) \in Accounts
    BY <1>1 DEF TxnInv, InOpenTxn
  <1>3. "account" \notin stale[o] /\ "deposit" \notin stale[o]
    BY DEF Accept, Serializable, Docs
  <1>4. wallet[Account(o)] = view[o] /\ deposit[work[o]] = "held"
    BY <1>1, <1>3 DEF TxnInv, InOpenTxn
  <1> DEFINE w == Add(wallet[Account(o)], o)
  <1>5. wallet[Account(o)] \in Wallets
    BY <1>1, <1>2 DEF TypeOK
  <1>6. w \in Wallets /\ w.status = wallet[Account(o)].status
        /\ w.balance = wallet[Account(o)].balance + Amount(o)
    BY <1>1, <1>4, <1>5, AddType
  <1>7. wallet' = [wallet EXCEPT ![Account(o)] = w]
    BY DEF Accept
  <1> HIDE DEF w
  <1>8. TypeOK' /\ TxnInv'
    BY <1>1, <1>2, <1>6, <1>7, Credited DEF Accept
  <1>9. QED
    BY <1>1, <1>2, <1>4, <1>6, <1>7, <1>8 DEF Accept, Post, Amount, bank, calls
(* The operator loads a deposit that is held, or gives up.                 *)
LEMMA OpenHeldOrAbort ==
    ASSUME IInv, NEW o \in Operators, Abort(o) \/ \E r \in References : OpenHeld(o, r)
    PROVE  TypeOK' /\ TxnInv' /\ UNCHANGED <<payment, books, opened>>
  <1>0. o \in Txns /\ o \notin Handlers /\ TypeOK /\ TxnInv /\ NewWallet \in Wallets
    BY NewWalletType, ActorsDiffer DEF Txns, IInv
  <1>1. UNCHANGED <<bank, books, calls>>
    BY DEF Abort, OpenHeld
  <1>2. CASE Abort(o)
    <2>1. pc[o] = "open" /\ Done(o)
      BY <1>2 DEF Abort, InOpenTxn
    <2>2. TypeOK'
      BY <1>0, <1>1, <2>1 DEF TypeOK, Done, Forget, bank, books, calls
    <2>3. /\ pc'[o] # "open"
          /\ \A t \in Txns \ {o} : /\ pc'[t] = pc[t] /\ work'[t] = work[t]
                                   /\ view'[t] = view[t] /\ stale'[t] = stale[t]
      BY <1>0, <2>1 DEF Done, Forget, TypeOK
    <2>4. TxnInv'
      BY <1>0, <1>1, <2>3, TxnFrame DEF bank, books
    <2>5. QED
      BY <1>1, <2>2, <2>4 DEF bank, calls
  <1>3. ASSUME NEW r \in References, OpenHeld(o, r) PROVE TypeOK' /\ TxnInv'
    <2>1. payment[r].account \in Accounts /\ deposit[r] = "held"
      BY <1>3 DEF OpenHeld, Resolvable, IInv, DepositInv
    <2>2. wallet[payment[r].account] \in Wallets
      BY <1>0, <2>1 DEF TypeOK
    <2>3. /\ pc' = [pc EXCEPT ![o] = "open"] /\ work' = [work EXCEPT ![o] = r]
          /\ view' = [view EXCEPT ![o] = wallet[payment[r].account]] /\ stale' = stale
      BY <1>3 DEF OpenHeld, Begin, Goto
    <2>4. TypeOK'
      BY <1>0, <1>1, <2>2, <2>3 DEF TypeOK, bank, books, calls
    <2>5. TxnInv'
      BY <1>0, <1>1, <2>1, <2>3 DEF TxnInv, TypeOK, InOpenTxn, Account, bank, books
    <2>6. QED
      BY <2>4, <2>5
  <1>4. QED
    BY <1>1, <1>2, <1>3 DEF bank, calls

(* The partner's calls and the pool's spending are no transaction of ours. *)
LEMMA Outsiders ==
    \A x \in Orders \cup Spendings : x \notin Txns
  BY ActorsDiffer DEF Txns

LEMMA LoadOrLose ==
    ASSUME IInv, NEW c \in Orders, Load(c) \/ Lose(c)
    PROVE  TypeOK' /\ TxnInv' /\ UNCHANGED <<payment, books, opened>>
  <1>1. UNCHANGED <<bank, txns, books, opened>> /\ TypeOK /\ TxnInv
    BY DEF Load, Lose, IInv
  <1>2. orderPc' \in [Orders -> {"sent", "loaded", "saved", "lost"}]
    BY <1>1 DEF Load, Lose, TypeOK
  <1>3. order' \in [Orders -> Asked]
    <2>1. CASE Load(c)
      <3>1. PICK op \in DOMAIN Target, a \in Accounts, e \in ExpectedAmounts \cup {NotSet} :
              order' = [order EXCEPT ![c] =
                          [op |-> op, account |-> a, expectedAmount |-> e, seen |-> wallet[a]]]
        BY <2>1 DEF Load
      <3>2. [op |-> op, account |-> a, expectedAmount |-> e, seen |-> wallet[a]] \in Asked
        BY <1>1 DEF Asked, TypeOK
      <3>3. QED
        BY <1>1, <3>1, <3>2 DEF TypeOK
    <2>2. CASE Lose(c)
      <3>1. NothingLoaded \in Asked
        BY NewWalletType DEF NothingLoaded, Asked, Target
      <3>2. QED
        BY <1>1, <2>2, <3>1 DEF Lose, TypeOK
    <2>3. QED
      BY <2>1, <2>2
  <1>4. TypeOK'
    BY <1>1, <1>2, <1>3 DEF TypeOK, bank, txns, books
  <1>5. TxnInv'
    BY <1>1 DEF TxnInv, InOpenTxn, Account, bank, txns, books
  <1>6. QED
    BY <1>1, <1>4, <1>5 DEF bank

LEMMA SaveEffect ==
    ASSUME IInv, NEW c \in Orders, Save(c)
    PROVE  /\ TypeOK' /\ TxnInv'
           /\ \E a \in Accounts, w \in Wallets :
                /\ wallet' = [wallet EXCEPT ![a] = w]
                /\ w.balance = wallet[a].balance
                /\ \/ w.status = "assigned" /\ opened' = [opened EXCEPT ![a] = opened[a] + 1]
                   \/ (w.status = "assigned" => wallet[a].status = "assigned") /\ opened' = opened
           /\ UNCHANGED <<payment, poolBalance, deposit, ledger, poolLedger>>
  <1> DEFINE o == order[c]
             a == order[c].account
             w == Saved(order[c], wallet[order[c].account])
             docs == IF WritesStatus(o) \/ WritesExpected(o) THEN {"account"} ELSE {}
  <1>0. /\ TypeOK /\ TxnInv /\ c \notin Txns
        /\ o \in Asked /\ a \in Accounts /\ wallet[a] \in Wallets
    <2>1. order[c].account \in Accounts
      BY DEF Save, IInv, OrderInv
    <2>2. QED
      BY <2>1, Outsiders DEF IInv, TypeOK
  <1>1. /\ w \in Wallets /\ w.balance = wallet[a].balance
        /\ w.status = IF WritesStatus(o) THEN Target[o.op] ELSE wallet[a].status
        /\ ~ WritesStatus(o) /\ ~ WritesExpected(o) => w = wallet[a]
        /\ Target[o.op] = "assigned" <=> o.op = "assign"
    BY <1>0, SavedType
  <1>2. /\ wallet' = [wallet EXCEPT ![a] = w]
        /\ Overtake(c, a, "none", docs)
        /\ opened' = IF o.op = "assign" /\ WritesStatus(o)
                       THEN [opened EXCEPT ![a] = opened[a] + 1] ELSE opened
        /\ UNCHANGED <<bank, pc, work, view, poolBalance, deposit, ledger, poolLedger>>
    BY DEF Save
  <1>3. TypeOK'
    <2>1. stale' \in [Txns -> SUBSET Docs]
      BY <1>0, <1>2, OvertakeType DEF Docs
    <2>2. wallet' \in [Accounts -> Wallets] /\ opened' \in [Accounts -> Nat]
      <3> HIDE DEF o, a, w, docs
      <3>1. QED
        BY <1>0, <1>1, <1>2 DEF TypeOK
    <2>3. order' \in [Orders -> Asked] /\ orderPc' \in [Orders -> {"sent", "loaded", "saved", "lost"}]
      <3>1. NothingLoaded \in Asked
        BY NewWalletType DEF NothingLoaded, Asked, Target
      <3>2. QED
        BY <1>0, <3>1 DEF Save, TypeOK
    <2>4. UNCHANGED <<bank, pc, work, view, poolBalance, deposit, ledger, poolLedger>>
      BY <1>2
    <2>5. QED
      BY <1>0, <2>1, <2>2, <2>3, <2>4 DEF TypeOK, bank
  <1>4. TxnInv'
    <2> HIDE DEF o, a, w, docs
    <2>1. \A b \in Accounts : b # a \/ "account" \notin docs => wallet'[b] = wallet[b]
      BY <1>0, <1>1, <1>2 DEF TypeOK, docs
    <2>2. QED
      BY <1>0, <1>2, <2>1, Overtaken DEF bank
  <1>5. \/ w.status = "assigned" /\ opened' = [opened EXCEPT ![a] = opened[a] + 1]
        \/ (w.status = "assigned" => wallet[a].status = "assigned") /\ opened' = opened
    BY <1>1, <1>2
  <1> HIDE DEF o, a, w, docs
  <1>6. QED
    BY <1>0, <1>1, <1>2, <1>3, <1>4, <1>5 DEF bank

LEMMA SpendEffect ==
    ASSUME IInv, NEW s \in Spendings, Spend(s)
    PROVE  /\ TypeOK' /\ TxnInv'
           /\ ~ \E e \in poolLedger : e.ref = s
           /\ \E n \in Amounts :
                /\ n <= poolBalance /\ poolBalance' = poolBalance - n
                /\ poolLedger' = poolLedger \cup {[ref |-> s, direction |-> "debit", amount |-> n]}
           /\ UNCHANGED <<payment, wallet, deposit, ledger, opened>>
  <1>0. TypeOK /\ TxnInv /\ s \notin Txns
    BY Outsiders DEF IInv
  <1>1. PICK n \in Amounts :
          /\ n <= poolBalance /\ poolBalance' = poolBalance - n
          /\ poolLedger' = poolLedger \cup {[ref |-> s, direction |-> "debit", amount |-> n]}
    BY DEF Spend, CanSpend
  <1>2. (~ \E e \in poolLedger : e.ref = s) /\ Overtake(s, Nowhere, "none", {"pool"})
        /\ UNCHANGED <<bank, pc, work, view, wallet, deposit, ledger, calls>>
    BY DEF Spend
  <1>3. stale' \in [Txns -> SUBSET Docs]
    BY <1>0, <1>2, OvertakeType DEF Docs
  <1>4. poolBalance' \in Nat
    BY <1>0, <1>1, PaymentsArePositive DEF TypeOK
  <1>5. TypeOK'
    BY <1>0, <1>1, <1>2, <1>3, <1>4 DEF TypeOK, bank, calls
  <1>6. TxnInv'
    BY <1>0, <1>2, Overtaken DEF bank
  <1>7. QED
    BY <1>1, <1>2, <1>5, <1>6 DEF bank, calls
-----------------------------------------------------------------------------
(* Openings.                                                               *)

(* The ledger as it was, and no account opened without being counted.      *)
LEMMA NoArrival ==
    ASSUME OpeningInv, TypeOK, NEW new, IsFiniteSet(new), ledger' = ledger \cup new,
           \A e \in new : e.how # "arrival",
           \A a \in Accounts : OpenNow(a)' + opened[a] <= OpenNow(a) + opened'[a],
           opened' \in [Accounts -> Nat]
    PROVE  OpeningInv'
  <1>1. IsFiniteSet(ledger')
    BY FS_Union DEF OpeningInv
  <1>2. ASSUME NEW a \in Accounts PROVE Cardinality(Arrivals(a)') + OpenNow(a)' <= opened'[a]
    <2>1. Arrivals(a)' = Arrivals(a)
      BY DEF Arrivals
    <2>2. Cardinality(Arrivals(a)) \in Nat
      <3>1. Arrivals(a) \subseteq ledger
        BY DEF Arrivals
      <3>2. QED
        BY <3>1, FS_Subset, FS_CardinalityType DEF OpeningInv
    <2>3. OpenNow(a) \in Nat /\ OpenNow(a)' \in Nat /\ opened[a] \in Nat /\ opened'[a] \in Nat
      BY DEF OpenNow, TypeOK
    <2>4. Cardinality(Arrivals(a)) + OpenNow(a) <= opened[a]
      BY DEF OpeningInv
    <2>5. QED
      BY <2>1, <2>2, <2>3, <2>4
  <1>3. QED
    BY <1>1, <1>2 DEF OpeningInv

(* A payment that comes in uses up the opening of its account.             *)
LEMMA ArrivalCloses ==
    ASSUME IInv, NEW h \in Handlers, Confirm(h)
    PROVE  OpeningInv'
  <1> DEFINE b == Account(h)
             new == Credit(work[h], "arrival")
  <1>1. PICK w \in Wallets : wallet' = [wallet EXCEPT ![b] = w] /\ w.status = "deactivated"
    BY ConfirmEffect
  <1>2. /\ b \in Accounts /\ wallet[b].status = "assigned" /\ opened' = opened
        /\ ledger' = ledger \cup {new}
    BY ConfirmEffect
  <1>3. new.account = b /\ new.how = "arrival"
    BY DEF Credit, Account
  <1>4. IsFiniteSet(ledger')
    BY <1>2, FS_AddElement DEF IInv, OpeningInv
  <1> HIDE DEF b, new
  <1>5. ASSUME NEW a \in Accounts PROVE Cardinality(Arrivals(a)') + OpenNow(a)' <= opened'[a]
    <2>1. IsFiniteSet(Arrivals(a)) /\ Cardinality(Arrivals(a)) \in Nat
      <3>1. Arrivals(a) \subseteq ledger
        BY DEF Arrivals
      <3>2. QED
        BY <3>1, FS_Subset, FS_CardinalityType DEF IInv, OpeningInv
    <2>2. Cardinality(Arrivals(a)) + OpenNow(a) <= opened[a] /\ opened[a] \in Nat
      BY DEF IInv, OpeningInv, TypeOK
    <2>3. CASE a = b
      <3>1. Arrivals(a)' = Arrivals(a) \cup {new}
        BY <1>2, <1>3, <2>3 DEF Arrivals
      <3>2. Cardinality(Arrivals(a)') <= Cardinality(Arrivals(a)) + 1 /\ Cardinality(Arrivals(a)') \in Nat
        <4>1. /\ IsFiniteSet(Arrivals(a) \cup {new})
              /\ Cardinality(Arrivals(a) \cup {new})
                   = IF new \in Arrivals(a) THEN Cardinality(Arrivals(a)) ELSE Cardinality(Arrivals(a)) + 1
          BY <2>1, FS_AddElement
        <4>2. QED
          BY <2>1, <3>1, <4>1
      <3>3. OpenNow(a) = 1 /\ OpenNow(a)' = 0
        BY <1>1, <1>2, <2>3 DEF OpenNow, IInv, TypeOK
      <3>4. QED
        BY <1>2, <2>1, <2>2, <3>2, <3>3
    <2>4. CASE a # b
      <3>1. Arrivals(a)' = Arrivals(a)
        BY <1>2, <1>3, <2>4 DEF Arrivals
      <3>2. OpenNow(a)' = OpenNow(a)
        BY <1>1, <2>4 DEF OpenNow, IInv, TypeOK
      <3>3. QED
        BY <1>2, <2>2, <3>1, <3>2
    <2>5. QED
      BY <2>3, <2>4
  <1>6. QED
    BY <1>4, <1>5 DEF OpeningInv

-----------------------------------------------------------------------------
(* The inductive invariant.                                                *)

(* No step but a confirmation, a resolution, the partner's save or a spend *)
(* moves a balance.                                                        *)
Quiet == /\ TypeOK' /\ TxnInv' /\ UNCHANGED <<payment, books, opened>>

LEMMA StepKinds ==
    ASSUME IInv, Next
    PROVE  \/ Quiet
           \/ \E h \in Handlers : Hold(h) \/ Confirm(h)
           \/ \E o \in Operators : Reject(o) \/ Accept(o)
           \/ \E c \in Orders : Save(c)
           \/ \E s \in Spendings : Spend(s)
  <1>1. TypeOK /\ TxnInv
    BY DEF IInv
  <1>2. ASSUME NEW h \in Handlers, Serve(h) \/ (\E r \in References : Receive(h, r)),
               ~ Hold(h), ~ Confirm(h)
        PROVE  Quiet
    BY <1>1, <1>2, QuietServe DEF Serve, Quiet
  <1>3. ASSUME NEW o \in Operators, Resolve(o), ~ Reject(o), ~ Accept(o)
        PROVE  Quiet
    BY <1>3, OpenHeldOrAbort DEF Resolve, Quiet
  <1>4. ASSUME NEW c \in Orders, Load(c) \/ Lose(c)
        PROVE  Quiet
    BY <1>4, LoadOrLose DEF Quiet
  <1>5. QED
    BY <1>2, <1>3, <1>4 DEF Next

LEMMA OrderNext ==
    ASSUME IInv, Next
    PROVE  OrderInv'
  <1>1. ASSUME UNCHANGED calls PROVE OrderInv'
    BY <1>1 DEF calls, OrderInv, IInv
  <1>2. ASSUME NEW c \in Orders, Load(c) PROVE OrderInv'
    BY <1>2 DEF Load, OrderInv, IInv, TypeOK
  <1>3. ASSUME NEW c \in Orders, Save(c) PROVE OrderInv'
    BY <1>3 DEF Save, OrderInv, IInv, TypeOK
  <1>4. ASSUME NEW c \in Orders, Lose(c) PROVE OrderInv'
    BY <1>4 DEF Lose, OrderInv, IInv, TypeOK
  <1>5. ASSUME NEW h \in Handlers, Serve(h) \/ \E r \in References : Receive(h, r) PROVE OrderInv'
    BY <1>5, <1>1 DEF Serve, Receive, Open, Hold, Confirm, FindDuplicate, Answer, Fail
  <1>6. ASSUME NEW o \in Operators, Resolve(o) PROVE OrderInv'
    BY <1>6, <1>1 DEF Resolve, OpenHeld, Reject, Accept, Abort
  <1>7. ASSUME NEW s \in Spendings, Spend(s) PROVE OrderInv'
    BY <1>7, <1>1 DEF Spend
  <1>8. QED
    BY <1>2, <1>3, <1>4, <1>5, <1>6, <1>7 DEF Next

LEMMA IInvInit == Init => IInv
  <1> SUFFICES ASSUME Init PROVE IInv
    OBVIOUS
  <1>1. DepositInv /\ OrderInv /\ TxnInv
    BY DEF Init, DepositInv, OrderInv, TxnInv, InOpenTxn
  <1>2. OpeningInv
    <2>1. ledger = {} /\ IsFiniteSet(ledger)
      BY FS_EmptySet DEF Init
    <2>2. ASSUME NEW a \in Accounts PROVE Cardinality(Arrivals(a)) + OpenNow(a) <= opened[a]
      <3>1. Arrivals(a) = {}
        BY <2>1 DEF Arrivals
      <3>2. OpenNow(a) = 0 /\ opened[a] = 0
        BY DEF OpenNow, Init, NewWallet
      <3>3. QED
        BY <3>1, <3>2, FS_EmptySet
    <2>3. QED
      BY <2>1, <2>2 DEF OpeningInv
  <1>3. QED
    BY <1>1, <1>2, TypeInit DEF IInv

LEMMA IInvNext ==
    ASSUME IInv, [Next]_vars
    PROVE  IInv'
  <1>0. TypeOK /\ OpeningInv /\ DepositInv /\ opened \in [Accounts -> Nat] /\ IsFiniteSet({})
    BY FS_EmptySet DEF IInv, TypeOK
  <1>1. CASE UNCHANGED vars
    BY <1>1 DEF vars, bank, txns, books, calls, IInv, TypeOK, DepositInv, OrderInv, TxnInv, OpeningInv,
                InOpenTxn, Account, Arrivals, OpenNow
  <1>2. CASE Next
    <2>1. OrderInv'
      BY <1>2, OrderNext
    <2>2. CASE Quiet
      <3>1. DepositInv' /\ OpeningInv'
        BY <1>0, <2>2 DEF Quiet, books, DepositInv, OpeningInv, Arrivals, OpenNow
      <3>2. QED
        BY <2>1, <2>2, <3>1 DEF Quiet, IInv
    <2>3. ASSUME NEW h \in Handlers, Hold(h) PROVE IInv'
      <3>1. DepositInv'
        BY <1>0, <2>3, HoldEffect DEF DepositInv, TypeOK, Account
      <3>2. OpeningInv'
        BY <1>0, <2>3, HoldEffect DEF OpeningInv, Arrivals, OpenNow
      <3>3. QED
        BY <2>1, <2>3, <3>1, <3>2, HoldEffect DEF IInv
    <2>4. ASSUME NEW h \in Handlers, Confirm(h) PROVE IInv'
      <3>1. DepositInv'
        BY <1>0, <2>4, ConfirmEffect DEF DepositInv, TypeOK, Account
      <3>2. QED
        BY <2>1, <2>4, <3>1, ConfirmEffect, ArrivalCloses DEF IInv
    <2>5. ASSUME NEW o \in Operators, Reject(o) PROVE IInv'
      <3>1. DepositInv'
        BY <1>0, <2>5, RejectEffect DEF DepositInv, TypeOK
      <3>2. OpeningInv'
        BY <1>0, <2>5, RejectEffect DEF OpeningInv, Arrivals, OpenNow
      <3>3. QED
        BY <2>1, <2>5, <3>1, <3>2, RejectEffect DEF IInv
    <2>6. ASSUME NEW o \in Operators, Accept(o) PROVE IInv'
      <3>1. DepositInv'
        BY <1>0, <2>6, AcceptEffect DEF DepositInv, TypeOK, Account
      <3>2. PICK w \in Wallets : wallet' = [wallet EXCEPT ![Account(o)] = w]
                                 /\ w.status = wallet[Account(o)].status
        BY <2>6, AcceptEffect
      <3>3. ledger' = ledger \cup {Credit(work[o], "resolution")} /\ opened' = opened
        BY <2>6, AcceptEffect
      <3>4. \A a \in Accounts : OpenNow(a)' + opened[a] <= OpenNow(a) + opened'[a]
        BY <1>0, <3>2, <3>3 DEF OpenNow, TypeOK
      <3>5. IsFiniteSet({Credit(work[o], "resolution")})
            /\ \A e \in {Credit(work[o], "resolution")} : e.how # "arrival"
        <4>1. IsFiniteSet({Credit(work[o], "resolution")})
          BY FS_Singleton
        <4>2. Credit(work[o], "resolution").how = "resolution"
          BY DEF Credit
        <4>3. QED
          BY <4>1, <4>2
      <3>6. OpeningInv'
        BY <1>0, <3>3, <3>4, <3>5, NoArrival
      <3>7. QED
        BY <2>1, <2>6, <3>1, <3>6, AcceptEffect DEF IInv
    <2>7. ASSUME NEW c \in Orders, Save(c) PROVE IInv'
      <3>1. DepositInv'
        BY <1>0, <2>7, SaveEffect DEF DepositInv
      <3>2. PICK a \in Accounts, w \in Wallets :
              /\ wallet' = [wallet EXCEPT ![a] = w]
              /\ \/ w.status = "assigned" /\ opened' = [opened EXCEPT ![a] = opened[a] + 1]
                 \/ (w.status = "assigned" => wallet[a].status = "assigned") /\ opened' = opened
        BY <2>7, SaveEffect
      <3>3. opened' \in [Accounts -> Nat] /\ ledger' = ledger \cup {}
        BY <2>7, SaveEffect DEF TypeOK
      <3>4. \A b \in Accounts : OpenNow(b)' + opened[b] <= OpenNow(b) + opened'[b]
        BY <1>0, <3>2 DEF OpenNow, TypeOK
      <3>5. OpeningInv'
        BY <1>0, <3>3, <3>4, NoArrival
      <3>6. QED
        BY <2>1, <2>7, <3>1, <3>5, SaveEffect DEF IInv
    <2>8. ASSUME NEW s \in Spendings, Spend(s) PROVE IInv'
      <3>1. DepositInv' /\ OpeningInv'
        BY <1>0, <2>8, SpendEffect DEF DepositInv, OpeningInv, Arrivals, OpenNow
      <3>2. QED
        BY <2>1, <2>8, <3>1, SpendEffect DEF IInv
    <2>9. QED
      BY <1>2, <2>2, <2>3, <2>4, <2>5, <2>6, <2>7, <2>8, StepKinds
  <1>3. QED
    BY <1>1, <1>2

THEOREM IInvAlways == Spec => []IInv
  BY IInvInit, IInvNext, PTL DEF Spec
-----------------------------------------------------------------------------
(* The books.                                                              *)

(* An entry is a confirmed deposit's; the pool's other entries are debits. *)
EntryInv ==
    /\ IsFiniteSet(poolLedger)
    /\ \A l \in ledger : deposit[l.ref] = "confirmed" /\ l = Credit(l.ref, l.how)
    /\ \A e \in poolLedger :
          e.ref \in References => deposit[e.ref] = "confirmed" /\ e = PoolCredit(e.ref)

BooksInv == EntryInv /\ BooksAgree

WalletEntry == [ref: References, how: {"arrival", "resolution"}, account: Accounts, amount: Amounts]
PoolEntry   == [ref: References \cup Spendings, direction: {"credit", "debit"}, amount: Amounts]

LEMMA EntryType ==
    /\ \A l \in WalletEntry : l.amount \in Int
    /\ \A e \in PoolEntry : Signed(e) \in Int
  <1>1. \A l \in WalletEntry : l.amount \in Amounts
    BY DEF WalletEntry
  <1>2. \A e \in PoolEntry : e.amount \in Amounts
    BY DEF PoolEntry
  <1>3. \A n \in Amounts : n \in Int /\ - n \in Int
    BY PaymentsArePositive
  <1>4. QED
    BY <1>1, <1>2, <1>3 DEF Signed

LEMMA ReceivedGrows ==
    ASSUME NEW L, L \subseteq WalletEntry, IsFiniteSet(L), NEW l \in WalletEntry, l \notin L
    PROVE  Received(L) \in Int /\ Received(L \cup {l}) = Received(L) + l.amount
  <1> DEFINE f == [m \in L |-> m.amount]
             g == [m \in L \cup {l} |-> m.amount]
  <1>1. g[l] = l.amount /\ g[l] \in Int
    BY EntryType
  <1>2. \A m \in L : f[m] \in Int /\ g[m] = f[m]
    BY EntryType
  <1>3. Received(L) = SumFunctionOnSet(f, L) /\ Received(L \cup {l}) = SumFunctionOnSet(g, L \cup {l})
    BY Zenon DEF Received
  <1> HIDE DEF f, g
  <1>4. SumFunctionOnSet(f, L) \in Int
        /\ SumFunctionOnSet(g, L \cup {l}) = SumFunctionOnSet(f, L) + g[l]
    BY <1>1, <1>2, SumGrows
  <1>5. QED
    BY <1>1, <1>3, <1>4

LEMMA TotalGrows ==
    ASSUME NEW L, L \subseteq PoolEntry, IsFiniteSet(L), NEW e \in PoolEntry, e \notin L
    PROVE  Total(L) \in Int /\ Total(L \cup {e}) = Total(L) + Signed(e)
  <1> DEFINE f == [m \in L |-> Signed(m)]
             g == [m \in L \cup {e} |-> Signed(m)]
  <1>1. g[e] = Signed(e) /\ g[e] \in Int
    BY EntryType
  <1>2. \A m \in L : f[m] \in Int /\ g[m] = f[m]
    BY EntryType
  <1>3. Total(L) = SumFunctionOnSet(f, L) /\ Total(L \cup {e}) = SumFunctionOnSet(g, L \cup {e})
    BY Zenon DEF Total
  <1> HIDE DEF f, g
  <1>4. SumFunctionOnSet(f, L) \in Int
        /\ SumFunctionOnSet(g, L \cup {e}) = SumFunctionOnSet(f, L) + g[e]
    BY ONLY IsFiniteSet(L), e \notin L, <1>1, <1>2, SumGrows
  <1>5. QED
    BY <1>1, <1>3, <1>4

LEMMA LedgerTypes ==
    ASSUME IInv, EntryInv
    PROVE  /\ ledger \subseteq WalletEntry /\ poolLedger \subseteq PoolEntry
           /\ \A a : IsFiniteSet(Entries(a)) /\ Entries(a) \subseteq WalletEntry
           /\ IsFiniteSet(ledger) /\ IsFiniteSet(poolLedger)
  <1>1. /\ ledger \subseteq WalletEntry /\ poolLedger \subseteq PoolEntry
        /\ IsFiniteSet(ledger) /\ IsFiniteSet(poolLedger)
    BY DEF IInv, TypeOK, OpeningInv, EntryInv, WalletEntry, PoolEntry
  <1>2. \A a : Entries(a) \subseteq ledger
    BY DEF Entries
  <1>3. QED
    BY <1>1, <1>2, FS_Subset

LEMMA BooksInit == Init => BooksInv
  <1> SUFFICES ASSUME Init PROVE BooksInv
    OBVIOUS
  <1>1. ledger = {} /\ poolLedger = {} /\ IsFiniteSet({}) /\ Cardinality({}) = 0
    BY FS_EmptySet DEF Init
  <1>2. EntryInv
    BY <1>1 DEF EntryInv
  <1>3. EntriesAgree
    <2> SUFFICES ASSUME NEW r \in References
                 PROVE  deposit[r] # "confirmed" /\ Cardinality({l \in ledger : l.ref = r}) <= 1
      BY <1>1 DEF EntriesAgree
    <2>1. {l \in ledger : l.ref = r} = {}
      BY <1>1
    <2>2. Cardinality({l \in ledger : l.ref = r}) = 0
      BY <1>1, <2>1
    <2>3. QED
      BY <2>2 DEF Init
  <1>4. Received({}) = 0 /\ Total({}) = 0
    BY SumEmpty DEF Received, Total
  <1>5. \A a \in Accounts : Entries(a) = {}
    BY <1>1 DEF Entries
  <1>6. BalancesMatchLedgers
    BY <1>1, <1>4, <1>5 DEF BalancesMatchLedgers, Init, NewWallet
  <1>7. QED
    BY <1>2, <1>3, <1>6 DEF BooksInv, BooksAgree

(* A payment entered: one entry in each ledger, and both balances with it. *)
LEMMA CreditBooks ==
    ASSUME IInv, BooksInv, NEW r \in References, NEW how \in {"arrival", "resolution"},
           payment[r].account \in Accounts, deposit[r] # "confirmed",
           deposit' = [deposit EXCEPT ![r] = "confirmed"],
           ledger' = ledger \cup {Credit(r, how)}, poolLedger' = poolLedger \cup {PoolCredit(r)},
           poolBalance' = poolBalance + payment[r].amount, payment' = payment,
           \E w \in Wallets : /\ wallet' = [wallet EXCEPT ![payment[r].account] = w]
                              /\ w.balance = wallet[payment[r].account].balance + payment[r].amount
    PROVE  BooksInv'
  <1> DEFINE new  == Credit(r, how)
             pool == PoolCredit(r)
             b    == payment[r].account
  <1>0. TypeOK /\ EntryInv /\ EntriesAgree /\ BalancesMatchLedgers
    BY DEF IInv, BooksInv, BooksAgree
  <1>1. payment[r].amount \in Amounts /\ payment[r].amount \in Nat
    BY <1>0, PaymentType
  <1>2. /\ new \in WalletEntry /\ new.ref = r /\ new.how = how /\ new.account = b
        /\ new.amount = payment[r].amount
    BY <1>1 DEF Credit, WalletEntry
  <1>3. pool \in PoolEntry /\ pool.ref = r /\ Signed(pool) = payment[r].amount
    BY <1>1 DEF PoolCredit, PoolEntry, Signed
  <1>4. /\ \A l \in ledger : l.ref \in References /\ l.ref # r
        /\ \A e \in poolLedger : e.ref # r
    BY <1>0, LedgerTypes DEF EntryInv, WalletEntry, IInv
  <1>5. /\ \A q \in References : deposit'[q] = IF q = r THEN "confirmed" ELSE deposit[q]
        /\ \A q, k : Credit(q, k)' = Credit(q, k) /\ PoolCredit(q)' = PoolCredit(q)
    BY <1>0 DEF TypeOK, Credit, PoolCredit
  <1>6. \A q, k : Credit(q, k).ref = q /\ PoolCredit(q).ref = q
    BY DEF Credit, PoolCredit
  <1> HIDE DEF new, pool
  <1>7. EntryInv'
    <2>1. IsFiniteSet(poolLedger')
      BY <1>0, FS_AddElement DEF EntryInv
    <2>2. ASSUME NEW l \in ledger' PROVE deposit'[l.ref] = "confirmed" /\ l = Credit(l.ref, l.how)'
      <3>1. CASE l \in ledger
        BY <1>0, <1>4, <1>5, <3>1 DEF EntryInv
      <3>2. CASE l = new
        BY <1>2, <1>5, <3>2 DEF new
      <3>3. QED
        BY <3>1, <3>2 DEF new
    <2>3. ASSUME NEW e \in poolLedger', e.ref \in References
          PROVE  deposit'[e.ref] = "confirmed" /\ e = PoolCredit(e.ref)'
      <3>1. CASE e \in poolLedger
        BY <1>0, <1>4, <1>5, <2>3, <3>1 DEF EntryInv
      <3>2. CASE e = pool
        BY <1>3, <1>5, <3>2 DEF pool
      <3>3. QED
        BY <3>1, <3>2 DEF pool
    <2>4. QED
      BY <2>1, <2>2, <2>3 DEF EntryInv
  <1>8. EntriesAgree'
    <2> SUFFICES ASSUME NEW q \in References
                 PROVE  /\ (\E k \in {"arrival", "resolution"} : Credit(q, k)' \in ledger')
                                <=> deposit'[q] = "confirmed"
                        /\ Cardinality({l \in ledger' : l.ref = q}) <= 1
                        /\ PoolCredit(q)' \in poolLedger' <=> deposit'[q] = "confirmed"
      BY DEF EntriesAgree
    <2>1. CASE q = r
      <3>1. {l \in ledger' : l.ref = q} = {new}
        BY <1>2, <1>4, <2>1 DEF new
      <3>2. Cardinality({new}) = 1
        BY FS_Singleton
      <3>3. Credit(q, how)' \in ledger' /\ PoolCredit(q)' \in poolLedger' /\ deposit'[q] = "confirmed"
        BY <1>5, <2>1
      <3>4. Cardinality({l \in ledger' : l.ref = q}) = 1
        BY <3>1, <3>2, Zenon
      <3>5. QED
        BY <3>3, <3>4
    <2>2. CASE q # r
      <3>1. {l \in ledger' : l.ref = q} = {l \in ledger : l.ref = q}
        BY <1>2, <2>2 DEF new
      <3>2. \A k : Credit(q, k) # new /\ PoolCredit(q) # pool
        BY <1>2, <1>3, <1>6, <2>2
      <3>3. QED
        BY <1>0, <1>5, <2>2, <3>1, <3>2 DEF EntriesAgree, new, pool
    <2>3. QED
      BY <2>1, <2>2
  <1>9. BalancesMatchLedgers'
    <2>1. poolBalance' = Total(poolLedger')
      <3>1. pool \notin poolLedger /\ poolLedger \subseteq PoolEntry /\ IsFiniteSet(poolLedger)
        BY <1>0, <1>3, <1>4, LedgerTypes
      <3>2. Total(poolLedger \cup {pool}) = Total(poolLedger) + Signed(pool)
        BY <1>3, <3>1, TotalGrows
      <3>3. QED
        BY <1>0, <1>3, <3>2 DEF BalancesMatchLedgers, pool
    <2>2. ASSUME NEW a \in Accounts PROVE wallet'[a].balance = Received(Entries(a)')
      <3>1. CASE a = b
        <4>1. Entries(a)' = Entries(a) \cup {new}
          BY <1>2, <3>1 DEF Entries, new
        <4>2. new \notin Entries(a) /\ Entries(a) \subseteq WalletEntry /\ IsFiniteSet(Entries(a))
          BY <1>0, <1>2, <1>4, LedgerTypes DEF Entries
        <4>3. Received(Entries(a) \cup {new}) = Received(Entries(a)) + new.amount
          BY <1>2, <4>2, ReceivedGrows
        <4>4. wallet'[a].balance = wallet[a].balance + payment[r].amount
          BY <1>0, <3>1 DEF TypeOK
        <4>5. QED
          BY <1>0, <1>2, <4>1, <4>3, <4>4 DEF BalancesMatchLedgers
      <3>2. CASE a # b
        <4>1. Entries(a)' = Entries(a)
          BY <1>2, <3>2 DEF Entries, new
        <4>2. wallet'[a] = wallet[a]
          BY <1>0, <3>2 DEF TypeOK
        <4>3. QED
          BY <1>0, <4>1, <4>2 DEF BalancesMatchLedgers
      <3>3. QED
        BY <3>1, <3>2
    <2>3. QED
      BY <2>1, <2>2 DEF BalancesMatchLedgers, Total, Received
  <1>10. QED
    BY <1>7, <1>8, <1>9 DEF BooksInv, BooksAgree

(* Money out of the pool: a debit entry, under a reference no deposit has. *)
LEMMA SpendBooks ==
    ASSUME IInv, BooksInv, NEW s \in Spendings, Spend(s)
    PROVE  BooksInv'
  <1>0. TypeOK /\ EntryInv /\ EntriesAgree /\ BalancesMatchLedgers
    BY DEF IInv, BooksInv, BooksAgree
  <1>1. PICK n \in Amounts :
          /\ n <= poolBalance /\ poolBalance' = poolBalance - n
          /\ poolLedger' = poolLedger \cup {[ref |-> s, direction |-> "debit", amount |-> n]}
    BY SpendEffect
  <1>2. (~ \E e \in poolLedger : e.ref = s) /\ UNCHANGED <<payment, wallet, deposit, ledger>>
    BY SpendEffect
  <1> DEFINE new == [ref |-> s, direction |-> "debit", amount |-> n]
  <1>3. new \in PoolEntry /\ new.ref = s /\ s \notin References
    BY ActorsDiffer DEF PoolEntry
  <1>4. Signed(new) = - n /\ n \in Nat
    BY PaymentsArePositive DEF Signed
  <1>5. poolLedger' = poolLedger \cup {new} /\ new \notin poolLedger
    BY <1>1, <1>2
  <1> HIDE DEF new
  <1>6. EntryInv'
    BY <1>0, <1>2, <1>3, <1>5, FS_AddElement DEF EntryInv, Credit, PoolCredit
  <1>7. EntriesAgree'
    <2>1. \A q \in References : PoolCredit(q) # new /\ PoolCredit(q)' = PoolCredit(q)
      BY <1>2, <1>3 DEF PoolCredit
    <2>2. \A q \in References : \A k : Credit(q, k)' = Credit(q, k)
      BY <1>2 DEF Credit
    <2>3. QED
      BY <1>0, <1>2, <1>5, <2>1, <2>2 DEF EntriesAgree
  <1>8. poolBalance' = Total(poolLedger)' /\ \A a \in Accounts : wallet'[a].balance = Received(Entries(a))'
    <2>1. /\ Total(poolLedger) \in Int
          /\ Total(poolLedger \cup {new}) = Total(poolLedger) + Signed(new)
      BY <1>0, <1>3, <1>5, LedgerTypes, TotalGrows
    <2>2. Total(poolLedger)' = Total(poolLedger \cup {new})
      BY <1>5 DEF Total
    <2>3. \A a \in Accounts : Received(Entries(a))' = Received(Entries(a))
      BY <1>2 DEF Received, Entries
    <2>4. QED
      BY <1>0, <1>1, <1>2, <1>4, <2>1, <2>2, <2>3 DEF BalancesMatchLedgers
  <1>9. QED
    BY <1>6, <1>7, <1>8 DEF BooksInv, BooksAgree, BalancesMatchLedgers

(* A step that confirms nothing and moves no balance.                      *)
LEMMA SameBooks ==
    ASSUME IInv, BooksInv, UNCHANGED <<payment, poolBalance, ledger, poolLedger>>,
           \A a \in Accounts : wallet'[a].balance = wallet[a].balance,
           \A r \in References : deposit'[r] = "confirmed" <=> deposit[r] = "confirmed"
    PROVE  BooksInv'
  <1>0. EntryInv /\ EntriesAgree /\ BalancesMatchLedgers
    BY DEF BooksInv, BooksAgree
  <1>1. \A q, k : Credit(q, k)' = Credit(q, k) /\ PoolCredit(q)' = PoolCredit(q)
    BY DEF Credit, PoolCredit
  <1>2. EntryInv'
    <2>1. \A l \in ledger : l.ref \in References
      BY <1>0, LedgerTypes DEF WalletEntry
    <2>2. QED
      BY <1>0, <1>1, <2>1 DEF EntryInv
  <1>3. EntriesAgree'
    BY <1>0, <1>1 DEF EntriesAgree
  <1>4. BalancesMatchLedgers'
    BY <1>0 DEF BalancesMatchLedgers, Total, Received, Entries
  <1>5. QED
    BY <1>2, <1>3, <1>4 DEF BooksInv, BooksAgree

LEMMA BooksNext ==
    ASSUME IInv, BooksInv, [Next]_vars
    PROVE  BooksInv'
  <1>0. TypeOK
    BY DEF IInv
  <1>1. CASE UNCHANGED vars
    BY <1>1, SameBooks DEF vars, bank, books
  <1>2. CASE Quiet
    BY <1>2, SameBooks DEF Quiet, books
  <1>3. ASSUME NEW h \in Handlers, Hold(h) PROVE BooksInv'
    <2>1. \A r \in References : deposit'[r] = "confirmed" <=> deposit[r] = "confirmed"
      BY <1>0, <1>3, HoldEffect DEF TypeOK
    <2>2. QED
      BY <1>3, <2>1, HoldEffect, SameBooks
  <1>4. ASSUME NEW h \in Handlers, Confirm(h) PROVE BooksInv'
    <2>1. PICK r \in References : r = work[h]
      BY <1>4, ConfirmEffect
    <2>2. Account(h) = payment[r].account /\ Amount(h) = payment[r].amount
      BY <2>1 DEF Account, Amount
    <2>3. QED
      BY <1>4, <2>1, <2>2, ConfirmEffect, CreditBooks
  <1>5. ASSUME NEW o \in Operators, Reject(o) PROVE BooksInv'
    <2>1. \A r \in References : deposit'[r] = "confirmed" <=> deposit[r] = "confirmed"
      BY <1>0, <1>5, RejectEffect DEF TypeOK
    <2>2. QED
      BY <1>5, <2>1, RejectEffect, SameBooks
  <1>6. ASSUME NEW o \in Operators, Accept(o) PROVE BooksInv'
    <2>1. PICK r \in References : r = work[o]
      BY <1>6, AcceptEffect
    <2>2. Account(o) = payment[r].account /\ Amount(o) = payment[r].amount
      BY <2>1 DEF Account, Amount
    <2>3. QED
      BY <1>6, <2>1, <2>2, AcceptEffect, CreditBooks
  <1>7. ASSUME NEW c \in Orders, Save(c) PROVE BooksInv'
    <2>1. PICK a \in Accounts, w \in Wallets :
            wallet' = [wallet EXCEPT ![a] = w] /\ w.balance = wallet[a].balance
      BY <1>7, SaveEffect
    <2>2. \A b \in Accounts : wallet'[b].balance = wallet[b].balance
      BY <1>0, <2>1 DEF TypeOK
    <2>3. QED
      BY <1>7, <2>2, SaveEffect, SameBooks
  <1>8. QED
    BY <1>1, <1>2, <1>3, <1>4, <1>5, <1>6, <1>7, StepKinds, SpendBooks

-----------------------------------------------------------------------------
(* The promise of money coming in.                                         *)

Stage == [r \in References |-> StageOf[deposit[r]]]
Money == [a \in Accounts |-> wallet[a].balance]

LEMMA StageOfStatus ==
    /\ StageOf["absent"] = "absent" /\ StageOf["held"] = "held"
    /\ StageOf["confirmed"] = "credited" /\ StageOf["failed"] = "refused"
  BY DEF StageOf

LEMMA RefInit == Init => Promise!Init
  BY DEF Init, Promise!Init, Promise!Payments, Payments, NewWallet, StageOf

LEMMA StageStep ==
    ASSUME TypeOK, NEW r \in References, NEW s \in Statuses, deposit' = [deposit EXCEPT ![r] = s]
    PROVE  Stage' = [Stage EXCEPT ![r] = StageOf[s]] /\ Stage[r] = StageOf[deposit[r]]
  <1>1. \A q \in References : deposit'[q] = IF q = r THEN s ELSE deposit[q]
    BY DEF TypeOK
  <1>2. \A q \in References : Stage'[q] = IF q = r THEN StageOf[s] ELSE Stage[q]
    BY <1>1 DEF Stage
  <1>3. QED
    BY <1>2 DEF Stage

LEMMA MoneyStep ==
    ASSUME TypeOK, NEW a \in Accounts, NEW w \in Wallets, wallet' = [wallet EXCEPT ![a] = w]
    PROVE  Money' = [Money EXCEPT ![a] = w.balance] /\ Money[a] = wallet[a].balance
  <1>1. \A b \in Accounts : Money'[b] = IF b = a THEN w.balance ELSE Money[b]
    BY DEF Money, TypeOK
  <1>2. QED
    BY <1>1 DEF Money

LEMMA Credits ==
    ASSUME TypeOK, NEW r \in References, payment[r].account \in Accounts,
           deposit[r] \in {"absent", "held"}, deposit' = [deposit EXCEPT ![r] = "confirmed"],
           \E w \in Wallets : /\ wallet' = [wallet EXCEPT ![payment[r].account] = w]
                              /\ w.balance = wallet[payment[r].account].balance + payment[r].amount,
           poolBalance' = poolBalance + payment[r].amount, payment' = payment
    PROVE  Promise!Credit(r)
  <1>1. Stage' = [Stage EXCEPT ![r] = "credited"] /\ Stage[r] \in {"absent", "held"}
    BY StageStep, StageOfStatus DEF Statuses
  <1>2. Money' = [Money EXCEPT ![payment[r].account] = Money[payment[r].account] + payment[r].amount]
    <2>1. PICK w \in Wallets :
            /\ wallet' = [wallet EXCEPT ![payment[r].account] = w]
            /\ w.balance = wallet[payment[r].account].balance + payment[r].amount
      OBVIOUS
    <2>2. /\ Money' = [Money EXCEPT ![payment[r].account] = w.balance]
          /\ Money[payment[r].account] = wallet[payment[r].account].balance
      BY <2>1, MoneyStep
    <2>3. QED
      BY <2>1, <2>2
  <1>3. QED
    BY <1>1, <1>2 DEF Promise!Credit, Stage, Money

LEMMA RefNext ==
    ASSUME IInv, [Next]_vars
    PROVE  [Promise!Next]_(Promise!vars)
  <1>0. TypeOK /\ "held" \in Statuses /\ "failed" \in Statuses
    BY DEF IInv, Statuses
  <1>1. ASSUME UNCHANGED <<payment, wallet, poolBalance, deposit>> PROVE UNCHANGED Promise!vars
    BY <1>1 DEF Promise!vars
  <1>2. CASE UNCHANGED vars
    BY <1>1, <1>2 DEF vars, bank, books
  <1>3. CASE Quiet
    BY <1>1, <1>3 DEF Quiet, books
  <1>4. ASSUME NEW h \in Handlers, Hold(h) PROVE Promise!Next
    <2>1. PICK r \in References : r = work[h]
      BY <1>4, HoldEffect
    <2>2. /\ deposit[r] = "absent" /\ payment[r].account \in Accounts
          /\ deposit' = [deposit EXCEPT ![r] = "held"]
          /\ UNCHANGED <<payment, wallet, poolBalance>>
      BY <1>4, <2>1, HoldEffect DEF Account, IInv, DepositInv
    <2>3. Stage' = [Stage EXCEPT ![r] = "held"] /\ Stage[r] = "absent" /\ Money' = Money
      BY <1>0, <2>2, StageStep, StageOfStatus DEF Money
    <2>4. Promise!Hold(r)
      BY <2>2, <2>3 DEF Promise!Hold, Stage, Money
    <2>5. QED
      BY <2>4 DEF Promise!Next
  <1>5. ASSUME NEW h \in Handlers, Confirm(h) PROVE Promise!Next
    <2>1. PICK r \in References : r = work[h]
      BY <1>5, ConfirmEffect
    <2>2. Account(h) = payment[r].account /\ Amount(h) = payment[r].amount
      BY <2>1 DEF Account, Amount
    <2>3. Promise!Credit(r)
      BY <1>0, <1>5, <2>1, <2>2, ConfirmEffect, Credits
    <2>4. QED
      BY <2>3 DEF Promise!Next
  <1>6. ASSUME NEW o \in Operators, Reject(o) PROVE Promise!Next
    <2>1. PICK r \in References : r = work[o]
      BY <1>6, RejectEffect
    <2>2. /\ deposit[r] = "held" /\ payment[r].account \in Accounts
          /\ deposit' = [deposit EXCEPT ![r] = "failed"]
          /\ UNCHANGED <<payment, wallet, poolBalance>>
      BY <1>6, <2>1, RejectEffect DEF Account, IInv, DepositInv
    <2>3. Stage' = [Stage EXCEPT ![r] = "refused"] /\ Stage[r] = "held" /\ Money' = Money
      BY <1>0, <2>2, StageStep, StageOfStatus DEF Money
    <2>4. Promise!Refuse(r)
      BY <2>2, <2>3 DEF Promise!Refuse, Stage, Money
    <2>5. QED
      BY <2>4 DEF Promise!Next
  <1>7. ASSUME NEW o \in Operators, Accept(o) PROVE Promise!Next
    <2>1. PICK r \in References : r = work[o]
      BY <1>7, AcceptEffect
    <2>2. Account(o) = payment[r].account /\ Amount(o) = payment[r].amount
      BY <2>1 DEF Account, Amount
    <2>3. Promise!Credit(r)
      BY <1>0, <1>7, <2>1, <2>2, AcceptEffect, Credits
    <2>4. QED
      BY <2>3 DEF Promise!Next
  <1>8. ASSUME NEW c \in Orders, Save(c) PROVE UNCHANGED Promise!vars
    <2>1. PICK a \in Accounts, w \in Wallets :
            wallet' = [wallet EXCEPT ![a] = w] /\ w.balance = wallet[a].balance
      BY <1>8, SaveEffect
    <2>2. Money' = Money
      <3>1. Money' = [Money EXCEPT ![a] = Money[a]]
        BY <1>0, <2>1, MoneyStep
      <3>2. QED
        BY <3>1 DEF Money
    <2>3. UNCHANGED <<payment, poolBalance, deposit>>
      BY <1>8, SaveEffect
    <2>4. QED
      BY <2>2, <2>3 DEF Promise!vars, Money
  <1>9. ASSUME NEW s \in Spendings, Spend(s) PROVE Promise!Next
    <2>1. /\ \E n \in Amounts : n <= poolBalance /\ poolBalance' = poolBalance - n
          /\ UNCHANGED <<payment, wallet, deposit>>
      BY <1>9, SpendEffect
    <2>2. Promise!Spend
      BY <2>1 DEF Promise!Spend
    <2>3. QED
      BY <2>2 DEF Promise!Next
  <1>10. QED
    BY <1>2, <1>3, <1>4, <1>5, <1>6, <1>7, <1>8, <1>9, StepKinds

-----------------------------------------------------------------------------
(* The theorems.                                                           *)

(* For any number of requests no variable leaves its type; in particular   *)
(* neither an account nor the pool is ever overdrawn.                      *)
THEOREM TypeCorrect == Spec => []TypeOK
  <1>1. IInv => TypeOK
    BY DEF IInv
  <1>2. QED
    BY <1>1, IInvAlways, PTL

(* An account takes no more payments by itself than the times the partner  *)
(* has opened it, however payments and stale saves of the wallet race.     *)
THEOREM OpeningsCorrect == Spec => []OneCreditPerOpening
  <1>1. IInv => OneCreditPerOpening
    <2> SUFFICES ASSUME IInv, NEW a \in Accounts PROVE Cardinality(Arrivals(a)) <= opened[a]
      BY DEF OneCreditPerOpening, Arrivals
    <2>1. Arrivals(a) \subseteq ledger
      BY DEF Arrivals
    <2>2. Cardinality(Arrivals(a)) \in Nat
      BY <2>1, FS_Subset, FS_CardinalityType DEF IInv, OpeningInv
    <2>3. Cardinality(Arrivals(a)) + OpenNow(a) <= opened[a] /\ OpenNow(a) \in Nat /\ opened[a] \in Nat
      BY DEF IInv, OpeningInv, OpenNow, TypeOK
    <2>4. QED
      BY <2>2, <2>3
  <1>2. QED
    BY <1>1, IInvAlways, PTL

(* Every confirmed deposit has exactly one entry in the wallet ledger and  *)
(* one in the pool ledger, no other deposit has any, and the cached        *)
(* balances of accounts and pool are what the ledgers add up to, with      *)
(* deposits, resolutions, the partner's saves and spending in flight       *)
(* (deposit.service.js:140-199).                                           *)
THEOREM BooksCorrect == Spec => []BooksAgree
  <1>1. BooksInv => BooksAgree
    BY DEF BooksInv
  <1>2. QED
    BY <1>1, BooksInit, BooksNext, IInvAlways, PTL DEF Spec

(* The webhook, the operators and the partner keep the promise of money    *)
(* coming in: a payment enters its account and the pool together and once, *)
(* a held one only when it is accepted, a refused one never.               *)
THEOREM PromiseKept == Spec => KeepsPromise
  BY RefInit, RefNext, IInvAlways, PTL DEF Spec, KeepsPromise, Promise!Spec
=============================================================================
