--------------------------- MODULE WalletTransfer ---------------------------
(***************************************************************************)
(* Transfers between wallets (modules/transaction): a customer pays        *)
(* another customer, or a partner's account, by account number.            *)
(*                                                                         *)
(* A call is one execution of transfer() and stands for the pair of        *)
(* Transaction rows it creates.  Calls interleave at every await, with     *)
(* each other and with an operator who freezes or reopens accounts.  The   *)
(* transaction is a begin step that takes the snapshot and a commit step   *)
(* that fails when one of the two wallets has been written in between.     *)
(* One day is modelled: the daily limit counts every transfer.             *)
(***************************************************************************)
EXTENDS Integers, FiniteSets, Functions

CONSTANTS Calls, Keys,
          Customers,     \* each has one wallet
          Partners,      \* accounts without an owner
          Nowhere,       \* an account number nobody has
          NoKey,         \* a request without an idempotency key
          Amounts,       \* whole-naira amounts within the single-transfer limit
          DAILY_LIMIT,   \* maxDailyOutbound of the customers' tier
          OPENING        \* each customer's balance when the day starts

ASSUME AmountsArePositive == Amounts \subseteq Nat \ {0} /\ OPENING \in Nat /\ DAILY_LIMIT \in Nat
ASSUME AccountsDiffer == Customers \cap Partners = {} /\ Nowhere \notin Customers \cup Partners
ASSUME NoKeyIsNoKey == NoKey \notin Keys
ASSUME AccountsAreFinite == IsFiniteSet(Customers) /\ IsFiniteSet(Partners)

VARIABLES
    request,      \* what each call asks for
    pc,           \* where each call is
    view,         \* the two balances its open transaction has read
    overtaken,    \* open transactions one of whose wallets has been written
    balance,      \* Wallet.balance
    accountState, \* User.accountState
    booked,       \* calls whose Transaction rows exist
    ledger        \* LedgerEntry rows

calls == <<request, pc, view, overtaken>>
books == <<balance, booked, ledger>>
vars  == <<calls, books, accountState>>

Wallets  == Customers \cup Partners
States   == {"active", "frozen", "dormant", "closed"}
Requests == [sender: Customers, receiver: Wallets \cup {Nowhere},
             amount: Amounts, key: Keys \cup {NoKey}]
NothingRead == [sender |-> 0, receiver |-> 0]
Opening(w)  == IF w \in Customers THEN OPENING ELSE 0

Sender(c)   == request[c].sender
Receiver(c) == request[c].receiver
Amount(c)   == request[c].amount
Key(c)      == request[c].key

SameKey(c, d) == Key(c) # NoKey /\ Key(d) = Key(c)

(* Rows the replay lookup finds: the sender's own.                         *)
Earlier(c) == {d \in booked : SameKey(c, d) /\ Sender(d) = Sender(c)}

Goto(c, from, to) ==
    /\ pc[c] = from
    /\ pc' = [pc EXCEPT ![c] = to]

-----------------------------------------------------------------------------
(* transfer().                                                             *)

Lookup(c) ==
    /\ Goto(c, "received", IF Earlier(c) = {} THEN "checking" ELSE "replayed")
    /\ UNCHANGED <<request, view, overtaken, books, accountState>>

(* The rows the daily aggregate matches.  It compares Transaction.sender,  *)
(* an ObjectId, with the string the session token carries; an aggregate    *)
(* casts nothing, so no row ever matches.                                  *)
CountedToday(c) == {}

(* What a set of transfers adds up to.                                     *)
Sent(C) == SumFunctionOnSet([c \in C |-> Amount(c)], C)

WithinDailyLimit(c) == Sent(CountedToday(c)) + Amount(c) <= DAILY_LIMIT

CheckSender(c) ==
    /\ Goto(c, "checking", IF accountState[Sender(c)] = "active" /\ WithinDailyLimit(c)
                             THEN "opening" ELSE "refused")
    /\ UNCHANGED <<request, view, overtaken, books, accountState>>

(* Mutant: nobody looks whether the sender can pay.                        *)
SendsAnyway(c) == TRUE

CanPay(c) == balance[Sender(c)] >= Amount(c)

CanReceive(c) ==
    /\ Receiver(c) \in Wallets
    /\ Receiver(c) # Sender(c)
    /\ Receiver(c) \in Customers => accountState[Receiver(c)] = "active"

Begin(c) ==
    /\ pc[c] = "opening"
    /\ IF CanPay(c) /\ CanReceive(c)
         THEN /\ Goto(c, "opening", "open")
              /\ view' = [view EXCEPT ![c] = [sender |-> balance[Sender(c)],
                                              receiver |-> balance[Receiver(c)]]]
         ELSE Goto(c, "opening", "refused") /\ UNCHANGED view
    /\ UNCHANGED <<request, overtaken, books, accountState>>

(* Mutant: no conflict on the wallets.                                     *)
NoWriteConflict(c) == TRUE

Serializable(c) == c \notin overtaken

(* Mutant: the unique index on idempotencyKey is missing.                  *)
NoUniqueIndex(c) == TRUE

(* One index over all customers' keys.                                     *)
KeyFree(c) == ~ \E d \in booked : SameKey(c, d)

Legs(c) == {[ref |-> c, wallet |-> Sender(c),   direction |-> "debit",  amount |-> Amount(c)],
            [ref |-> c, wallet |-> Receiver(c), direction |-> "credit", amount |-> Amount(c)]}

Move(c) == [balance EXCEPT ![Sender(c)]   = view[c].sender - Amount(c),
                           ![Receiver(c)] = view[c].receiver + Amount(c)]

Overtake(c) ==
    (overtaken \cup {d \in Calls : /\ pc[d] = "open"
                                   /\ {Sender(d), Receiver(d)} \cap {Sender(c), Receiver(c)} # {}})
        \ {c}

Close(c) ==
    /\ view' = [view EXCEPT ![c] = NothingRead]
    /\ UNCHANGED <<request, accountState>>

Commit(c) ==
    /\ Goto(c, "open", "sent")
    /\ Serializable(c)
    /\ KeyFree(c)
    /\ balance' = Move(c)
    /\ booked' = booked \cup {c}
    /\ ledger' = ledger \cup Legs(c)
    /\ overtaken' = Overtake(c)
    /\ Close(c)

(* Mutant: the row that took the key may be anyone's.                      *)
AnyonesRow(c) == {d \in booked : SameKey(c, d)}

Raced(c) == Earlier(c)

(* The insert finds the key taken; whose row it is decides the answer.     *)
FindDuplicate(c) ==
    /\ Serializable(c)
    /\ ~ KeyFree(c)
    /\ Goto(c, "open", IF Raced(c) # {} THEN "replayed" ELSE "refused")
    /\ overtaken' = overtaken \ {c}
    /\ Close(c)
    /\ UNCHANGED books

(* A write conflict or any other error inside the transaction.             *)
Abort(c) ==
    /\ Goto(c, "open", "refused")
    /\ overtaken' = overtaken \ {c}
    /\ Close(c)
    /\ UNCHANGED books

(* The process dies, or an error outside the transaction ends the call.    *)
Die(c) ==
    /\ pc[c] \in {"received", "checking", "opening", "open"}
    /\ pc' = [pc EXCEPT ![c] = "died"]
    /\ overtaken' = overtaken \ {c}
    /\ Close(c)
    /\ UNCHANGED books

(* setAccountState(): an operator's load and save of the user.             *)
SetAccountState(u, s) ==
    /\ accountState[u] # s
    /\ accountState' = [accountState EXCEPT ![u] = s]
    /\ UNCHANGED <<calls, books>>

Execute(c) ==
    \/ Lookup(c) \/ CheckSender(c) \/ Begin(c)
    \/ Commit(c) \/ FindDuplicate(c) \/ Abort(c) \/ Die(c)

-----------------------------------------------------------------------------
Init ==
    /\ request \in [Calls -> Requests]
    /\ pc = [c \in Calls |-> "received"]
    /\ view = [c \in Calls |-> NothingRead]
    /\ overtaken = {}
    /\ balance = [w \in Wallets |-> Opening(w)]
    /\ accountState = [u \in Customers |-> "active"]
    /\ booked = {}
    /\ ledger = {}

Next ==
    \/ \E c \in Calls : Execute(c)
    \/ \E u \in Customers, s \in States : SetAccountState(u, s)

Spec == Init /\ [][Next]_vars

-----------------------------------------------------------------------------
(* Properties.                                                             *)

(* Every variable holds a value of its kind; no wallet is ever overdrawn,  *)
(* however transfers out of it overlap.                                    *)
TypeOK ==
    /\ request \in [Calls -> Requests]
    /\ pc \in [Calls -> {"received", "checking", "opening", "open",
                         "sent", "replayed", "refused", "died"}]
    /\ view \in [Calls -> [sender: Nat, receiver: Nat]]
    /\ overtaken \subseteq Calls
    /\ balance \in [Wallets -> Nat]
    /\ accountState \in [Customers -> States]
    /\ booked \subseteq Calls
    /\ ledger \subseteq [ref: Calls, wallet: Wallets, direction: {"debit", "credit"},
                         amount: Amounts]

(* No transfer makes or loses money: the wallets together hold what they   *)
(* held at the start (the invariant transaction.service.test.js is about), *)
(* with any number of transfers, crossing ones too, under way.             *)
MoneyIsKept == SumFunctionOnSet(balance, Wallets) = OPENING * Cardinality(Customers)

Worth(l)   == IF l.direction = "credit" THEN l.amount ELSE - l.amount
Total(L)   == SumFunctionOnSet([l \in L |-> Worth(l)], L)
Entries(w) == {l \in ledger : l.wallet = w}

(* The cached balance of every wallet is what the ledger adds up to.       *)
BalancesMatchLedger == \A w \in Wallets : balance[w] = Opening(w) + Total(Entries(w))

(* Money is neither made nor lost, and every balance can be accounted for. *)
BooksAgree == MoneyIsKept /\ BalancesMatchLedger

(* A key moves money once, and not for two customers either.               *)
OneTransferPerKey == \A c, d \in booked : SameKey(c, d) => c = d

(* What a call answers is so: money has moved if and only if it says       *)
(* "sent", and a replay speaks of a transfer its own sender has made.      *)
AnswersAreTrue ==
    \A c \in Calls :
        /\ c \in booked <=> pc[c] = "sent"
        /\ pc[c] = "replayed" => Earlier(c) # {}

(* What the service tells a customer it refuses, and what                  *)
(* bankTransfer.service.js says its own limit is the same as: nobody sends *)
(* more in a day than the tier's daily outbound limit.                     *)
DailyLimitKept ==
    \A u \in Customers : Sent({c \in booked : Sender(c) = u}) <= DAILY_LIMIT
=============================================================================
