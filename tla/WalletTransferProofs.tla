------------------------ MODULE WalletTransferProofs ------------------------
(***************************************************************************)
(* Theorems about WalletTransfer, for any number of customers, partners,   *)
(* keys and calls.                                                         *)
(***************************************************************************)
EXTENDS WalletTransfer, Sums, TLAPS

(* A call with an open transaction names two different wallets and has     *)
(* read a balance that covers what it sends.                               *)
OpenInv ==
    \A c \in Calls : pc[c] = "open" =>
        /\ Receiver(c) \in Wallets /\ Receiver(c) # Sender(c)
        /\ view[c].sender >= Amount(c)

(* The balances an open transaction has read are the balances it writes    *)
(* over, unless it has been overtaken and is going to abort.               *)
SnapshotInv ==
    \A c \in Calls : pc[c] = "open" /\ c \notin overtaken =>
        view[c] = [sender |-> balance[Sender(c)], receiver |-> balance[Receiver(c)]]

(* Every ledger entry is of a transfer that is booked.                     *)
EntryInv == IsFiniteSet(ledger) /\ \A l \in ledger : l.ref \in booked

IInv == TypeOK /\ OpenInv /\ SnapshotInv /\ AnswersAreTrue /\ EntryInv /\ BooksAgree

(* A step that moves money takes an amount from one wallet, gives it to    *)
(* another and touches no third: what transfer() does with the two         *)
(* balances it has read is right whatever commits in between.              *)
MovesInPairs ==
    \/ balance' = balance
    \/ \E from \in Wallets, to \in Wallets, n \in Nat :
        /\ from # to
        /\ balance' = [balance EXCEPT ![from] = balance[from] - n, ![to] = balance[to] + n]

-----------------------------------------------------------------------------
LEMMA RequestType ==
    ASSUME TypeOK, NEW c \in Calls
    PROVE  /\ Sender(c) \in Customers /\ Sender(c) \in Wallets
           /\ Amount(c) \in Amounts /\ Amount(c) \in Nat \ {0}
           /\ view[c].sender \in Nat /\ view[c].receiver \in Nat
  <1>1. request[c] \in Requests /\ view[c] \in [sender: Nat, receiver: Nat]
    BY DEF TypeOK
  <1>2. request[c].sender \in Customers /\ request[c].amount \in Amounts
    BY <1>1 DEF Requests
  <1>3. QED
    BY <1>1, <1>2, AmountsArePositive DEF Sender, Amount, Wallets

Entry == [ref: Calls, wallet: Wallets, direction: {"debit", "credit"}, amount: Amounts]

LEMMA WorthType == ASSUME NEW l \in Entry PROVE Worth(l) \in Int
  <1>1. l.amount \in Amounts
    BY DEF Entry
  <1>2. l.amount \in Nat \ {0}
    BY <1>1, AmountsArePositive
  <1>3. QED
    BY <1>2 DEF Worth

LEMMA EntriesType ==
    ASSUME TypeOK, IsFiniteSet(ledger), NEW w \in Wallets
    PROVE  IsFiniteSet(Entries(w)) /\ Entries(w) \subseteq Entry
  BY FS_Subset DEF TypeOK, Entries, Entry

LEMMA TotalGrows ==
    ASSUME NEW L, L \subseteq Entry, IsFiniteSet(L), NEW l \in Entry, l \notin L
    PROVE  Total(L) \in Int /\ Total(L \cup {l}) = Total(L) + Worth(l)
  <1> DEFINE f == [m \in L |-> Worth(m)]
             g == [m \in L \cup {l} |-> Worth(m)]
  <1>1. g[l] = Worth(l) /\ g[l] \in Int
    BY WorthType
  <1>2. \A m \in L : f[m] \in Int /\ g[m] = f[m]
    BY WorthType
  <1>3. Total(L) = SumFunctionOnSet(f, L) /\ Total(L \cup {l}) = SumFunctionOnSet(g, L \cup {l})
    BY Zenon DEF Total
  <1> HIDE DEF f, g
  <1>4. SumFunctionOnSet(f, L) \in Int
        /\ SumFunctionOnSet(g, L \cup {l}) = SumFunctionOnSet(f, L) + g[l]
    BY <1>1, <1>2, SumGrows
  <1>5. QED
    BY <1>1, <1>3, <1>4

LEMMA WalletsAreFinite == IsFiniteSet(Wallets)
  BY AccountsAreFinite, FS_Union DEF Wallets

LEMMA InitOK == Init => IInv
  <1> SUFFICES ASSUME Init PROVE IInv
    OBVIOUS
  <1>1. TypeOK
    BY AmountsArePositive DEF Init, TypeOK, NothingRead, States, Opening
  <1>2. OpenInv /\ SnapshotInv /\ AnswersAreTrue
    BY DEF Init, OpenInv, SnapshotInv, AnswersAreTrue
  <1>3. EntryInv
    BY FS_EmptySet DEF Init, EntryInv
  <1>4. MoneyIsKept
    <2>1. \A w \in Wallets : balance[w] = IF w \in Customers THEN OPENING ELSE 0
      BY DEF Init, Opening
    <2>2. Customers \subseteq Wallets /\ OPENING \in Nat
      BY AmountsArePositive DEF Wallets
    <2>3. QED
      BY <2>1, <2>2, WalletsAreFinite, SumOfEqual DEF MoneyIsKept
  <1>5. BalancesMatchLedger
    <2> SUFFICES ASSUME NEW w \in Wallets PROVE balance[w] = Opening(w) + Total(Entries(w))
      BY DEF BalancesMatchLedger
    <2>1. Entries(w) = {}
      BY DEF Init, Entries
    <2>2. Total({}) = 0
      BY SumEmpty DEF Total
    <2>3. Total(Entries(w)) = 0
      BY <2>1, <2>2
    <2>4. balance[w] = Opening(w) /\ Opening(w) \in Int
      BY AmountsArePositive DEF Init, Opening
    <2>5. QED
      BY <2>3, <2>4
  <1>6. QED
    BY <1>1, <1>2, <1>3, <1>4, <1>5 DEF IInv, BooksAgree

-----------------------------------------------------------------------------
(* The commit.                                                             *)

LEMMA MoveValue ==
    ASSUME IInv, NEW c \in Calls, Commit(c)
    PROVE  /\ Sender(c) \in Wallets /\ Receiver(c) \in Wallets /\ Receiver(c) # Sender(c)
           /\ balance[Sender(c)] - Amount(c) \in Nat
           /\ balance[Receiver(c)] + Amount(c) \in Nat
           /\ balance' = [balance EXCEPT ![Sender(c)] = balance[Sender(c)] - Amount(c),
                                         ![Receiver(c)] = balance[Receiver(c)] + Amount(c)]
  <1>1. pc[c] = "open" /\ c \notin overtaken
    BY DEF Commit, Goto, Serializable
  <1>2. /\ Receiver(c) \in Wallets /\ Receiver(c) # Sender(c)
        /\ view[c].sender >= Amount(c)
        /\ view[c] = [sender |-> balance[Sender(c)], receiver |-> balance[Receiver(c)]]
    BY <1>1 DEF IInv, OpenInv, SnapshotInv
  <1>3. view[c].sender = balance[Sender(c)] /\ view[c].receiver = balance[Receiver(c)]
    BY <1>2
  <1>4. /\ Sender(c) \in Wallets /\ Amount(c) \in Nat
        /\ view[c].sender \in Nat /\ view[c].receiver \in Nat
    BY RequestType DEF IInv
  <1>5. balance' = Move(c)
    BY DEF Commit
  <1>6. QED
    BY <1>2, <1>3, <1>4, <1>5 DEF Move

LEMMA LegsType ==
    ASSUME TypeOK, NEW c \in Calls, Receiver(c) \in Wallets
    PROVE  Legs(c) \subseteq [ref: Calls, wallet: Wallets, direction: {"debit", "credit"},
                              amount: Amounts]
  BY RequestType DEF Legs

LEMMA CommitType ==
    ASSUME IInv, NEW c \in Calls, Commit(c)
    PROVE  TypeOK'
  <1>1. /\ balance \in [Wallets -> Nat] /\ pc \in [Calls -> {"received", "checking", "opening",
              "open", "sent", "replayed", "refused", "died"}]
        /\ view \in [Calls -> [sender: Nat, receiver: Nat]]
        /\ overtaken \subseteq Calls /\ booked \subseteq Calls
    BY DEF IInv, TypeOK
  <1>2. balance' \in [Wallets -> Nat]
    BY <1>1, MoveValue
  <1>3. ledger' \subseteq [ref: Calls, wallet: Wallets, direction: {"debit", "credit"},
                           amount: Amounts]
    BY MoveValue, LegsType DEF IInv, TypeOK, Commit
  <1>4. overtaken' \subseteq Calls /\ booked' \subseteq Calls
    BY <1>1 DEF Commit, Overtake
  <1>5. pc' \in [Calls -> {"received", "checking", "opening", "open",
                           "sent", "replayed", "refused", "died"}]
    BY <1>1 DEF Commit, Goto
  <1>6. view' \in [Calls -> [sender: Nat, receiver: Nat]]
    BY <1>1 DEF Commit, Close, NothingRead
  <1>7. request' \in [Calls -> Requests] /\ accountState' \in [Customers -> States]
    BY DEF IInv, TypeOK, Commit, Close
  <1>8. QED
    BY <1>2, <1>3, <1>4, <1>5, <1>6, <1>7 DEF TypeOK

LEMMA CommitFrame ==
    ASSUME IInv, NEW c \in Calls, Commit(c), NEW d \in Calls, d # c
    PROVE  pc'[d] = pc[d] /\ view'[d] = view[d] /\ request' = request
  BY DEF IInv, TypeOK, Commit, Goto, Close

LEMMA CommitSnapshots ==
    ASSUME IInv, NEW c \in Calls, Commit(c)
    PROVE  OpenInv' /\ SnapshotInv'
  <1>1. pc'[c] = "sent" /\ request' = request
    BY DEF IInv, TypeOK, Commit, Goto, Close
  <1> SUFFICES ASSUME NEW d \in Calls, pc'[d] = "open"
               PROVE  /\ (Receiver(d) \in Wallets /\ Receiver(d) # Sender(d)
                            /\ view[d].sender >= Amount(d))'
                      /\ (d \notin overtaken =>
                            view[d] = [sender |-> balance[Sender(d)],
                                       receiver |-> balance[Receiver(d)]])'
    BY DEF OpenInv, SnapshotInv
  <1>2. d # c
    BY <1>1
  <1>3. pc[d] = "open" /\ view'[d] = view[d]
    BY <1>2, CommitFrame
  <1>4. Sender(d)' = Sender(d) /\ Receiver(d)' = Receiver(d) /\ Amount(d)' = Amount(d)
    BY <1>1 DEF Sender, Receiver, Amount
  <1>5. (Receiver(d) \in Wallets /\ Receiver(d) # Sender(d) /\ view[d].sender >= Amount(d))'
    BY <1>3, <1>4 DEF IInv, OpenInv
  <1>6. ASSUME d \notin overtaken'
        PROVE  view'[d] = [sender |-> balance'[Sender(d)], receiver |-> balance'[Receiver(d)]]
    <2>1. d \notin overtaken /\ {Sender(d), Receiver(d)} \cap {Sender(c), Receiver(c)} = {}
      BY <1>2, <1>3, <1>6 DEF Commit, Overtake
    <2>2. Sender(d) \in Wallets /\ Receiver(d) \in Wallets
      BY <1>3, RequestType DEF IInv, OpenInv
    <2>3. balance \in [Wallets -> Nat]
      BY DEF IInv, TypeOK
    <2>4. balance'[Sender(d)] = balance[Sender(d)] /\ balance'[Receiver(d)] = balance[Receiver(d)]
      BY <2>1, <2>2, <2>3, MoveValue
    <2>5. view[d] = [sender |-> balance[Sender(d)], receiver |-> balance[Receiver(d)]]
      BY <1>3, <2>1 DEF IInv, SnapshotInv
    <2>6. QED
      BY <1>3, <2>4, <2>5
  <1>7. QED
    BY <1>4, <1>5, <1>6

LEMMA CommitAnswers ==
    ASSUME IInv, NEW c \in Calls, Commit(c)
    PROVE  AnswersAreTrue'
  <1>1. pc'[c] = "sent" /\ request' = request /\ booked' = booked \cup {c}
    BY DEF IInv, TypeOK, Commit, Goto, Close
  <1>2. ASSUME NEW d \in Calls
        PROVE  d \in booked' <=> pc'[d] = "sent"
    <2>1. CASE d = c
      BY <1>1, <2>1
    <2>2. CASE d # c
      BY <1>1, <2>2, CommitFrame DEF IInv, AnswersAreTrue
    <2>3. QED
      BY <2>1, <2>2
  <1>3. ASSUME NEW d \in Calls, pc'[d] = "replayed"
        PROVE  Earlier(d)' # {}
    <2>1. d # c /\ pc[d] = "replayed"
      BY <1>1, <1>3, CommitFrame
    <2>2. Earlier(d) # {}
      BY <2>1 DEF IInv, AnswersAreTrue
    <2>3. Earlier(d) \subseteq Earlier(d)'
      BY <1>1 DEF Earlier, SameKey, Key, Sender
    <2>4. QED
      BY <2>2, <2>3
  <1>4. QED
    BY <1>2, <1>3 DEF AnswersAreTrue

LEMMA CommitEntries ==
    ASSUME IInv, NEW c \in Calls, Commit(c)
    PROVE  /\ EntryInv'
           /\ \A l \in ledger : l.ref # c
           /\ ledger' = ledger \cup Legs(c)
  <1>1. ledger' = ledger \cup Legs(c) /\ booked' = booked \cup {c} /\ pc[c] = "open"
    BY DEF Commit, Goto
  <1>2. IsFiniteSet(Legs(c)) /\ \A l \in Legs(c) : l.ref = c
    <2>1. PICK a, b : Legs(c) = {a} \cup {b}
      BY Zenon DEF Legs
    <2>2. IsFiniteSet({a}) /\ IsFiniteSet({b})
      BY FS_Singleton
    <2>3. IsFiniteSet({a} \cup {b})
      BY <2>2, FS_Union
    <2>4. QED
      BY <2>1, <2>3 DEF Legs
  <1>3. IsFiniteSet(ledger')
    BY <1>1, <1>2, FS_Union DEF IInv, EntryInv
  <1>4. c \notin booked
    BY <1>1 DEF IInv, AnswersAreTrue
  <1>5. QED
    BY <1>1, <1>2, <1>3, <1>4 DEF IInv, EntryInv

LEMMA CommitLedger ==
    ASSUME IInv, NEW c \in Calls, Commit(c)
    PROVE  BalancesMatchLedger'
  <1> SUFFICES ASSUME NEW w \in Wallets
               PROVE  balance'[w] = Opening(w) + Total(Entries(w)')
    BY DEF BalancesMatchLedger, Total, Worth, Opening
  <1>1. /\ balance[w] = Opening(w) + Total(Entries(w))
        /\ balance \in [Wallets -> Nat] /\ Opening(w) \in Int
    BY AmountsArePositive DEF IInv, BooksAgree, BalancesMatchLedger, TypeOK, Opening
  <1>2. IsFiniteSet(Entries(w)) /\ Entries(w) \subseteq Entry
    BY EntriesType DEF IInv, EntryInv
  <1> DEFINE debit  == [ref |-> c, wallet |-> Sender(c),   direction |-> "debit",  amount |-> Amount(c)]
             credit == [ref |-> c, wallet |-> Receiver(c), direction |-> "credit", amount |-> Amount(c)]
  <1>3. /\ debit \in Entry /\ Worth(debit) = - Amount(c)
        /\ credit \in Entry /\ Worth(credit) = Amount(c)
    BY MoveValue, RequestType DEF IInv, Entry, Worth
  <1>4. debit \notin ledger /\ credit \notin ledger /\ ledger' = ledger \cup {debit, credit}
    BY CommitEntries DEF Legs
  <1>5. debit.wallet = Sender(c) /\ credit.wallet = Receiver(c)
    OBVIOUS
  <1> HIDE DEF debit, credit
  <1>6. /\ Receiver(c) # Sender(c)
        /\ balance' = [balance EXCEPT ![Sender(c)] = balance[Sender(c)] - Amount(c),
                                      ![Receiver(c)] = balance[Receiver(c)] + Amount(c)]
    BY MoveValue
  <1>7. Amount(c) \in Nat
    BY RequestType DEF IInv
  <1>8. CASE w = Sender(c)
    <2>1. Entries(w)' = Entries(w) \cup {debit} /\ debit \notin Entries(w)
      BY <1>4, <1>5, <1>6, <1>8 DEF Entries
    <2>2. Total(Entries(w)') = Total(Entries(w)) + Worth(debit) /\ Total(Entries(w)) \in Int
      BY <1>2, <1>3, <2>1, TotalGrows
    <2>3. balance'[w] = balance[w] - Amount(c)
      BY <1>1, <1>6, <1>8
    <2>4. QED
      BY <1>1, <1>3, <1>7, <2>2, <2>3
  <1>9. CASE w = Receiver(c)
    <2>1. Entries(w)' = Entries(w) \cup {credit} /\ credit \notin Entries(w)
      BY <1>4, <1>5, <1>6, <1>9 DEF Entries
    <2>2. Total(Entries(w)') = Total(Entries(w)) + Worth(credit) /\ Total(Entries(w)) \in Int
      BY <1>2, <1>3, <2>1, TotalGrows
    <2>3. balance'[w] = balance[w] + Amount(c)
      BY <1>1, <1>6, <1>9
    <2>4. QED
      BY <1>1, <1>3, <1>7, <2>2, <2>3
  <1>10. CASE w \notin {Sender(c), Receiver(c)}
    <2>1. Entries(w)' = Entries(w)
      BY <1>4, <1>5, <1>10 DEF Entries
    <2>2. balance'[w] = balance[w]
      BY <1>1, <1>6, <1>10
    <2>3. QED
      BY <1>1, <2>1, <2>2
  <1>11. QED
    BY <1>8, <1>9, <1>10

LEMMA CommitMoney ==
    ASSUME IInv, NEW c \in Calls, Commit(c)
    PROVE  MoneyIsKept'
  <1> DEFINE debited == [balance EXCEPT ![Sender(c)] = balance[Sender(c)] - Amount(c)]
  <1>1. /\ Sender(c) \in Wallets /\ Receiver(c) \in Wallets /\ Receiver(c) # Sender(c)
        /\ balance' = [balance EXCEPT ![Sender(c)] = balance[Sender(c)] - Amount(c),
                                      ![Receiver(c)] = balance[Receiver(c)] + Amount(c)]
    BY MoveValue
  <1>2. balance \in [Wallets -> Nat] /\ Amount(c) \in Nat
    BY RequestType DEF IInv, TypeOK
  <1>3. /\ debited[Sender(c)] = balance[Sender(c)] - Amount(c)
        /\ \A w \in Wallets \ {Sender(c)} : debited[w] = balance[w]
        /\ \A w \in Wallets : debited[w] \in Int /\ balance[w] \in Int
    BY <1>1, <1>2
  <1>4. /\ balance'[Receiver(c)] = debited[Receiver(c)] + Amount(c)
        /\ \A w \in Wallets \ {Receiver(c)} : balance'[w] = debited[w]
    BY <1>1, <1>2
  <1> HIDE DEF debited
  <1>5. SumFunctionOnSet(balance, Wallets) \in Int
        /\ SumFunctionOnSet(debited, Wallets)
             = SumFunctionOnSet(balance, Wallets) + debited[Sender(c)] - balance[Sender(c)]
    BY <1>1, <1>3, WalletsAreFinite, SumChanges
  <1>6. SumFunctionOnSet(balance', Wallets)
          = SumFunctionOnSet(debited, Wallets) + balance'[Receiver(c)] - debited[Receiver(c)]
    <2>1. balance'[Receiver(c)] \in Int
      BY <1>1, <1>2, <1>3, <1>4
    <2>2. \A w \in Wallets \ {Receiver(c)} : debited[w] \in Int /\ balance'[w] = debited[w]
      BY <1>3, <1>4
    <2>3. debited[Receiver(c)] \in Int
      BY <1>1, <1>3
    <2> DEFINE after == balance'
    <2> HIDE DEF after
    <2>4. after[Receiver(c)] \in Int
          /\ \A w \in Wallets \ {Receiver(c)} : debited[w] \in Int /\ after[w] = debited[w]
      BY <2>1, <2>2 DEF after
    <2>5. SumFunctionOnSet(after, Wallets)
            = SumFunctionOnSet(debited, Wallets) + after[Receiver(c)] - debited[Receiver(c)]
      BY <1>1, <2>3, <2>4, WalletsAreFinite, SumChanges
    <2>6. QED
      BY <2>5 DEF after
  <1>7. SumFunctionOnSet(balance', Wallets) = SumFunctionOnSet(balance, Wallets)
    BY <1>1, <1>2, <1>3, <1>4, <1>5, <1>6
  <1>8. QED
    BY <1>7 DEF IInv, BooksAgree, MoneyIsKept, Wallets

-----------------------------------------------------------------------------
(* The steps that move no money.                                           *)

Quiet(c) ==
    Lookup(c) \/ CheckSender(c) \/ Begin(c) \/ FindDuplicate(c) \/ Abort(c) \/ Die(c)

LEMMA QuietFrame ==
    ASSUME NEW c \in Calls, Quiet(c)
    PROVE  /\ UNCHANGED <<request, books, accountState>>
           /\ \E to \in {"checking", "opening", "open", "replayed", "refused", "died"} :
                pc' = [pc EXCEPT ![c] = to]
           /\ pc[c] \in {"received", "checking", "opening", "open"}
  BY DEF Quiet, Lookup, CheckSender, Begin, FindDuplicate, Abort, Die, Goto, Close

(* Only a call that opens its transaction reads, and then it has read the  *)
(* balances of the moment.                                                 *)
LEMMA QuietView ==
    ASSUME TypeOK, NEW c \in Calls, Quiet(c)
    PROVE  /\ overtaken' \subseteq overtaken /\ overtaken \subseteq overtaken' \cup {c}
           /\ \/ view' = view /\ pc'[c] # "open"
              \/ view' = [view EXCEPT ![c] = NothingRead] /\ pc'[c] # "open"
              \/ /\ CanPay(c) /\ CanReceive(c)
                 /\ view' = [view EXCEPT ![c] = [sender |-> balance[Sender(c)],
                                                 receiver |-> balance[Receiver(c)]]]
  <1>1. pc \in [Calls -> {"received", "checking", "opening", "open",
                          "sent", "replayed", "refused", "died"}]
    BY DEF TypeOK
  <1>2. CASE Lookup(c)
    BY <1>1, <1>2 DEF Lookup, Goto
  <1>3. CASE CheckSender(c)
    BY <1>1, <1>3 DEF CheckSender, Goto
  <1>4. CASE Begin(c)
    BY <1>1, <1>4 DEF Begin, Goto
  <1>5. CASE FindDuplicate(c)
    BY <1>1, <1>5 DEF FindDuplicate, Goto, Close
  <1>6. CASE Abort(c)
    BY <1>1, <1>6 DEF Abort, Goto, Close
  <1>7. CASE Die(c)
    BY <1>1, <1>7 DEF Die, Close
  <1>8. QED
    BY <1>2, <1>3, <1>4, <1>5, <1>6, <1>7 DEF Quiet

LEMMA QuietType ==
    ASSUME TypeOK, NEW c \in Calls, Quiet(c)
    PROVE  TypeOK'
  <1>1. view' \in [Calls -> [sender: Nat, receiver: Nat]]
    <2>1. /\ view \in [Calls -> [sender: Nat, receiver: Nat]]
          /\ balance \in [Wallets -> Nat]
          /\ NothingRead \in [sender: Nat, receiver: Nat]
      BY DEF TypeOK, NothingRead
    <2>2. Sender(c) \in Wallets
      BY RequestType
    <2>3. CASE CanReceive(c)
      <3>1. [sender |-> balance[Sender(c)], receiver |-> balance[Receiver(c)]]
              \in [sender: Nat, receiver: Nat]
        BY <2>1, <2>2, <2>3 DEF CanReceive
      <3>2. QED
        BY <2>1, <3>1, QuietView
    <2>4. CASE ~ CanReceive(c)
      BY <2>1, <2>4, QuietView
    <2>5. QED
      BY <2>3, <2>4
  <1>2. overtaken' \subseteq Calls
    BY QuietView DEF TypeOK
  <1>3. pc' \in [Calls -> {"received", "checking", "opening", "open",
                           "sent", "replayed", "refused", "died"}]
    BY QuietFrame DEF TypeOK
  <1>4. UNCHANGED <<request, balance, booked, ledger, accountState>>
    BY QuietFrame DEF books
  <1>5. QED
    BY <1>1, <1>2, <1>3, <1>4 DEF TypeOK

LEMMA QuietSnapshots ==
    ASSUME IInv, NEW c \in Calls, Quiet(c)
    PROVE  OpenInv' /\ SnapshotInv'
  <1>1. UNCHANGED <<request, balance, booked, ledger, accountState>>
    BY QuietFrame DEF books
  <1>2. TypeOK
    BY DEF IInv
  <1> SUFFICES ASSUME NEW d \in Calls, pc'[d] = "open"
               PROVE  /\ (Receiver(d) \in Wallets /\ Receiver(d) # Sender(d)
                            /\ view[d].sender >= Amount(d))'
                      /\ (d \notin overtaken =>
                            view[d] = [sender |-> balance[Sender(d)],
                                       receiver |-> balance[Receiver(d)]])'
    BY DEF OpenInv, SnapshotInv
  <1>3. Sender(d)' = Sender(d) /\ Receiver(d)' = Receiver(d) /\ Amount(d)' = Amount(d)
    BY <1>1 DEF Sender, Receiver, Amount
  <1>4. view \in [Calls -> [sender: Nat, receiver: Nat]]
    BY <1>2 DEF TypeOK
  <1>5. CASE d = c
    <2>1. /\ CanPay(c) /\ CanReceive(c)
          /\ view' = [view EXCEPT ![c] = [sender |-> balance[Sender(c)],
                                          receiver |-> balance[Receiver(c)]]]
      BY <1>2, <1>5, QuietView
    <2>2. view'[c] = [sender |-> balance[Sender(c)], receiver |-> balance[Receiver(c)]]
      BY <1>4, <2>1
    <2>3. view'[c].sender >= Amount(c)
      BY <2>1, <2>2 DEF CanPay
    <2>4. QED
      BY <1>1, <1>3, <1>5, <2>1, <2>2, <2>3 DEF CanReceive
  <1>6. CASE d # c
    <2>1. pc[d] = "open"
      BY <1>2, <1>6, QuietFrame DEF TypeOK
    <2>2. view'[d] = view[d]
      BY <1>2, <1>4, <1>6, QuietView
    <2>3. d \in overtaken' <=> d \in overtaken
      BY <1>2, <1>6, QuietView
    <2>4. QED
      BY <1>1, <1>3, <2>1, <2>2, <2>3 DEF IInv, OpenInv, SnapshotInv
  <1>7. QED
    BY <1>5, <1>6

LEMMA QuietAnswers ==
    ASSUME IInv, NEW c \in Calls, Quiet(c)
    PROVE  AnswersAreTrue'
  <1>1. UNCHANGED <<request, balance, booked, ledger, accountState>>
    BY QuietFrame DEF books
  <1>2. TypeOK /\ AnswersAreTrue
    BY DEF IInv
  <1>3. \A d \in Calls : Earlier(d)' = Earlier(d)
    BY <1>1 DEF Earlier, SameKey, Key, Sender
  <1>4. \A d \in Calls \ {c} : pc'[d] = pc[d]
    BY <1>2, QuietFrame DEF TypeOK
  <1>5. pc[c] # "sent" /\ pc'[c] # "sent"
    BY <1>2, QuietFrame DEF TypeOK
  <1>6. pc'[c] = "replayed" => Earlier(c) # {}
    BY <1>2 DEF Quiet, Lookup, CheckSender, Begin, FindDuplicate, Raced, Abort, Die, Goto, TypeOK
  <1>7. QED
    BY <1>1, <1>2, <1>3, <1>4, <1>5, <1>6 DEF AnswersAreTrue

LEMMA BooksStay ==
    ASSUME EntryInv, BooksAgree, UNCHANGED <<balance, booked, ledger>>
    PROVE  EntryInv' /\ BooksAgree'
  BY DEF EntryInv, BooksAgree, MoneyIsKept, BalancesMatchLedger, Opening, Total, Worth, Entries,
         Wallets

-----------------------------------------------------------------------------
LEMMA OperatorStep ==
    ASSUME IInv, NEW u \in Customers, NEW s \in States, SetAccountState(u, s)
    PROVE  IInv'
  <1>1. UNCHANGED <<request, pc, view, overtaken, balance, booked, ledger>>
    BY DEF SetAccountState, calls, books
  <1>2. accountState' \in [Customers -> States]
    BY DEF SetAccountState, IInv, TypeOK
  <1>3. TypeOK'
    BY <1>1, <1>2 DEF IInv, TypeOK
  <1>4. OpenInv' /\ SnapshotInv' /\ AnswersAreTrue'
    BY <1>1 DEF IInv, OpenInv, SnapshotInv, AnswersAreTrue, Earlier, SameKey, Key,
                Sender, Receiver, Amount
  <1>5. QED
    BY <1>1, <1>3, <1>4, BooksStay DEF IInv

LEMMA StutterStep == IInv /\ UNCHANGED vars => IInv'
  BY BooksStay DEF IInv, vars, calls, books, TypeOK, OpenInv, SnapshotInv, AnswersAreTrue,
         Earlier, SameKey, Key, Sender, Receiver, Amount

LEMMA InvStep == IInv /\ [Next]_vars => IInv'
  <1> SUFFICES ASSUME IInv, [Next]_vars PROVE IInv'
    OBVIOUS
  <1>1. ASSUME NEW c \in Calls, Commit(c) PROVE IInv'
    BY <1>1, CommitType, CommitSnapshots, CommitAnswers, CommitEntries, CommitLedger, CommitMoney
       DEF IInv, BooksAgree
  <1>2. ASSUME NEW c \in Calls, Quiet(c) PROVE IInv'
    <2>1. UNCHANGED <<balance, booked, ledger>>
      BY <1>2, QuietFrame DEF books
    <2>2. QED
      BY <1>2, <2>1, BooksStay, QuietType, QuietSnapshots, QuietAnswers DEF IInv
  <1>3. ASSUME NEW u \in Customers, NEW s \in States, SetAccountState(u, s) PROVE IInv'
    BY <1>3, OperatorStep
  <1>4. QED
    BY <1>1, <1>2, <1>3, StutterStep DEF Next, Execute, Quiet

LEMMA IInvAlways == Spec => []IInv
  BY InitOK, InvStep, PTL DEF Spec

(* Every variable keeps its type; in particular no wallet is overdrawn     *)
(* however many transfers out of it overlap.                               *)
THEOREM TypeCorrect == Spec => []TypeOK
  <1>1. IInv => TypeOK
    BY DEF IInv
  <1>2. QED
    BY <1>1, IInvAlways, PTL

(* What transfer() answers is so: "sent" if and only if the money has      *)
(* moved, "replayed" only for a transfer of the same sender.               *)
THEOREM AnswersCorrect == Spec => []AnswersAreTrue
  <1>1. IInv => AnswersAreTrue
    BY DEF IInv
  <1>2. QED
    BY <1>1, IInvAlways, PTL

(* The wallets together hold what they held at the start and every balance *)
(* is what its ledger entries add up to, for any number of customers and   *)
(* of transfers under way.                                                 *)
THEOREM BooksCorrect == Spec => []BooksAgree
  <1>1. IInv => BooksAgree
    BY DEF IInv
  <1>2. QED
    BY <1>1, IInvAlways, PTL

LEMMA KeyStep ==
    ASSUME IInv, OneTransferPerKey, [Next]_vars
    PROVE  OneTransferPerKey'
  <1>1. CASE \E c \in Calls : Commit(c)
    <2>1. PICK c \in Calls : Commit(c)
      BY <1>1
    <2>2. request' = request /\ booked' = booked \cup {c} /\ booked \subseteq Calls
      BY <2>1 DEF Commit, Close, IInv, TypeOK
    <2>3. ~ \E d \in booked : SameKey(c, d)
      BY <2>1 DEF Commit, KeyFree
    <2>4. \A d, e \in Calls : SameKey(d, e)' <=> SameKey(d, e)
      BY <2>2 DEF SameKey, Key
    <2>5. \A d \in booked : ~ SameKey(d, c)
      BY <2>3 DEF SameKey
    <2>6. QED
      BY <2>2, <2>3, <2>4, <2>5 DEF OneTransferPerKey
  <1>2. CASE UNCHANGED <<request, booked>>
    BY <1>2 DEF OneTransferPerKey, SameKey, Key
  <1>3. ASSUME NEW c \in Calls, Quiet(c) PROVE UNCHANGED <<request, booked>>
    BY <1>3, QuietFrame DEF books
  <1>4. ASSUME NEW u \in Customers, NEW s \in States, SetAccountState(u, s)
        PROVE  UNCHANGED <<request, booked>>
    BY <1>4 DEF SetAccountState, calls, books
  <1>5. QED
    BY <1>1, <1>2, <1>3, <1>4 DEF Next, Execute, Quiet, vars, calls, books

(* A key moves money once, for any number of customers and of calls that   *)
(* carry it at once.                                                       *)
THEOREM KeysCorrect == Spec => []OneTransferPerKey
  <1>1. Init => OneTransferPerKey
    BY DEF Init, OneTransferPerKey
  <1>2. IInv /\ OneTransferPerKey /\ [Next]_vars => OneTransferPerKey'
    BY KeyStep
  <1>3. QED
    BY <1>1, <1>2, IInvAlways, PTL DEF Spec

(* No step of the service, of an operator or of a crash makes or loses     *)
(* money: every change takes from one wallet what it gives to another.     *)
THEOREM MoneyMovesInPairs == Spec => [][MovesInPairs]_vars
  <1>1. IInv /\ [Next]_vars => [MovesInPairs]_vars
    <2> SUFFICES ASSUME IInv, [Next]_vars PROVE MovesInPairs
      OBVIOUS
    <2>1. ASSUME NEW c \in Calls, Commit(c) PROVE MovesInPairs
      <3>1. Amount(c) \in Nat
        BY RequestType DEF IInv
      <3>2. QED
        BY <2>1, <3>1, MoveValue DEF MovesInPairs
    <2>2. ASSUME NEW c \in Calls, Quiet(c) PROVE MovesInPairs
      BY <2>2, QuietFrame DEF books, MovesInPairs
    <2>3. ASSUME NEW u \in Customers, NEW s \in States, SetAccountState(u, s)
          PROVE  MovesInPairs
      BY <2>3 DEF SetAccountState, books, MovesInPairs
    <2>4. QED
      BY <2>1, <2>2, <2>3 DEF Next, Execute, Quiet, vars, books, MovesInPairs
  <1>2. QED
    BY <1>1, IInvAlways, PTL DEF Spec
=============================================================================
