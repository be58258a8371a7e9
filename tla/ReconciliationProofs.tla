------------------------- MODULE ReconciliationProofs -------------------------
(***************************************************************************)
(* Theorems about Reconciliation, for any number of overlapping scans,     *)
(* operators and wallets and any bounds on movements and errors.           *)
(***************************************************************************)
EXTENDS Reconciliation, TLAPS

(* Types of what scanners and operators hold; the amounts are left open.   *)
ScanOK ==
    /\ half \in {"wallets", "pools"}
    /\ open \in [Checks -> Nat]
    /\ pc \in [Scanners -> {"idle", "loading", "summing", "looking", "saving"}]
    /\ todo \in [Scanners -> SUBSET Checks]
    /\ check \in [Actors -> Checks \cup {NoCheck}]
    /\ cached = [s \in Scanners |-> cached[s]]
    /\ inSync \in [Scanners -> BOOLEAN]
    /\ found \in [Actors -> {"none", "open", "resolved"}]
    /\ disturbed \subseteq Scanners

(* A scanner past loading is at a check of its half.                       *)
PlaceInv ==
    \A s \in Scanners :
        /\ todo[s] \subseteq IF half = "pools" THEN {PoolSum} ELSE Wallets
        /\ pc[s] = "loading" => half = "wallets"
        /\ pc[s] \in {"summing", "looking", "saving"} =>
             check[s] \in IF half = "pools" THEN {PoolLedger, PoolSum} ELSE Wallets

(* Whoever holds an open row holds one there is, and a scanner holds none  *)
(* before it has looked.                                                   *)
RowInv ==
    /\ \A a \in Actors : found[a] = "open" => check[a] \in Checks /\ open[check[a]] > 0
    /\ \A s \in Scanners : found[s] # "none" => pc[s] = "saving"

(* What a scan has read of books that have not moved since is what they    *)
(* say now.                                                                *)
Cached(k) == IF k \in Wallets THEN balance[k] ELSE poolBalance

Fresh(s) ==
    /\ pc[s] \in {"summing", "looking", "saving"} => cached[s] = Cached(check[s])
    /\ pc[s] \in {"looking", "saving"} => (inSync[s] <=> ~ Mismatched(check[s]))

FreshInv == \A s \in Scanners \ disturbed : Fresh(s)

IInv == ScanOK /\ PlaceInv /\ RowInv /\ FreshInv /\ OneOpenException

LEMMA InitIInv == Init => IInv
  <1> SUFFICES ASSUME Init PROVE IInv
    OBVIOUS
  <1>1. ScanOK
    BY DEF Init, ScanOK
  <1>2. PlaceInv
    BY DEF Init, PlaceInv
  <1>3. RowInv
    BY DEF Init, RowInv, Actors
  <1>5. OneOpenException
    BY DEF Init, OneOpenException
  <1>4. FreshInv
    BY DEF Init, FreshInv, Fresh
  <1> QED BY <1>1, <1>2, <1>3, <1>4, <1>5 DEF IInv

(* The books move.                                                         *)
LEMMA MoveKeeps ==
    ASSUME IInv, MayMove
    PROVE  IInv'
  <1>1. ScanOK'
    BY DEF IInv, ScanOK, MayMove, scan
  <1>2. PlaceInv' /\ RowInv' /\ OneOpenException'
    BY DEF IInv, PlaceInv, RowInv, OneOpenException, MayMove, scan
  <1>3. FreshInv'
    BY DEF FreshInv, Fresh, MayMove, scan
  <1> QED BY <1>1, <1>2, <1>3 DEF IInv

-----------------------------------------------------------------------------
(* The books stand still, and so do the verdicts drawn from them.          *)

LEMMA StandStill ==
    ASSUME UNCHANGED books, NEW k
    PROVE  Mismatched(k)' = Mismatched(k) /\ Cached(k)' = Cached(k)
  BY DEF books, Mismatched, Cached, WalletSum

(* A step of one scanner leaves what the others have read alone.           *)
Others(s) ==
    \A x \in Scanners \ {s} : /\ pc'[x] = pc[x] /\ todo'[x] = todo[x] /\ check'[x] = check[x]
                              /\ cached'[x] = cached[x] /\ inSync'[x] = inSync[x]

LEMMA FreshKeeps ==
    ASSUME FreshInv, UNCHANGED books, NEW s, Others(s), disturbed \ {s} \subseteq disturbed',
           s \in Scanners /\ s \notin disturbed' => Fresh(s)'
    PROVE  FreshInv'
  <1> SUFFICES ASSUME NEW x \in Scanners, x \notin disturbed' PROVE Fresh(x)'
    BY DEF FreshInv
  <1>1. CASE x = s
    BY <1>1
  <1>2. CASE x # s
    <2>1. Fresh(x) /\ check'[x] = check[x]
      BY <1>2 DEF FreshInv, Others
    <2>2. Cached(check[x])' = Cached(check[x]) /\ (Mismatched(check[x])' <=> Mismatched(check[x]))
      <3> SUFFICES ASSUME NEW k, k = check[x], k = check'[x]
                   PROVE  Cached(check[x])' = Cached(check[x])
                          /\ (Mismatched(check[x])' <=> Mismatched(check[x]))
        BY <2>1
      <3>1. Mismatched(k)' = Mismatched(k) /\ Cached(k)' = Cached(k)
        BY StandStill
      <3> QED BY <3>1 DEF Mismatched, Cached
    <2> QED BY <1>2, <2>1, <2>2 DEF Fresh, Others
  <1> QED BY <1>1, <1>2

LEMMA StartKeeps ==
    ASSUME IInv, NEW s \in Scanners, Start(s)
    PROVE  IInv'
  <1> ScanOK /\ PlaceInv /\ RowInv /\ FreshInv /\ OneOpenException
    BY DEF IInv
  <1>1. ScanOK'
    BY DEF ScanOK, Start, Goto, Checks, Actors
  <1>2. PlaceInv'
    BY DEF ScanOK, PlaceInv, Start, Goto, Actors
  <1>3. RowInv' /\ OneOpenException'
    BY DEF ScanOK, RowInv, OneOpenException, Start, Goto, Actors
  <1>4. Others(s) /\ UNCHANGED books
    BY DEF ScanOK, Others, Start, Goto, Actors
  <1>5. Fresh(s)'
    BY ChecksDiffer DEF ScanOK, Fresh, Start, Goto, Actors, Cached, books
  <1>6. FreshInv'
    BY <1>4, <1>5, FreshKeeps DEF Start
  <1> QED BY <1>1, <1>2, <1>3, <1>6 DEF IInv

LEMMA LoadKeeps ==
    ASSUME IInv, NEW s \in Scanners, LoadWallet(s)
    PROVE  IInv'
  <1> ScanOK /\ PlaceInv /\ RowInv /\ FreshInv /\ OneOpenException
    BY DEF IInv
  <1>0. PICK w \in todo[s] : /\ check' = [check EXCEPT ![s] = w]
                             /\ cached' = [cached EXCEPT ![s] = balance[w]]
                             /\ todo' = [todo EXCEPT ![s] = @ \ {w}]
    BY DEF LoadWallet
  <1>1. w \in Wallets /\ half = "wallets"
    BY DEF PlaceInv, LoadWallet, Goto, ScanOK
  <1>2. ScanOK'
    BY <1>0, <1>1 DEF ScanOK, LoadWallet, Goto, Checks, Actors
  <1>3. PlaceInv'
    BY <1>0, <1>1 DEF ScanOK, PlaceInv, LoadWallet, Goto, Actors
  <1>4. RowInv' /\ OneOpenException'
    BY <1>0 DEF ScanOK, RowInv, OneOpenException, LoadWallet, Goto, Actors
  <1>5. Others(s) /\ UNCHANGED books
    BY <1>0 DEF ScanOK, Others, LoadWallet, Goto, Actors
  <1>6. Fresh(s)'
    BY <1>0, <1>1 DEF ScanOK, Fresh, LoadWallet, Goto, Actors, Cached, books
  <1>7. FreshInv'
    BY <1>5, <1>6, FreshKeeps DEF LoadWallet
  <1> QED BY <1>2, <1>3, <1>4, <1>7 DEF IInv

LEMMA SumKeeps ==
    ASSUME IInv, NEW s \in Scanners, Sum(s)
    PROVE  IInv'
  <1> ScanOK /\ PlaceInv /\ RowInv /\ FreshInv /\ OneOpenException
    BY DEF IInv
  <1>1. ScanOK'
    BY DEF ScanOK, Sum, Goto, Checks, Actors
  <1>2. PlaceInv'
    BY DEF ScanOK, PlaceInv, Sum, Goto, Actors
  <1>3. RowInv' /\ OneOpenException'
    BY DEF ScanOK, RowInv, OneOpenException, Sum, Goto, Actors
  <1>4. Others(s) /\ UNCHANGED books
    BY DEF ScanOK, Others, Sum, Goto, Actors
  <1>5. check[s] \in Checks /\ check'[s] = check[s] /\ cached'[s] = cached[s]
    BY DEF PlaceInv, ScanOK, Sum, Goto, Checks
  <1>6. cached[s] = Cached(check[s]) => (cached[s] = Computed(check[s]) <=> ~ Mismatched(check[s]))
    BY <1>5, ChecksDiffer DEF Cached, Computed, Mismatched, Checks
  <1>7. s \notin disturbed' => Fresh(s)'
    <2> SUFFICES ASSUME s \notin disturbed PROVE Fresh(s)'
      BY DEF Sum
    <2>1. cached[s] = Cached(check[s])
      BY DEF FreshInv, Fresh, Sum, Goto
    <2>2. inSync'[s] <=> ~ Mismatched(check[s])
      BY <1>6, <2>1 DEF Sum, ScanOK
    <2>3. Cached(check[s])' = Cached(check[s]) /\ (Mismatched(check[s])' <=> Mismatched(check[s]))
      BY <1>4, <1>5 DEF books, Mismatched, Cached, WalletSum
    <2> QED BY <1>5, <2>1, <2>2, <2>3 DEF Fresh
  <1>8. FreshInv'
    BY <1>4, <1>7, FreshKeeps DEF Sum
  <1> QED BY <1>1, <1>2, <1>3, <1>8 DEF IInv

LEMMA LookKeeps ==
    ASSUME IInv, NEW s \in Scanners, Look(s)
    PROVE  IInv'
  <1> ScanOK /\ PlaceInv /\ RowInv /\ FreshInv /\ OneOpenException
    BY DEF IInv
  <1>0. /\ check' = check
        /\ pc' = [pc EXCEPT ![s] = "saving"] /\ pc[s] = "looking"
        /\ check[s] \in Checks
        /\ \/ open[check[s]] > 0 /\ found' = [found EXCEPT ![s] = "open"]
           \/ found' = [found EXCEPT ![s] = "none"]
    <2>1. check[s] \in Checks /\ [check EXCEPT ![s] = check[s]] = check
      BY DEF PlaceInv, ScanOK, Look, Goto, Checks, Actors
    <2> QED BY <2>1 DEF Look, Goto, OfThisCheck
  <1>1. ScanOK'
    BY <1>0 DEF ScanOK, Look, Checks, Actors
  <1>2. PlaceInv'
    BY <1>0 DEF ScanOK, PlaceInv, Look
  <1>3. RowInv' /\ OneOpenException'
    BY <1>0 DEF ScanOK, RowInv, OneOpenException, Look, Actors
  <1>4. Others(s) /\ UNCHANGED books
    BY <1>0 DEF ScanOK, Others, Look
  <1>5. s \notin disturbed' => Fresh(s)'
    <2> SUFFICES ASSUME s \notin disturbed PROVE Fresh(s)'
      BY DEF Look
    <2>1. cached[s] = Cached(check[s]) /\ (inSync[s] <=> ~ Mismatched(check[s]))
      BY <1>0 DEF FreshInv, Fresh
    <2>2. Cached(check[s])' = Cached(check[s]) /\ (Mismatched(check[s])' <=> Mismatched(check[s]))
      BY <1>0, <1>4 DEF books, Mismatched, Cached, WalletSum
    <2> QED BY <1>0, <2>1, <2>2 DEF Fresh, Look
  <1>6. FreshInv'
    BY <1>4, <1>5, FreshKeeps DEF Look
  <1> QED BY <1>1, <1>2, <1>3, <1>6 DEF IInv

-----------------------------------------------------------------------------
(* Rows.                                                                   *)

(* Whoever resolves a row holds it, and nobody holds it open afterwards;   *)
(* a row is only added where there is none.                                *)
RowsMove(by) ==
    \/ LetGo(by)
    \/ found[by] = "open" /\ ResolveRow(check[by], by)
    \/ found[by] = "none" /\ UNCHANGED found /\ UNCHANGED open
    \/ /\ found[by] = "none" /\ UNCHANGED found
       /\ check[by] \in Checks /\ open[check[by]] = 0
       /\ open' = [open EXCEPT ![check[by]] = @ + 1]

LEMMA RowsKeep ==
    ASSUME ScanOK, RowInv, OneOpenException, NEW by \in Actors, RowsMove(by)
    PROVE  /\ open' \in [Checks -> Nat] /\ OneOpenException'
           /\ found' \in [Actors -> {"none", "open", "resolved"}]
           /\ found'[by] = "none"
           /\ \A a \in Actors : /\ found'[a] = "open" => found[a] = "open" /\ open'[check[a]] > 0
                                /\ found'[a] # "none" => found[a] # "none"
  <1> USE DEF ScanOK
  <1>1. CASE LetGo(by)
    BY <1>1 DEF LetGo, OneOpenException, RowInv
  <1>2. CASE found[by] = "open" /\ ResolveRow(check[by], by)
    <2>1. check[by] \in Checks /\ open[check[by]] > 0
      BY <1>2 DEF RowInv
    <2>2. open' = [open EXCEPT ![check[by]] = open[check[by]] - 1] /\ open[check[by]] - 1 \in Nat
      BY <1>2, <2>1 DEF ResolveRow
    <2>3. open' \in [Checks -> Nat] /\ OneOpenException'
      BY <2>1, <2>2 DEF OneOpenException
    <2>4. \A a \in Actors : found'[a] = IF a = by THEN "none"
                                        ELSE IF check[a] = check[by] /\ found[a] = "open" THEN "resolved"
                                        ELSE found[a]
      BY <1>2 DEF ResolveRow
    <2>5. found' \in [Actors -> {"none", "open", "resolved"}]
      BY <1>2 DEF ResolveRow
    <2>6. ASSUME NEW a \in Actors, found'[a] = "open" PROVE found[a] = "open" /\ open'[check[a]] > 0
      <3>1. found[a] = "open" /\ check[a] # check[by]
        BY <2>4, <2>6
      <3> QED BY <3>1, <2>2 DEF RowInv
    <2> QED BY <2>3, <2>4, <2>5, <2>6
  <1>3. CASE found[by] = "none" /\ UNCHANGED found /\ UNCHANGED open
    BY <1>3 DEF OneOpenException, RowInv
  <1>4. CASE /\ found[by] = "none" /\ UNCHANGED found
             /\ check[by] \in Checks /\ open[check[by]] = 0
             /\ open' = [open EXCEPT ![check[by]] = @ + 1]
    BY <1>4 DEF OneOpenException, RowInv
  <1> QED BY <1>1, <1>2, <1>3, <1>4 DEF RowsMove

LEMMA RecordMovesRows ==
    ASSUME ScanOK, PlaceInv, NEW s \in Scanners, Record(s)
    PROVE  RowsMove(s) /\ Continue(s)
  <1>1. check[s] \in Checks
    BY DEF PlaceInv, ScanOK, Record, Checks
  <1>2. CASE InSync(s) \/ Refresh(s)
    BY <1>2 DEF InSync, Refresh, RowsMove
  <1>3. CASE AutoResolve(s)
    BY <1>3 DEF AutoResolve, RowsMove
  <1>4. CASE OpenException(s)
    BY <1>1, <1>4 DEF OpenException, IndexFree, RowsMove
  <1> QED BY <1>2, <1>3, <1>4 DEF Record

LEMMA RecordKeeps ==
    ASSUME IInv, NEW s \in Scanners, Record(s)
    PROVE  IInv'
  <1> ScanOK /\ PlaceInv /\ RowInv /\ FreshInv /\ OneOpenException
    BY DEF IInv
  <1>0. RowsMove(s) /\ Continue(s) /\ s \in Actors
    BY RecordMovesRows DEF Actors
  <1>1. /\ open' \in [Checks -> Nat] /\ OneOpenException'
        /\ found' \in [Actors -> {"none", "open", "resolved"}]
        /\ found'[s] = "none"
        /\ \A a \in Actors : /\ found'[a] = "open" => found[a] = "open" /\ open'[check[a]] > 0
                             /\ found'[a] # "none" => found[a] # "none"
    BY <1>0, RowsKeep
  <1>2. ScanOK'
    BY <1>0, <1>1 DEF ScanOK, Continue, Goto, Checks, Actors
  <1>3. PlaceInv'
    BY <1>0 DEF ScanOK, PlaceInv, Continue, Goto, Actors
  <1>4. Others(s) /\ UNCHANGED books /\ pc'[s] # "saving" /\ \A a \in Actors \ {s} : check'[a] = check[a]
    BY <1>0 DEF ScanOK, Others, Continue, Goto, Actors
  <1>5. RowInv'
    BY <1>1, <1>4 DEF RowInv, Others, Actors
  <1>6. s \notin disturbed' => Fresh(s)'
    <2> SUFFICES ASSUME s \notin disturbed PROVE Fresh(s)'
      BY <1>0 DEF Continue
    <2>1. pc'[s] \in {"idle", "loading", "summing"}
      BY <1>0 DEF Continue, Goto, ScanOK
    <2>2. ASSUME pc'[s] = "summing" PROVE cached'[s] = Cached(check[s])'
      <3>1. half = "pools" /\ todo[s] # {} /\ check'[s] = PoolSum /\ cached'[s] = cached[s]
        BY <1>0, <2>2 DEF Continue, Goto, ScanOK, Actors
      <3>2. cached[s] = poolBalance
        BY <1>0, <3>1, ChecksDiffer DEF FreshInv, Fresh, Cached, PlaceInv, Continue, Goto
      <3> QED BY <3>1, <3>2, <1>4, ChecksDiffer DEF Cached, books
    <2> QED BY <2>1, <2>2 DEF Fresh
  <1>7. FreshInv'
    BY <1>0, <1>4, <1>6, FreshKeeps DEF Continue
  <1> QED BY <1>1, <1>2, <1>3, <1>5, <1>7 DEF IInv

LEMMA FailKeeps ==
    ASSUME IInv, NEW s \in Scanners, Fail(s)
    PROVE  IInv'
  <1> ScanOK /\ PlaceInv /\ RowInv /\ FreshInv /\ OneOpenException
    BY DEF IInv
  <1>1. /\ open' \in [Checks -> Nat] /\ OneOpenException'
        /\ found' \in [Actors -> {"none", "open", "resolved"}]
        /\ found'[s] = "none"
        /\ \A a \in Actors : /\ found'[a] = "open" => found[a] = "open" /\ open'[check[a]] > 0
                             /\ found'[a] # "none" => found[a] # "none"
    BY RowsKeep DEF Fail, RowsMove, Actors
  <1>2. ScanOK'
    BY <1>1 DEF ScanOK, Fail, Checks, Actors
  <1>3. PlaceInv'
    BY DEF ScanOK, PlaceInv, Fail
  <1>4. Others(s) /\ UNCHANGED books /\ pc'[s] = "idle" /\ \A a \in Actors \ {s} : check'[a] = check[a]
    BY DEF ScanOK, Others, Fail, Actors
  <1>5. RowInv'
    BY <1>1, <1>4 DEF RowInv, Others, Actors
  <1>6. FreshInv'
    BY <1>4, FreshKeeps DEF Fail, Fresh
  <1> QED BY <1>1, <1>2, <1>3, <1>5, <1>6 DEF IInv

LEMMA OperatorKeeps ==
    ASSUME IInv, NEW o \in Operators, LoadException(o) \/ ResolveException(o)
    PROVE  IInv'
  <1> ScanOK /\ PlaceInv /\ RowInv /\ FreshInv /\ OneOpenException
    BY DEF IInv
  <1>0. o \in Actors /\ o \notin Scanners
    BY ActorsDiffer DEF Actors
  <1>1. /\ UNCHANGED <<half, books, pc, todo, cached, inSync, errors, disturbed>>
        /\ \A a \in Actors \ {o} : check'[a] = check[a]
        /\ check' \in [Actors -> Checks \cup {NoCheck}]
    BY DEF LoadException, ResolveException, ScanOK
  <1>2. CASE LoadException(o)
    <2>1. PICK k \in Checks : open[k] > 0 /\ check' = [check EXCEPT ![o] = k]
      BY <1>2 DEF LoadException
    <2>2. found' = [found EXCEPT ![o] = "open"] /\ UNCHANGED open
      BY <1>2 DEF LoadException
    <2>3. ScanOK'
      BY <1>1, <2>2 DEF ScanOK
    <2>4. RowInv' /\ OneOpenException'
      BY <1>0, <1>1, <2>1, <2>2 DEF RowInv, OneOpenException, ScanOK, Actors
    <2>5. Others(o)
      BY <1>0, <1>1 DEF Others, Actors
    <2>6. PlaceInv' /\ FreshInv'
      BY <1>0, <1>1, <2>5, FreshKeeps DEF PlaceInv, Actors
    <2> QED BY <2>3, <2>4, <2>6 DEF IInv
  <1>3. CASE ResolveException(o)
    <2>1. /\ open' \in [Checks -> Nat] /\ OneOpenException'
          /\ found' \in [Actors -> {"none", "open", "resolved"}]
          /\ found'[o] = "none"
          /\ \A a \in Actors : /\ found'[a] = "open" => found[a] = "open" /\ open'[check[a]] > 0
                               /\ found'[a] # "none" => found[a] # "none"
      BY <1>0, <1>3, RowsKeep DEF ResolveException, RowsMove
    <2>2. ScanOK'
      BY <1>1, <2>1 DEF ScanOK
    <2>3. RowInv'
      BY <1>0, <1>1, <2>1 DEF RowInv, Actors
    <2>4. Others(o)
      BY <1>0, <1>1 DEF Others, Actors
    <2>5. PlaceInv' /\ FreshInv'
      BY <1>0, <1>1, <2>4, FreshKeeps DEF PlaceInv, Actors
    <2> QED BY <2>1, <2>2, <2>3, <2>5 DEF IInv
  <1> QED BY <1>2, <1>3

-----------------------------------------------------------------------------
(* Theorems.                                                               *)

LEMMA NextIInv == ASSUME IInv, [Next]_vars PROVE IInv'
  <1>1. CASE UNCHANGED vars
    <2>1. UNCHANGED <<half, books, open, scan, errors, disturbed>>
      BY <1>1 DEF vars
    <2>2. ScanOK' /\ PlaceInv' /\ RowInv' /\ OneOpenException'
      BY <2>1 DEF IInv, ScanOK, PlaceInv, RowInv, OneOpenException, scan
    <2>4. FreshInv'
      <3> SUFFICES ASSUME NEW s \in Scanners, s \notin disturbed PROVE Fresh(s)'
        BY <2>1 DEF FreshInv
      <3>1. Fresh(s)
        BY DEF IInv, FreshInv
      <3>2. UNCHANGED <<pc, check, cached, inSync, balance, ledger, poolBalance, poolLedger>>
        BY <2>1 DEF scan, books
      <3> QED BY <3>1, <3>2 DEF Fresh, Cached, Mismatched, WalletSum
    <2> QED BY <2>2, <2>4 DEF IInv
  <1>2. CASE (\E w \in Wallets : Deposit(w)) \/ Payout \/ Edit
    BY <1>2, MoveKeeps DEF Deposit, Payout, Edit
  <1>3. ASSUME NEW s \in Scanners, Step(s) \/ Fail(s) PROVE IInv'
    BY <1>3, StartKeeps, LoadKeeps, SumKeeps, LookKeeps, RecordKeeps, FailKeeps DEF Step
  <1>4. ASSUME NEW o \in Operators, LoadException(o) \/ ResolveException(o) PROVE IInv'
    BY <1>4, OperatorKeeps
  <1> QED BY <1>1, <1>2, <1>3, <1>4 DEF Next

(* The invariant holds in every state.                                     *)
THEOREM IInvAlways == Spec => []IInv
  BY InitIInv, NextIInv, PTL DEF Spec

(* Overlapping runs and operators never leave two open exceptions for one  *)
(* discrepancy.                                                            *)
THEOREM OneOpenCorrect == Spec => []OneOpenException
  <1>1. IInv => OneOpenException
    BY DEF IInv
  <1> QED BY <1>1, IInvAlways, PTL

(* What a scan says of books that stood still while it ran is true.        *)
THEOREM VerdictsCorrect == Spec => VerdictsAreTrue
  <1> DEFINE True == \A s \in Scanners, k \in Checks :
         s \notin disturbed /\ pc[s] = "saving" /\ pc'[s] # "saving" /\ open'[k] # open[k] =>
             (open'[k] > open[k] <=> Mismatched(k))
  <1>1. IInv /\ [Next]_vars => [True]_vars
    <2> SUFFICES ASSUME IInv, Next, NEW s \in Scanners, NEW k \in Checks, s \notin disturbed,
                        pc[s] = "saving", pc'[s] # "saving", open'[k] # open[k]
                 PROVE  open'[k] > open[k] <=> Mismatched(k)
      OBVIOUS
    <2> ScanOK /\ PlaceInv /\ RowInv /\ FreshInv
      BY DEF IInv
    <2>1. ASSUME NEW x \in Scanners, Step(x) \/ Fail(x) PROVE x = s
      <3>1. x # s => pc'[s] = pc[s]
        BY <2>1, RecordMovesRows DEF Step, Fail, Start, LoadWallet, Sum, Look, Continue, Goto, ScanOK
      <3> QED BY <3>1
    <2>2. Record(s)
      <3>1. ~ Fail(s)
        BY DEF Fail, LetGo
      <3>2. Step(s)
        BY <2>1, <3>1 DEF Next, Deposit, Payout, Edit, MayMove, scan, LoadException, ResolveException
      <3> QED BY <3>2 DEF Step, Start, LoadWallet, Sum, Look, Goto
    <2>3. check[s] \in Checks /\ (inSync[s] <=> ~ Mismatched(check[s]))
      BY DEF PlaceInv, FreshInv, Fresh, Checks, ScanOK
    <2>4. CASE OpenException(s)
      <3>1. open' = [open EXCEPT ![check[s]] = @ + 1] /\ k = check[s]
        BY <2>3, <2>4 DEF OpenException, ScanOK
      <3> QED BY <2>3, <2>4, <3>1 DEF OpenException, ScanOK
    <2>5. CASE AutoResolve(s)
      <3>1. open' = [open EXCEPT ![check[s]] = @ - 1] /\ k = check[s]
        BY <2>3, <2>5 DEF AutoResolve, ResolveRow, LetGo, ScanOK
      <3> QED BY <2>3, <2>5, <3>1 DEF AutoResolve, ScanOK
    <2> QED BY <2>2, <2>4, <2>5 DEF Record, InSync, Refresh, LetGo
  <1> QED BY <1>1, IInvAlways, PTL DEF VerdictsAreTrue, Spec
=============================================================================
