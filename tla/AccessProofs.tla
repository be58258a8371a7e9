---------------------------- MODULE AccessProofs ----------------------------
(***************************************************************************)
(* Theorems about the components that decide who may do what, for any      *)
(* number of admins, requests, calls, customers and partners.  The parts   *)
(* are independent of each other: corrections and their approval, signing  *)
(* in, customers' files, partners, operator accounts, registration.        *)
(***************************************************************************)
EXTENDS Access, Sums

-----------------------------------------------------------------------------
(***************************************************************************)
(* Corrections and their approval.                                         *)
(***************************************************************************)

(* A call that was let past its checks stays entitled to act: its request  *)
(* was made by somebody else, or corrections may be made directly.         *)
Entitled(c) ==
    /\ order[c].kind \in {"approve", "reject"} =>
         status[Request(c)] # "none" /\ maker[Request(c)] # Admin(c)
    /\ order[c].kind = "adjust" => ~ makerChecker

Applying == {"applying", "opening", "open", "applied", "failed"}
Deciding == {"rejecting", "done"}

CallInv ==
    \A c \in Calls :
        /\ pc[c] \in Applying \cup Deciding => Entitled(c)
        /\ pc[c] \in Applying => order[c].kind # "reject"
        /\ pc[c] \in Deciding => order[c].kind # "adjust"

RequestInv ==
    \A r \in Requests : status[r] # "none" => maker[r] \in Makers /\ payload[r] \in Payloads

(* An open transaction that has not been overtaken has read the balance it *)
(* will write over, and the balance covers it.                             *)
SnapshotInv ==
    \A c \in Calls : pc[c] = "open" /\ c \notin overtaken =>
        view[c] = balance[Correction(c).wallet] /\ Covered(c)

(* A correction that counts as applied is on file.                         *)
AppliedInv ==
    \A c \in Calls : pc[c] = "applied" =>
        \E a \in adjustments : a.reference = Correction(c).reference

(* What is on file was written by a call entitled to it, as it was asked.  *)
AsAsked(a) ==
    /\ order[a.by].kind # "reject" /\ Entitled(a.by)
    /\ a.reference = Correction(a.by).reference /\ a.wallet = Correction(a.by).wallet
    /\ a.direction = Correction(a.by).direction /\ a.amount = Correction(a.by).amount

FiledInv == \A a \in adjustments : AsAsked(a)

(* An approved request's reference has a correction on file.               *)
ApprovedOnFile ==
    \A r \in Requests :
        status[r] = "approved" => \E a \in adjustments : a.reference = payload[r].reference

ApprovalInv == /\ TypeOK /\ CallInv /\ RequestInv /\ SnapshotInv /\ AppliedInv /\ FiledInv
        /\ OncePerReference /\ ApprovedOnFile

-----------------------------------------------------------------------------
LEMMA OrderType ==
    ASSUME TypeOK, NEW c \in Calls
    PROVE  /\ order[c].kind \in {"approve", "reject", "adjust"}
           /\ order[c].kind \in {"approve", "reject"} => Request(c) \in Requests /\ Admin(c) \in Checkers
           /\ order[c].kind = "adjust" => order[c].payload \in Payloads
  <1>1. order[c] \in Orders
    BY DEF TypeOK
  <1>2. QED
    BY <1>1 DEF Orders, Request, Admin

LEMMA CorrectionType ==
    ASSUME TypeOK, RequestInv, NEW c \in Calls, Entitled(c)
    PROVE  Correction(c) \in Payloads
  BY OrderType DEF Correction, RequestInv, Entitled

LEMMA PayloadType ==
    ASSUME NEW p \in Payloads
    PROVE  /\ p.reference \in References /\ p.wallet \in Wallets
           /\ p.direction \in {"credit", "debit"} /\ p.amount \in Amounts /\ p.amount \in Nat \ {0}
           /\ p = [reference |-> p.reference, wallet |-> p.wallet,
                   direction |-> p.direction, amount |-> p.amount]
  BY CorrectionsArePositive DEF Payloads

(* What each kind of step leaves alone.                                    *)
LEMMA DecideFrame ==
    ASSUME TypeOK, NEW c \in Calls, Decide(c)
    PROVE  /\ UNCHANGED <<makerChecker, order, view, overtaken, maker, payload, books>>
           /\ pc' = [pc EXCEPT ![c] = pc'[c]]
           /\ status' \in [Requests -> {"none", "pending", "approved", "rejected"}]
           /\ \A r \in Requests : status[r] # "none" => status'[r] # "none"
  BY DEF Decide, Approve, Reject, SaveRejected, SaveFailed, SaveApproved, SaveDecision, Goto,
         OnlyMoves, asked, TypeOK

LEMMA ApplyFrame ==
    ASSUME TypeOK, NEW c \in Calls, Apply(c) \/ Die(c)
    PROVE  /\ UNCHANGED <<makerChecker, order, asked>>
           /\ pc' = [pc EXCEPT ![c] = pc'[c]]
  BY DEF Apply, Adjust, LookUp, Begin, NotCovered, Commit, FindDuplicate, Abort, Die, Close, Goto,
         OnlyMoves, asked, TypeOK

LEMMA CreateFrame ==
    ASSUME TypeOK, NEW r \in Requests, NEW a \in Makers, NEW p \in Payloads, CreateRequest(r, a, p)
    PROVE  /\ UNCHANGED <<makerChecker, order, pc, view, overtaken, books>>
           /\ status[r] = "none" /\ status' = [status EXCEPT ![r] = "pending"]
           /\ maker' = [maker EXCEPT ![r] = a] /\ payload' = [payload EXCEPT ![r] = p]
  BY DEF CreateRequest

(* Requests are never withdrawn, and what they ask for does not change.    *)
LEMMA AskedStays ==
    ASSUME TypeOK, [Next]_vars
    PROVE  /\ UNCHANGED <<makerChecker, order>>
           /\ \A r \in Requests : status[r] # "none" =>
                status'[r] # "none" /\ maker'[r] = maker[r] /\ payload'[r] = payload[r]
  <1>1. ASSUME NEW c \in Calls, Decide(c)
        PROVE  /\ UNCHANGED <<makerChecker, order>>
               /\ \A r \in Requests : status[r] # "none" =>
                    status'[r] # "none" /\ maker'[r] = maker[r] /\ payload'[r] = payload[r]
    BY <1>1, DecideFrame
  <1>2. ASSUME NEW c \in Calls, Apply(c) \/ Die(c)
        PROVE  UNCHANGED <<makerChecker, order, asked>>
    BY <1>2, ApplyFrame
  <1>3. ASSUME NEW r \in Requests, NEW a \in Makers, NEW p \in Payloads, CreateRequest(r, a, p)
        PROVE  /\ UNCHANGED <<makerChecker, order>>
               /\ \A s \in Requests : status[s] # "none" =>
                    status'[s] # "none" /\ maker'[s] = maker[s] /\ payload'[s] = payload[s]
    BY <1>3, CreateFrame DEF TypeOK
  <1>4. QED
    BY <1>1, <1>2, <1>3 DEF Next, vars, asked

LEMMA EntitledStays ==
    ASSUME TypeOK, RequestInv, [Next]_vars, NEW c \in Calls, Entitled(c)
    PROVE  /\ Entitled(c)' /\ Correction(c)' = Correction(c)
  <1>1. /\ UNCHANGED <<makerChecker, order>>
        /\ \A r \in Requests : status[r] # "none" =>
             status'[r] # "none" /\ maker'[r] = maker[r] /\ payload'[r] = payload[r]
    BY AskedStays
  <1>2. Request(c)' = Request(c) /\ Admin(c)' = Admin(c)
    BY <1>1 DEF Request, Admin
  <1>3. order[c].kind \in {"approve", "reject"} =>
            Request(c) \in Requests /\ status[Request(c)] # "none"
    BY OrderType DEF Entitled
  <1>4. Entitled(c)'
    BY <1>1, <1>2, <1>3 DEF Entitled
  <1>5. Correction(c)' = Correction(c)
    BY <1>1, <1>2, <1>3, OrderType DEF Correction
  <1>6. QED
    BY <1>4, <1>5

LEMMA InitOK == Init => ApprovalInv
  <1> SUFFICES ASSUME Init PROVE ApprovalInv
    OBVIOUS
  <1>1. TypeOK
    BY CorrectionsArePositive DEF Init, TypeOK
  <1>2. CallInv /\ RequestInv /\ SnapshotInv /\ AppliedInv /\ FiledInv
    BY DEF Init, CallInv, RequestInv, SnapshotInv, AppliedInv, FiledInv, Applying, Deciding
  <1>3. OncePerReference /\ ApprovedOnFile
    BY DEF Init, OncePerReference, ApprovedOnFile
  <1>4. QED
    BY <1>1, <1>2, <1>3 DEF ApprovalInv

-----------------------------------------------------------------------------
(* The commit of a correction.                                             *)

LEMMA CommitFacts ==
    ASSUME ApprovalInv, NEW c \in Calls, Commit(c)
    PROVE  /\ pc[c] = "open" /\ pc'[c] = "applied" /\ Entitled(c) /\ order[c].kind # "reject"
           /\ Correction(c) \in Payloads
           /\ balance[Correction(c).wallet] + Signed(Correction(c)) \in Nat
           /\ balance' = [balance EXCEPT ![Correction(c).wallet] =
                            balance[Correction(c).wallet] + Signed(Correction(c))]
  <1>1. pc[c] = "open" /\ pc'[c] = "applied" /\ c \notin overtaken
    BY DEF Commit, Goto, Serializable, ApprovalInv, TypeOK
  <1>2. Entitled(c) /\ order[c].kind # "reject"
    BY <1>1 DEF ApprovalInv, CallInv, Applying
  <1>3. Correction(c) \in Payloads
    BY <1>2, CorrectionType DEF ApprovalInv
  <1>4. view[c] = balance[Correction(c).wallet] /\ Covered(c)
    BY <1>1 DEF ApprovalInv, SnapshotInv
  <1>5. balance[Correction(c).wallet] \in Nat
    BY <1>3, PayloadType DEF ApprovalInv, TypeOK
  <1>6. balance[Correction(c).wallet] + Signed(Correction(c)) \in Nat
    BY <1>3, <1>4, <1>5, PayloadType DEF Covered, Signed
  <1>7. QED
    BY <1>1, <1>2, <1>3, <1>4, <1>6 DEF Commit

LEMMA CommitType ==
    ASSUME ApprovalInv, NEW c \in Calls, Commit(c)
    PROVE  TypeOK'
  <1>1. balance' \in [Wallets -> Nat]
    BY CommitFacts, PayloadType DEF ApprovalInv, TypeOK
  <1>2. adjustments' \subseteq [by: Calls, reference: References, wallet: Wallets,
                                direction: {"credit", "debit"}, amount: Amounts]
    <2>1. [by |-> c, reference |-> Correction(c).reference, wallet |-> Correction(c).wallet,
           direction |-> Correction(c).direction, amount |-> Correction(c).amount]
            \in [by: Calls, reference: References, wallet: Wallets,
                direction: {"credit", "debit"}, amount: Amounts]
      BY CommitFacts, PayloadType
    <2>2. QED
      BY <2>1 DEF ApprovalInv, TypeOK, Commit
  <1>3. pc' \in [Calls -> {"received", "rejecting", "applying", "opening", "open",
                           "applied", "failed", "done", "refused", "died"}]
    BY DEF ApprovalInv, TypeOK, Commit, Goto
  <1>4. view' \in [Calls -> Nat] /\ overtaken' \subseteq Calls
    BY DEF ApprovalInv, TypeOK, Commit, Close
  <1>5. UNCHANGED <<makerChecker, order, asked>>
    BY DEF Commit, Close
  <1>6. QED
    BY <1>1, <1>2, <1>3, <1>4, <1>5 DEF ApprovalInv, TypeOK, asked

LEMMA CommitSnapshots ==
    ASSUME ApprovalInv, NEW c \in Calls, Commit(c)
    PROVE  SnapshotInv'
  <1> SUFFICES ASSUME NEW d \in Calls, pc'[d] = "open", d \notin overtaken'
               PROVE  view'[d] = balance'[Correction(d)'.wallet] /\ Covered(d)'
    BY DEF SnapshotInv
  <1>1. d # c /\ pc[d] = "open" /\ view'[d] = view[d]
    BY CommitFacts DEF ApprovalInv, TypeOK, Commit, Goto, Close
  <1>2. Entitled(d) /\ Correction(d)' = Correction(d)
    <2>1. Entitled(d)
      BY <1>1 DEF ApprovalInv, CallInv, Applying
    <2>2. Correction(d)' = Correction(d)
      BY DEF Commit, Close, asked, Correction, Request
    <2>3. QED
      BY <2>1, <2>2
  <1>3. d \notin overtaken /\ Correction(d).wallet # Correction(c).wallet
    BY <1>1 DEF Commit
  <1>4. view[d] = balance[Correction(d).wallet] /\ Covered(d)
    BY <1>1, <1>3 DEF ApprovalInv, SnapshotInv
  <1>5. Correction(d).wallet \in Wallets
    BY <1>2, CorrectionType, PayloadType DEF ApprovalInv
  <1>6. balance'[Correction(d).wallet] = balance[Correction(d).wallet]
    BY <1>3, <1>5, CommitFacts, PayloadType DEF ApprovalInv, TypeOK
  <1>7. QED
    BY <1>1, <1>2, <1>4, <1>6 DEF Covered

LEMMA CommitFiles ==
    ASSUME ApprovalInv, NEW c \in Calls, Commit(c)
    PROVE  AppliedInv' /\ FiledInv' /\ OncePerReference' /\ ApprovedOnFile'
  <1> DEFINE new == [by |-> c, reference |-> Correction(c).reference,
                     wallet |-> Correction(c).wallet,
                     direction |-> Correction(c).direction, amount |-> Correction(c).amount]
  <1>1. /\ adjustments' = adjustments \cup {new}
        /\ UNCHANGED <<makerChecker, order, asked>>
        /\ \A d \in Calls : d # c => pc'[d] = pc[d]
    BY DEF Commit, Close, Goto, ApprovalInv, TypeOK
  <1>2. \A d \in Calls : Correction(d)' = Correction(d) /\ (Entitled(d) => Entitled(d)')
    BY <1>1 DEF Correction, Request, Admin, Entitled, asked
  <1>3. AppliedInv'
    <2> SUFFICES ASSUME NEW d \in Calls, pc'[d] = "applied"
                 PROVE  \E a \in adjustments' : a.reference = Correction(d)'.reference
      BY DEF AppliedInv
    <2>1. CASE d = c
      <3>1. new \in adjustments' /\ new.reference = Correction(d)'.reference
        BY <1>1, <1>2, <2>1
      <3>2. QED
        BY <3>1
    <2>2. CASE d # c
      BY <1>1, <1>2, <2>2 DEF ApprovalInv, AppliedInv
    <2>3. QED
      BY <2>1, <2>2
  <1>4. FiledInv'
    <2> SUFFICES ASSUME NEW a \in adjustments' PROVE AsAsked(a)'
      BY DEF FiledInv
    <2>1. a.by \in Calls
      BY <1>1 DEF ApprovalInv, TypeOK
    <2>2. AsAsked(a)
      BY <1>1, CommitFacts DEF ApprovalInv, FiledInv, AsAsked
    <2>3. QED
      BY <1>1, <1>2, <2>1, <2>2 DEF AsAsked
  <1>5. OncePerReference'
    BY <1>1 DEF ApprovalInv, OncePerReference, Commit, ReferenceFree, Taken
  <1>6. ApprovedOnFile'
    BY <1>1 DEF ApprovalInv, ApprovedOnFile, asked
  <1>7. QED
    BY <1>3, <1>4, <1>5, <1>6

LEMMA CommitCalls ==
    ASSUME ApprovalInv, NEW c \in Calls, Commit(c)
    PROVE  CallInv' /\ RequestInv'
  <1>1. /\ UNCHANGED <<makerChecker, order, asked>>
        /\ \A d \in Calls : d # c => pc'[d] = pc[d]
    BY DEF Commit, Close, Goto, ApprovalInv, TypeOK
  <1>2. RequestInv'
    BY <1>1 DEF ApprovalInv, RequestInv, asked
  <1>3. CallInv'
    BY <1>1, CommitFacts DEF ApprovalInv, CallInv, Entitled, Request, Admin, asked, Deciding
  <1>4. QED
    BY <1>2, <1>3

LEMMA CommitOK ==
    ASSUME ApprovalInv, NEW c \in Calls, Commit(c)
    PROVE  ApprovalInv'
  BY CommitType, CommitSnapshots, CommitFiles, CommitCalls DEF ApprovalInv

-----------------------------------------------------------------------------
(* The other steps of a call that touch no books: the checks, the look-up, *)
(* the begin, and every way a transaction ends without writing.            *)

Quiet(c) == Adjust(c) \/ LookUp(c) \/ Begin(c) \/ NotCovered(c)
              \/ FindDuplicate(c) \/ Abort(c) \/ Die(c) \/ Approve(c) \/ Reject(c)

LEMMA QuietFrame ==
    ASSUME TypeOK, NEW c \in Calls, Quiet(c)
    PROVE  /\ UNCHANGED <<makerChecker, order, asked, books>>
           /\ \A d \in Calls : d # c => pc'[d] = pc[d] /\ view'[d] = view[d]
                                        /\ (d \notin overtaken' => d \notin overtaken)
           /\ pc' \in [Calls -> {"received", "rejecting", "applying", "opening", "open",
                                 "applied", "failed", "done", "refused", "died"}]
  BY DEF Quiet, Adjust, LookUp, Begin, NotCovered, FindDuplicate, Abort, AfterError, Die, Approve,
         Reject, Close, Goto, OnlyMoves, TypeOK

LEMMA QuietType ==
    ASSUME ApprovalInv, NEW c \in Calls, Quiet(c)
    PROVE  TypeOK'
  <1>1. view' \in [Calls -> Nat]
    <2>1. CASE Begin(c)
      <3>1. Entitled(c)
        BY <2>1 DEF Begin, Goto, ApprovalInv, CallInv, Applying
      <3>2. balance[Correction(c).wallet] \in Nat
        BY <3>1, CorrectionType, PayloadType DEF ApprovalInv, TypeOK
      <3>3. QED
        BY <2>1, <3>2 DEF Begin, ApprovalInv, TypeOK
    <2>2. CASE FindDuplicate(c) \/ Abort(c) \/ Die(c)
      BY <2>2 DEF FindDuplicate, Abort, Die, Close, ApprovalInv, TypeOK
    <2>3. CASE Adjust(c) \/ LookUp(c) \/ NotCovered(c) \/ Approve(c) \/ Reject(c)
      BY <2>3 DEF Adjust, LookUp, NotCovered, Approve, Reject, OnlyMoves, ApprovalInv, TypeOK
    <2>4. QED
      BY <2>1, <2>2, <2>3 DEF Quiet
  <1>2. overtaken' \subseteq Calls
    BY DEF Quiet, Adjust, LookUp, Begin, NotCovered, FindDuplicate, Abort, Die, Approve, Reject,
           OnlyMoves, ApprovalInv, TypeOK
  <1>3. QED
    BY <1>1, <1>2, QuietFrame DEF ApprovalInv, TypeOK, asked, books

LEMMA QuietCalls ==
    ASSUME ApprovalInv, NEW c \in Calls, Quiet(c)
    PROVE  CallInv' /\ \A d \in Calls : Correction(d)' = Correction(d) /\ Entitled(d)' = Entitled(d)
  <1>1. /\ UNCHANGED <<makerChecker, order, asked, books>>
        /\ \A d \in Calls : d # c => pc'[d] = pc[d]
    BY QuietFrame DEF ApprovalInv
  <1>2. \A d \in Calls : Correction(d)' = Correction(d) /\ Entitled(d)' = Entitled(d)
    BY <1>1 DEF Correction, Request, Admin, Entitled, asked
  <1>3. /\ pc'[c] \in Applying \cup Deciding => Entitled(c)
        /\ pc'[c] \in Applying => order[c].kind # "reject"
        /\ pc'[c] \in Deciding => order[c].kind # "adjust"
    <2>1. CASE Approve(c) \/ Reject(c)
      BY <2>1, OrderType DEF Approve, Reject, MayDecide, Goto, Entitled, Applying, Deciding,
                             ApprovalInv, TypeOK
    <2>2. CASE Adjust(c)
      BY <2>2 DEF Adjust, Goto, Entitled, Applying, Deciding, ApprovalInv, TypeOK
    <2>3. CASE LookUp(c) \/ Begin(c) \/ NotCovered(c) \/ FindDuplicate(c) \/ Abort(c)
      BY <2>3 DEF LookUp, Begin, NotCovered, FindDuplicate, Abort, AfterError, Goto,
                  Applying, Deciding, ApprovalInv, TypeOK, CallInv
    <2>4. CASE Die(c)
      BY <2>4 DEF Die, Applying, Deciding, ApprovalInv, TypeOK
    <2>5. QED
      BY <2>1, <2>2, <2>3, <2>4 DEF Quiet
  <1>4. CallInv'
    BY <1>1, <1>2, <1>3 DEF ApprovalInv, CallInv
  <1>5. QED
    BY <1>2, <1>4

LEMMA QuietOK ==
    ASSUME ApprovalInv, NEW c \in Calls, Quiet(c)
    PROVE  ApprovalInv'
  <1>1. /\ UNCHANGED <<makerChecker, order, asked, books>>
        /\ \A d \in Calls : d # c => pc'[d] = pc[d] /\ view'[d] = view[d]
                                     /\ (d \notin overtaken' => d \notin overtaken)
    BY QuietFrame DEF ApprovalInv
  <1>2. \A d \in Calls : Correction(d)' = Correction(d) /\ Entitled(d)' = Entitled(d)
    BY QuietCalls
  <1>3. SnapshotInv'
    <2> SUFFICES ASSUME NEW d \in Calls, pc'[d] = "open", d \notin overtaken'
                 PROVE  view'[d] = balance[Correction(d).wallet] /\ Covered(d)
      BY <1>1, <1>2 DEF SnapshotInv, Covered, books
    <2>1. CASE d # c
      BY <1>1, <2>1 DEF ApprovalInv, SnapshotInv
    <2>2. CASE d = c
      <3>1. Begin(c)
        BY <2>2 DEF Quiet, Adjust, LookUp, NotCovered, FindDuplicate, Abort, AfterError, Die,
                    Approve, Reject, Goto, ApprovalInv, TypeOK
      <3>2. QED
        BY <2>2, <3>1 DEF Begin, ApprovalInv, TypeOK
    <2>3. QED
      BY <2>1, <2>2
  <1>4. AppliedInv'
    <2> SUFFICES ASSUME NEW d \in Calls, pc'[d] = "applied"
                 PROVE  \E a \in adjustments : a.reference = Correction(d).reference
      BY <1>1, <1>2 DEF AppliedInv, books
    <2>1. CASE d # c
      BY <1>1, <2>1 DEF ApprovalInv, AppliedInv
    <2>2. CASE d = c
      <3>1. (LookUp(c) /\ Taken(c)) \/ FindDuplicate(c)
        BY <2>2 DEF Quiet, Adjust, LookUp, Begin, NotCovered, Abort, AfterError, Die,
                    Approve, Reject, Goto, ApprovalInv, TypeOK
      <3>2. QED
        BY <2>2, <3>1 DEF FindDuplicate, ReferenceFree, Taken
    <2>3. QED
      BY <2>1, <2>2
  <1>5. FiledInv'
    <2> SUFFICES ASSUME NEW a \in adjustments PROVE AsAsked(a)'
      BY <1>1 DEF FiledInv, books
    <2>1. a.by \in Calls /\ AsAsked(a)
      BY DEF ApprovalInv, TypeOK, FiledInv
    <2>2. QED
      BY <1>1, <1>2, <2>1 DEF AsAsked
  <1>6. RequestInv' /\ OncePerReference' /\ ApprovedOnFile'
    BY <1>1 DEF ApprovalInv, RequestInv, OncePerReference, ApprovedOnFile, asked, books
  <1>7. QED
    BY <1>3, <1>4, <1>5, <1>6, QuietType, QuietCalls DEF ApprovalInv

-----------------------------------------------------------------------------
(* The decisions that are saved, and new requests.                         *)

Saves(c) == SaveRejected(c) \/ SaveFailed(c) \/ SaveApproved(c)

LEMMA SaveFacts ==
    ASSUME ApprovalInv, NEW c \in Calls, Saves(c)
    PROVE  /\ Entitled(c) /\ order[c].kind \in {"approve", "reject"} /\ Request(c) \in Requests
           /\ pc[c] = "applied" \/ status'[Request(c)] = "rejected"
           /\ pc'[c] \in {"done", "refused"} /\ \A d \in Calls : d # c => pc'[d] = pc[d]
           /\ \A r \in Requests : r # Request(c) => status'[r] = status[r]
  <1>1. pc[c] \in {"rejecting", "failed", "applied"}
        /\ (pc[c] # "rejecting" => order[c].kind = "approve")
    BY DEF Saves, SaveRejected, SaveFailed, SaveApproved, Goto
  <1>2. Entitled(c) /\ order[c].kind \in {"approve", "reject"}
    BY <1>1, OrderType DEF ApprovalInv, CallInv, Applying, Deciding
  <1>3. Request(c) \in Requests
    BY <1>2, OrderType DEF ApprovalInv
  <1>4. QED
    BY <1>1, <1>2, <1>3 DEF Saves, SaveRejected, SaveFailed, SaveApproved, SaveDecision, Goto,
                            ApprovalInv, TypeOK

LEMMA SaveOK ==
    ASSUME ApprovalInv, NEW c \in Calls, Saves(c)
    PROVE  ApprovalInv'
  <1>1. /\ UNCHANGED <<makerChecker, order, view, overtaken, maker, payload, books>>
        /\ status' \in [Requests -> {"none", "pending", "approved", "rejected"}]
        /\ pc' = [pc EXCEPT ![c] = pc'[c]]
    BY DecideFrame DEF ApprovalInv, Saves, Decide
  <1>2. /\ Entitled(c) /\ order[c].kind \in {"approve", "reject"} /\ Request(c) \in Requests
        /\ pc[c] = "applied" \/ status'[Request(c)] = "rejected"
        /\ pc'[c] \in {"done", "refused"} /\ \A d \in Calls : d # c => pc'[d] = pc[d]
        /\ \A r \in Requests : r # Request(c) => status'[r] = status[r]
    BY SaveFacts
  <1>3. \A d \in Calls : Correction(d)' = Correction(d)
    BY <1>1 DEF Correction, Request
  <1>4. \A d \in Calls : Entitled(d) => Entitled(d)'
    <2> SUFFICES ASSUME NEW d \in Calls, Entitled(d) PROVE Entitled(d)'
      OBVIOUS
    <2>1. \A r \in Requests : status[r] # "none" => status'[r] # "none"
      BY DecideFrame DEF ApprovalInv, Saves, Decide
    <2>2. order[d].kind \in {"approve", "reject"} => Request(d) \in Requests
      BY OrderType DEF ApprovalInv
    <2>3. QED
      BY <1>1, <2>1, <2>2 DEF Entitled, Request, Admin
  <1>5. TypeOK'
    BY <1>1, <1>2 DEF ApprovalInv, TypeOK, books
  <1>6. CallInv'
    BY <1>1, <1>2, <1>4 DEF ApprovalInv, CallInv, Applying, Deciding
  <1>7. RequestInv'
    BY <1>1, <1>2 DEF ApprovalInv, RequestInv, Entitled
  <1>8. SnapshotInv'
    BY <1>1, <1>2, <1>3 DEF ApprovalInv, SnapshotInv, Covered, books
  <1>9. AppliedInv'
    BY <1>1, <1>2, <1>3 DEF ApprovalInv, AppliedInv, books
  <1>10. FiledInv'
    <2> SUFFICES ASSUME NEW a \in adjustments PROVE AsAsked(a)'
      BY <1>1 DEF FiledInv, books
    <2>1. a.by \in Calls /\ AsAsked(a)
      BY DEF ApprovalInv, TypeOK, FiledInv
    <2>2. QED
      BY <1>1, <1>3, <1>4, <2>1 DEF AsAsked
  <1>11. OncePerReference' /\ ApprovedOnFile'
    <2> SUFFICES ASSUME NEW r \in Requests, status'[r] = "approved"
                 PROVE  \E a \in adjustments : a.reference = payload[r].reference
      BY <1>1 DEF ApprovalInv, OncePerReference, ApprovedOnFile, books
    <2>1. CASE r = Request(c)
      <3>1. pc[c] = "applied" /\ Correction(c) = payload[r]
        BY <1>2, <2>1 DEF Correction
      <3>2. QED
        BY <3>1 DEF ApprovalInv, AppliedInv
    <2>2. CASE r # Request(c)
      BY <1>2, <2>2 DEF ApprovalInv, ApprovedOnFile
    <2>3. QED
      BY <2>1, <2>2
  <1>12. QED
    BY <1>5, <1>6, <1>7, <1>8, <1>9, <1>10, <1>11 DEF ApprovalInv

LEMMA CreateOK ==
    ASSUME ApprovalInv, NEW r \in Requests, NEW a \in Makers, NEW p \in Payloads, CreateRequest(r, a, p)
    PROVE  ApprovalInv'
  <1>1. /\ UNCHANGED <<makerChecker, order, pc, view, overtaken, books>>
        /\ status[r] = "none" /\ status' = [status EXCEPT ![r] = "pending"]
        /\ maker' = [maker EXCEPT ![r] = a] /\ payload' = [payload EXCEPT ![r] = p]
    BY CreateFrame DEF ApprovalInv
  <1>2. \A d \in Calls : Entitled(d) => Entitled(d)' /\ Correction(d)' = Correction(d)
    BY EntitledStays DEF ApprovalInv, Next
  <1>3. TypeOK'
    BY <1>1 DEF ApprovalInv, TypeOK, books
  <1>4. CallInv'
    BY <1>1, <1>2 DEF ApprovalInv, CallInv
  <1>5. RequestInv'
    BY <1>1 DEF ApprovalInv, RequestInv, TypeOK
  <1>6. SnapshotInv' /\ AppliedInv'
    <2>1. \A d \in Calls : pc[d] \in {"open", "applied"} => Entitled(d)
      BY DEF ApprovalInv, CallInv, Applying
    <2>2. QED
      BY <1>1, <1>2, <2>1 DEF ApprovalInv, SnapshotInv, AppliedInv, Covered, books
  <1>7. FiledInv'
    <2> SUFFICES ASSUME NEW b \in adjustments PROVE AsAsked(b)'
      BY <1>1 DEF FiledInv, books
    <2>1. b.by \in Calls /\ AsAsked(b)
      BY DEF ApprovalInv, TypeOK, FiledInv
    <2>2. QED
      BY <1>1, <1>2, <2>1 DEF AsAsked
  <1>8. OncePerReference' /\ ApprovedOnFile'
    BY <1>1 DEF ApprovalInv, OncePerReference, ApprovedOnFile, TypeOK, books
  <1>9. QED
    BY <1>3, <1>4, <1>5, <1>6, <1>7, <1>8 DEF ApprovalInv

-----------------------------------------------------------------------------
LEMMA NextOK == ApprovalInv /\ [Next]_vars => ApprovalInv'
  <1> SUFFICES ASSUME ApprovalInv, [Next]_vars PROVE ApprovalInv'
    OBVIOUS
  <1>1. ASSUME NEW c \in Calls, Decide(c) \/ Apply(c) \/ Die(c) PROVE ApprovalInv'
    <2>1. Commit(c) \/ Quiet(c) \/ Saves(c)
      BY <1>1 DEF Decide, Apply, Quiet, Saves
    <2>2. QED
      BY <2>1, CommitOK, QuietOK, SaveOK
  <1>2. ASSUME NEW r \in Requests, NEW a \in Makers, NEW p \in Payloads, CreateRequest(r, a, p)
        PROVE  ApprovalInv'
    BY <1>2, CreateOK
  <1>3. ASSUME UNCHANGED vars PROVE ApprovalInv'
    BY <1>3 DEF ApprovalInv, TypeOK, CallInv, RequestInv, SnapshotInv, AppliedInv, FiledInv, AsAsked,
                OncePerReference, ApprovedOnFile, Entitled, Correction, Covered, Request, Admin,
                vars, asked, books
  <1>4. QED
    BY <1>1, <1>2, <1>3 DEF Next

THEOREM ApprovalAlways == Spec => []ApprovalInv
  BY InitOK, NextOK, PTL DEF Spec

(* For any number of calls no variable leaves its type; in particular no   *)
(* correction overdraws a wallet, however corrections of it overlap.       *)
THEOREM TypeCorrect == Spec => []TypeOK
  <1>1. ApprovalInv => TypeOK
    BY DEF ApprovalInv
  <1>2. QED
    BY <1>1, ApprovalAlways, PTL

(* A reference moves money once, whoever asks for it and how often.        *)
THEOREM OnceCorrect == Spec => []OncePerReference
  <1>1. ApprovalInv => OncePerReference
    BY DEF ApprovalInv
  <1>2. QED
    BY <1>1, ApprovalAlways, PTL

(* "approved" is never said of a request whose reference has no correction *)
(* on file, nor of one whose own approval filed other contents than it     *)
(* asks for: either what was asked for has been applied, or the reference  *)
(* had been used by another request or a direct adjustment.                *)
THEOREM ApprovedCorrect == Spec => []ApprovedIsApplied
  <1>1. ApprovalInv => ApprovedIsApplied
    <2> SUFFICES ASSUME ApprovalInv, NEW r \in Requests, status[r] = "approved"
                 PROVE  \E a \in adjustments :
                            /\ a.reference = payload[r].reference
                            /\ AsRequested(a, r) \/ ~ Approves(a.by, r)
      BY DEF ApprovedIsApplied
    <2>1. PICK a \in adjustments : a.reference = payload[r].reference
      BY DEF ApprovalInv, ApprovedOnFile
    <2>2. a.by \in Calls /\ AsAsked(a)
      BY DEF ApprovalInv, TypeOK, FiledInv
    <2>3. payload[r] \in Payloads
      BY DEF ApprovalInv, RequestInv
    <2>4. ASSUME Approves(a.by, r) PROVE AsRequested(a, r)
      <3>1. Correction(a.by) = payload[r]
        BY <2>4 DEF Approves, Correction
      <3>2. QED
        BY <2>2, <2>3, <3>1, PayloadType DEF AsAsked, AsRequested
    <2>5. QED
      BY <2>1, <2>4
  <1>2. QED
    BY <1>1, ApprovalAlways, PTL

(* With maker-checker required every correction was asked for by one admin *)
(* and applied by another, as it was asked.                                *)
THEOREM TwoAdminsCorrect == Spec => []TakesTwoAdmins
  <1>1. ApprovalInv => TakesTwoAdmins
    <2> SUFFICES ASSUME ApprovalInv, makerChecker, NEW a \in adjustments
                 PROVE  \E r \in Requests :
                            /\ Approves(a.by, r) /\ AsRequested(a, r)
                            /\ maker[r] \in Admins \ {Admin(a.by)}
      BY DEF TakesTwoAdmins
    <2>1. a.by \in Calls /\ AsAsked(a)
      BY DEF ApprovalInv, TypeOK, FiledInv
    <2>2. order[a.by].kind = "approve" /\ Request(a.by) \in Requests
      BY <2>1, OrderType DEF ApprovalInv, AsAsked, Entitled
    <2>3. maker[Request(a.by)] \in Makers /\ maker[Request(a.by)] # Admin(a.by)
          /\ payload[Request(a.by)] \in Payloads
      BY <2>1, <2>2 DEF ApprovalInv, RequestInv, AsAsked, Entitled
    <2>4. Correction(a.by) = payload[Request(a.by)]
      BY <2>2 DEF Correction
    <2>5. payload[Request(a.by)] = [reference |-> a.reference, wallet |-> a.wallet,
                                    direction |-> a.direction, amount |-> a.amount]
      BY <2>1, <2>3, <2>4, PayloadType DEF AsAsked
    <2>6. QED
      BY <2>2, <2>3, <2>5 DEF Admins, Approves, AsRequested
  <1>2. QED
    BY <1>1, ApprovalAlways, PTL
-----------------------------------------------------------------------------
(* The books.                                                              *)

(* The corrections on file can be added up, and a wallet holds their sum.  *)
BooksInv == IsFiniteSet(adjustments) /\ BalancesMatchLedger

LEMMA NetGrows ==
    ASSUME NEW A, IsFiniteSet(A), NEW e, e \notin A,
           \A a \in A \cup {e} : Signed(a) \in Int
    PROVE  Net(A) \in Int /\ Net(A \cup {e}) = Net(A) + Signed(e)
  <1> DEFINE f == [a \in A |-> Signed(a)]
             g == [a \in A \cup {e} |-> Signed(a)]
  <1>1. g[e] \in Int /\ g[e] = Signed(e)
    OBVIOUS
  <1>2. \A a \in A : f[a] \in Int /\ g[a] = f[a]
    OBVIOUS
  <1>3. Net(A) = SumFunctionOnSet(f, A) /\ Net(A \cup {e}) = SumFunctionOnSet(g, A \cup {e})
    BY DEF Net
  <1> HIDE DEF f, g
  <1>4. SumFunctionOnSet(f, A) \in Int
        /\ SumFunctionOnSet(g, A \cup {e}) = SumFunctionOnSet(f, A) + g[e]
    BY ONLY IsFiniteSet(A), e \notin A, <1>1, <1>2, SumGrows
  <1> QED BY <1>1, <1>3, <1>4

LEMMA BooksInit == ASSUME Init PROVE BooksInv
  <1>1. IsFiniteSet(adjustments)
    BY FS_EmptySet DEF Init
  <1>2. ASSUME NEW w \in Wallets PROVE balance[w] = OPENING + Net(Corrections(w))
    <2>1. Corrections(w) = {}
      BY DEF Init, Corrections
    <2>2. Net(Corrections(w)) = 0
      BY <2>1, SumEmpty DEF Net
    <2>3. balance[w] = OPENING /\ OPENING \in Nat
      BY CorrectionsArePositive DEF Init
    <2> QED BY <2>2, <2>3
  <1> QED BY <1>1, <1>2 DEF BooksInv, BalancesMatchLedger

(* A commit files one correction and moves its wallet by as much.          *)
LEMMA CommitBooks ==
    ASSUME ApprovalInv, BooksInv, NEW c \in Calls, Commit(c)
    PROVE  BooksInv'
  <1> DEFINE new == [by |-> c, reference |-> Correction(c).reference,
                     wallet |-> Correction(c).wallet,
                     direction |-> Correction(c).direction, amount |-> Correction(c).amount]
  <1>1. adjustments' = adjustments \cup {new} /\ new \notin adjustments
    BY DEF Commit, ReferenceFree, Taken
  <1>2. /\ new.wallet \in Wallets /\ Signed(new) \in Int
        /\ balance' = [balance EXCEPT ![new.wallet] = balance[new.wallet] + Signed(new)]
    BY CommitFacts, PayloadType DEF Signed
  <1>3. ASSUME NEW a \in adjustments PROVE Signed(a) \in Int
    <2>1. a.amount \in Amounts
      BY DEF ApprovalInv, TypeOK
    <2>2. a.amount \in Nat
      BY <2>1, CorrectionsArePositive
    <2> QED BY <2>2 DEF Signed
  <1> HIDE DEF new
  <1>4. IsFiniteSet(adjustments')
    BY <1>1, FS_AddElement DEF BooksInv
  <1>5. ASSUME NEW w \in Wallets PROVE balance'[w] = OPENING + Net(Corrections(w)')
    <2>1. balance[w] = OPENING + Net(Corrections(w)) /\ OPENING \in Nat /\ balance[w] \in Nat
      BY CorrectionsArePositive DEF BooksInv, BalancesMatchLedger, ApprovalInv, TypeOK
    <2>2. CASE w # new.wallet
      <3>1. Corrections(w)' = Corrections(w) /\ balance'[w] = balance[w]
        BY <1>1, <1>2, <2>2 DEF Corrections, ApprovalInv, TypeOK
      <3> QED BY <2>1, <3>1
    <2>3. CASE w = new.wallet
      <3>1. Corrections(w)' = Corrections(w) \cup {new} /\ new \notin Corrections(w)
        BY <1>1, <2>3 DEF Corrections
      <3>2. IsFiniteSet(Corrections(w))
        BY FS_Subset DEF BooksInv, Corrections
      <3>3. \A a \in Corrections(w) \cup {new} : Signed(a) \in Int
        BY <1>2, <1>3 DEF Corrections
      <3>4. Net(Corrections(w)) \in Int
            /\ Net(Corrections(w) \cup {new}) = Net(Corrections(w)) + Signed(new)
        BY <3>1, <3>2, <3>3, NetGrows
      <3>5. balance'[w] = balance[w] + Signed(new)
        BY <1>2, <2>3 DEF ApprovalInv, TypeOK
      <3> QED BY <1>2, <2>1, <3>1, <3>4, <3>5
    <2> QED BY <2>2, <2>3
  <1>6. BalancesMatchLedger'
    BY <1>5 DEF BalancesMatchLedger
  <1> QED BY <1>4, <1>6 DEF BooksInv

LEMMA BooksNext ==
    ASSUME ApprovalInv, BooksInv, [Next]_vars
    PROVE  BooksInv'
  <1>1. ASSUME UNCHANGED books PROVE BooksInv'
    BY <1>1 DEF BooksInv, BalancesMatchLedger, Corrections, books
  <1>2. ASSUME NEW c \in Calls, Decide(c) \/ Apply(c) \/ Die(c) PROVE BooksInv'
    <2>1. CASE Commit(c)
      BY <2>1, CommitBooks
    <2>2. CASE Quiet(c)
      BY <1>1, <2>2, QuietFrame DEF ApprovalInv
    <2>3. CASE Saves(c)
      BY <1>1, <2>3, DecideFrame DEF ApprovalInv, Saves, Decide
    <2> QED BY <1>2, <2>1, <2>2, <2>3 DEF Decide, Apply, Quiet, Saves
  <1>3. ASSUME NEW r \in Requests, NEW a \in Makers, NEW p \in Payloads, CreateRequest(r, a, p)
        PROVE  BooksInv'
    BY <1>1, <1>3, CreateFrame DEF ApprovalInv
  <1> QED BY <1>1, <1>2, <1>3 DEF Next, vars

(* However corrections of a wallet overlap, its balance is what those on   *)
(* file add up to.                                                         *)
THEOREM BooksCorrect == Spec => []BalancesMatchLedger
  <1>1. Init => BooksInv
    BY BooksInit
  <1>2. ApprovalInv /\ BooksInv /\ [Next]_vars => BooksInv'
    BY BooksNext
  <1>3. BooksInv => BalancesMatchLedger
    BY DEF BooksInv
  <1> QED BY <1>1, <1>2, <1>3, ApprovalAlways, PTL DEF Spec

-----------------------------------------------------------------------------
(***************************************************************************)
(* Signing in.                                                             *)
(***************************************************************************)

(* What a request may rely on at the place it has reached: what it checked *)
(* in its first read, and what cannot be undone since.                     *)
CallOK(c) ==
    LET r == call[c] IN
        /\ r.at = "idle" <=> r.kind = "none"
        /\ r.kind = "reset" => r.pin \in Pins
        /\ r.at = "checking" => r.saw.lock # "ahead"
        /\ r.kind = "login" /\ r.at \notin {"checking", "locking", "refused"} => KnewThePin(c)
        /\ r.kind = "login" /\ r.at = "opening" => ~ r.saw.mfaEnabled
        /\ r.at \in {"delivering", "undelivered", "verifying"} => r.row \in DOMAIN otps
        /\ r.at \in {"delivering", "undelivered"} => r.kind \in {"login", "forgot", "enable"}
        /\ r.at = "verifying" => r.kind \in {"mfaVerify", "enableVerify", "reset"}
        /\ r.at = "verifying" => r.tries < MAX_ATTEMPTS
        /\ r.at = "verifying" /\ r.kind = "mfaVerify" => otps[r.row].purpose = "login"
        /\ r.at \in {"opening", "done"} /\ r.kind = "mfaVerify" =>
             r.row \in DOMAIN otps /\ otps[r.row].purpose = "login" /\ otps[r.row].consumed
        /\ r.at \in {"rotating", "succeeding"} => r.row \in DOMAIN tokens
        /\ r.at = "succeeding" => ~ Active(r.row)

SignInCallInv == \A c \in SignInCalls : CallOK(c)

(* A code that completes a login was sent by one that had the right PIN.   *)
CodeInv ==
    \A row \in DOMAIN otps :
        otps[row].purpose = "login" => otps[row].by = Held \/ KnewThePin(otps[row].by)

(* A token's parent is an earlier row.                                     *)
ParentInv == \A t \in DOMAIN tokens : tokens[t].parent # 0 => tokens[t].parent \in DOMAIN tokens

(* A session by somebody who has got as far as opening one.                *)
Earned(c, parent) ==
    \/ c = Held
    \/ KnewThePin(c) /\ ~ call[c].saw.mfaEnabled
    \/ /\ call[c].kind = "mfaVerify"
       /\ call[c].row \in DOMAIN otps
       /\ otps[call[c].row].consumed /\ otps[call[c].row].purpose = "login"
    \/ call[c].kind = "refresh" /\ parent = call[c].row

SessionInv == \A t \in DOMAIN tokens : Earned(tokens[t].by, tokens[t].parent)

SignInInv == SignInTypeOK /\ SignInCallInv /\ CodeInv /\ ParentInv /\ SessionInv /\ OldTokenDies /\ AttemptsAreCounted

(* Rows are added and never taken away; what a code was sent for and that  *)
(* it has been used, where a token came from and that it is revoked, stay. *)
OtpsKept ==
    /\ DOMAIN otps \subseteq DOMAIN otps'
    /\ \A row \in DOMAIN otps :
         /\ otps'[row].purpose = otps[row].purpose
         /\ otps'[row].by = otps[row].by
         /\ otps[row].consumed => otps'[row].consumed

TokensKept ==
    /\ DOMAIN tokens \subseteq DOMAIN tokens'
    /\ \A t \in DOMAIN tokens :
         /\ tokens'[t].by = tokens[t].by
         /\ tokens'[t].parent = tokens[t].parent
         /\ ~ Active(t) => ~ Active(t)'

(* What a request is stays what it is.                                     *)
CallsKept ==
    \A c \in SignInCalls : call[c].at # "idle" =>
        /\ call'[c].kind = call[c].kind
        /\ call'[c].pin = call[c].pin
        /\ call'[c].saw = call[c].saw
        /\ call[c].kind \in {"mfaVerify", "refresh"} => call'[c].row = call[c].row

Kept == OtpsKept /\ TokensKept /\ CallsKept

-----------------------------------------------------------------------------
(* Types.                                                                  *)

SignInRequests == [kind: Kinds \cup {"none"}, at: Places, pin: Pins \cup {NoPin},
             right: BOOLEAN, row: Nat, saw: Users \cup {Unread}, tries: 0 .. MAX_ATTEMPTS]

(* A row set or added keeps a table of rows of its kind.                   *)
LEMMA SetRow ==
    ASSUME NEW S, NEW s \in Seq(S), NEW i \in DOMAIN s, NEW x \in S
    PROVE  /\ [s EXCEPT ![i] = x] \in Seq(S)
           /\ DOMAIN [s EXCEPT ![i] = x] = DOMAIN s
  OBVIOUS

LEMMA AddRow ==
    ASSUME NEW S, NEW s \in Seq(S), NEW x \in S
    PROVE  /\ Append(s, x) \in Seq(S)
           /\ Len(Append(s, x)) = Len(s) + 1
           /\ DOMAIN Append(s, x) = DOMAIN s \cup {Len(s) + 1}
           /\ \A i \in DOMAIN s : Append(s, x)[i] = s[i]
           /\ Append(s, x)[Len(s) + 1] = x
  OBVIOUS

LEMMA BlankTyped == Blank \in SignInRequests
  BY LimitsArePositive DEF Blank, SignInRequests, Kinds, Places, Unread

LEMMA SignInInitOK == ASSUME SignInInit PROVE SignInInv
  <1>1. SignInTypeOK
    <2>1. user \in Users /\ guesses \in Nat
      BY LimitsArePositive DEF SignInInit, StartUsers, Users
    <2>2. otps \in Seq(Otps)
      <3>1. CASE otps = << >>
        BY <3>1
      <3>2. ASSUME NEW p \in Purposes,
                   otps = <<[purpose |-> p, by |-> Held, attempts |-> 0, consumed |-> FALSE,
                             expired |-> FALSE, deleted |-> FALSE]>>
            PROVE  otps \in Seq(Otps)
        BY <3>2, LimitsArePositive DEF Otps
      <3> QED BY <3>1, <3>2 DEF SignInInit
    <2>3. tokens \in Seq(Tokens)
      BY DEF SignInInit, Tokens, Reasons
    <2> QED BY <2>1, <2>2, <2>3, BlankTyped DEF SignInTypeOK, SignInInit, SignInRequests
  <1>2. SignInCallInv
    BY DEF SignInCallInv, CallOK, SignInInit, Blank
  <1>3. tokens = <<[by |-> Held, parent |-> 0, revoked |-> "no"]>> /\ DOMAIN tokens = {1}
    BY DEF SignInInit
  <1>4. \A row \in DOMAIN otps : otps[row].by = Held
    BY DEF SignInInit
  <1>5. CodeInv /\ ParentInv /\ SessionInv /\ OldTokenDies
    BY <1>3, <1>4 DEF CodeInv, ParentInv, SessionInv, OldTokenDies, Earned
  <1>6. AttemptsAreCounted
    BY LimitsArePositive DEF AttemptsAreCounted, SignInInit, StartUsers
  <1> QED BY <1>1, <1>2, <1>5, <1>6 DEF SignInInv

LEMMA Typed ==
    ASSUME SignInTypeOK
    PROVE  /\ call \in [SignInCalls -> SignInRequests]
           /\ \A row \in DOMAIN otps : otps[row] \in Otps
           /\ \A t \in DOMAIN tokens : tokens[t] \in Tokens
           /\ DOMAIN otps = 1 .. Len(otps) /\ Len(otps) \in Nat
           /\ DOMAIN tokens = 1 .. Len(tokens) /\ Len(tokens) \in Nat
  BY DEF SignInTypeOK, SignInRequests

(* A first read, of whatever kind.                                         *)
LEMMA ReceiveTypes ==
    ASSUME SignInTypeOK, NEW c \in SignInCalls, NEW given \in SignInRequests, NEW place \in Places,
           Receive(c, given, place), OnlyCalls
    PROVE  SignInTypeOK'
  <1>1. [given EXCEPT !.at = place] \in SignInRequests
    BY DEF SignInRequests
  <1>2. call' \in [SignInCalls -> SignInRequests]
    BY <1>1, Typed DEF Receive
  <1> QED BY <1>2 DEF OnlyCalls, SignInTypeOK, SignInRequests

LEMMA ArriveTypes ==
    ASSUME SignInTypeOK, NEW c \in SignInCalls, Arrive(c)
    PROVE  SignInTypeOK'
  <1> USE Typed, BlankTyped
  <1>3. ASSUME NEW kind, NEW pin \in Pins, ReceivePin(c, kind, pin) PROVE SignInTypeOK'
    <2>1. [Blank EXCEPT !.kind = kind, !.pin = pin, !.saw = user] \in SignInRequests
      BY <1>3 DEF ReceivePin, SignInRequests, Kinds, SignInTypeOK
    <2>2. (IF user.lock = "ahead" THEN "refused" ELSE "checking") \in Places
      BY DEF Places
    <2> QED BY <2>1, <2>2, <1>3, ReceiveTypes DEF ReceivePin
  <1>4. ASSUME NEW kind, ReceiveCodeRequest(c, kind) PROVE SignInTypeOK'
    <2>1. [Blank EXCEPT !.kind = kind] \in SignInRequests
      BY <1>4 DEF ReceiveCodeRequest, SignInRequests, Kinds
    <2>2. (IF kind = "enable" /\ user.mfaEnabled THEN "refused" ELSE "sending") \in Places
      BY DEF Places
    <2> QED BY <2>1, <2>2, <1>4, ReceiveTypes DEF ReceiveCodeRequest
  <1>5. ASSUME NEW kind, NEW row \in DOMAIN otps, NEW right \in BOOLEAN, ReceiveCode(c, kind, row, right)
        PROVE  SignInTypeOK'
    <2>1. row \in Nat /\ otps[row].attempts \in 0 .. MAX_ATTEMPTS
      BY DEF Otps
    <2>2. [Blank EXCEPT !.kind = kind, !.right = right, !.row = row, !.tries = otps[row].attempts]
            \in SignInRequests
      BY <2>1, <1>5 DEF ReceiveCode, SignInRequests, Kinds
    <2>3. "verifying" \in Places /\ "refused" \in Places
      BY DEF Places
    <2> QED BY <2>2, <2>3, <1>5, ReceiveTypes DEF ReceiveCode
  <1>6. ASSUME NEW pin \in Pins, NEW right \in BOOLEAN, ReceiveReset(c, pin, right) PROVE SignInTypeOK'
    <2>1. PICK row \in ForReset :
            Receive(c, [Blank EXCEPT !.kind = "reset", !.pin = pin, !.right = right, !.row = row,
                                     !.tries = otps[row].attempts],
                    IF TriesLeft(otps[row]) THEN "verifying" ELSE "refused")
      BY <1>6 DEF ReceiveReset
    <2>2. row \in Nat /\ otps[row].attempts \in 0 .. MAX_ATTEMPTS
      BY DEF ForReset, Otps
    <2>3. [Blank EXCEPT !.kind = "reset", !.pin = pin, !.right = right, !.row = row,
                        !.tries = otps[row].attempts] \in SignInRequests
      BY <2>2 DEF SignInRequests, Kinds
    <2>4. (IF TriesLeft(otps[row]) THEN "verifying" ELSE "refused") \in Places
      BY DEF Places
    <2> QED BY <2>1, <2>3, <2>4, <1>6, ReceiveTypes DEF ReceiveReset
  <1>7. ASSUME NEW pin \in Pins, ReceiveDisable(c, pin) PROVE SignInTypeOK'
    <2>1. [Blank EXCEPT !.kind = "disable", !.pin = pin] \in SignInRequests
      BY DEF SignInRequests, Kinds
    <2>2. (IF pin = user.pin THEN "disabling" ELSE "refused") \in Places
      BY DEF Places
    <2> QED BY <2>1, <2>2, <1>7, ReceiveTypes DEF ReceiveDisable
  <1>8. ASSUME NEW t \in DOMAIN tokens, NEW kind, ReceiveToken(c, kind, t) PROVE SignInTypeOK'
    <2> t \in Nat
      OBVIOUS
    <2>1. [Blank EXCEPT !.kind = kind, !.row = t] \in SignInRequests
      BY <1>8 DEF ReceiveToken, SignInRequests, Kinds
    <2>2. (IF Active(t) THEN "rotating" ELSE "refused") \in Places
      BY DEF Places
    <2> QED BY <2>1, <2>2, <1>8, ReceiveTypes DEF ReceiveToken
  <1>9. ASSUME NEW t \in DOMAIN tokens, Logout(c, t) PROVE SignInTypeOK'
    <2> t \in Nat
      OBVIOUS
    <2>4. [[Blank EXCEPT !.kind = "logout", !.row = t] EXCEPT !.at = "done"] \in SignInRequests
      BY DEF SignInRequests, Kinds, Places
    <2>1. call' \in [SignInCalls -> SignInRequests]
      BY <2>4, <1>9 DEF Logout, Receive
    <2>2. [tokens[t] EXCEPT !.revoked = "user_logout"] \in Tokens
      BY DEF Tokens, Reasons
    <2>3. [tokens EXCEPT ![t].revoked = "user_logout"] \in Seq(Tokens)
      BY <2>2, SetRow DEF SignInTypeOK
    <2> QED BY <2>1, <2>3, <1>9 DEF Logout, SignInTypeOK, SignInRequests
  <1>10. ASSUME RevokeAllSessions(c) PROVE SignInTypeOK'
    <2>1. call' \in [SignInCalls -> SignInRequests]
      BY <1>10 DEF RevokeAllSessions, Receive, SignInRequests, Kinds, Places
    <2>2. AllRevoked \in Seq(Tokens)
      BY DEF AllRevoked, Tokens, Reasons
    <2> QED BY <2>1, <2>2, <1>10 DEF RevokeAllSessions, SignInTypeOK, SignInRequests
  <1> QED BY <1>3, <1>4, <1>5, <1>6, <1>7, <1>8, <1>9, <1>10 DEF Arrive

LEMMA ProceedTypes ==
    ASSUME SignInTypeOK, SignInCallInv, NEW c \in SignInCalls, Proceed(c)
    PROVE  SignInTypeOK'
  <1> USE Typed
  <1>1. ASSUME NEW place \in Places, MoveTo(c, place) PROVE call' \in [SignInCalls -> SignInRequests]
    BY <1>1 DEF MoveTo, SignInRequests
  <1>2. ASSUME call' \in [SignInCalls -> SignInRequests], user' \in Users, otps' \in Seq(Otps),
               tokens' \in Seq(Tokens), guesses' \in Nat
        PROVE  SignInTypeOK'
    BY <1>2 DEF SignInTypeOK, SignInRequests
  <1> user \in Users /\ otps \in Seq(Otps) /\ tokens \in Seq(Tokens) /\ guesses \in Nat
    BY DEF SignInTypeOK
  <1>3. CASE PinMatches(c)
    <2>1. AfterPin(c) \in Places
      BY DEF AfterPin, Places
    <2>2. [user EXCEPT !.failed = 0, !.lock = "no"] \in Users
      BY DEF Users
    <2> QED BY <1>3, <2>1, <2>2, <1>1, <1>2 DEF PinMatches
  <1>4. CASE PinWrong(c)
    <2>1. [user EXCEPT !.failed = Incremented(c)] \in Users
      BY DEF Users, Incremented
    <2>2. (IF Incremented(c) >= MAX_PIN_ATTEMPTS THEN "locking" ELSE "refused") \in Places
      BY DEF Places
    <2> QED BY <1>4, <2>1, <2>2, <1>1, <1>2 DEF PinWrong
  <1>5. CASE Lock(c)
    <2>1. [user EXCEPT !.failed = 0, !.lock = "ahead"] \in Users
      BY DEF Users
    <2>2. "refused" \in Places
      BY DEF Places
    <2> QED BY <1>5, <2>1, <2>2, <1>1, <1>2 DEF Lock
  <1>6. CASE GenerateOtp(c)
    <2>1. PurposeOf(call[c].kind) \in Purposes
      BY DEF PurposeOf, Purposes
    <2>2. [purpose |-> PurposeOf(call[c].kind), by |-> c, attempts |-> 0,
           consumed |-> FALSE, expired |-> FALSE, deleted |-> FALSE] \in Otps
      BY <2>1, LimitsArePositive DEF Otps
    <2>3. otps' \in Seq(Otps) /\ Len(otps') \in Nat
      BY <2>2, <1>6, AddRow DEF GenerateOtp
    <2>4. [call[c] EXCEPT !.at = "delivering", !.row = Len(otps')] \in SignInRequests
      BY <2>3 DEF SignInRequests, Places
    <2>5. call' \in [SignInCalls -> SignInRequests]
      BY <2>4, <1>6 DEF GenerateOtp
    <2> QED BY <1>6, <2>3, <2>5, <1>2 DEF GenerateOtp
  <1>7. CASE Deliver(c)
    <2>1. PICK place \in {"done", "undelivered"} : MoveTo(c, place)
      BY <1>7 DEF Deliver
    <2>2. place \in Places
      BY DEF Places
    <2> QED BY <1>7, <2>1, <2>2, <1>1, <1>2 DEF Deliver, OnlyCalls
  <1>8. CASE DeleteUndelivered(c)
    <2>1. call[c].row \in DOMAIN otps
      BY <1>8 DEF DeleteUndelivered, SignInCallInv, CallOK
    <2>2. [otps[call[c].row] EXCEPT !.deleted = TRUE] \in Otps
      BY <2>1 DEF Otps
    <2>3. [otps EXCEPT ![call[c].row].deleted = TRUE] \in Seq(Otps)
      BY <2>1, <2>2, SetRow
    <2>4. "refused" \in Places
      BY DEF Places
    <2> QED BY <1>8, <2>3, <2>4, <1>1, <1>2 DEF DeleteUndelivered
  <1>9. ASSUME NEW row \in Otps, NEW place \in Places, SaveOtp(c, row, place) PROVE SignInTypeOK'
    <2>1. call[c].row \in DOMAIN otps
      BY <1>9 DEF SaveOtp, SignInCallInv, CallOK
    <2>2. [otps EXCEPT ![call[c].row] = row] \in Seq(Otps)
      BY <2>1, SetRow
    <2>3. "refused" \in Places
      BY DEF Places
    <2> QED BY <1>9, <2>2, <2>3, <1>1, <1>2 DEF SaveOtp
  <1>10. CASE CodeWrong(c)
    <2>1. call[c].row \in DOMAIN otps /\ call[c].tries < MAX_ATTEMPTS
      BY <1>10 DEF CodeWrong, SaveOtp, SignInCallInv, CallOK
    <2>2. call[c].tries \in Nat
      BY DEF SignInRequests
    <2>3. call[c].tries + 1 \in 0 .. MAX_ATTEMPTS
      BY <2>1, <2>2, LimitsArePositive
    <2>4. [otps[call[c].row] EXCEPT !.attempts = call[c].tries + 1] \in Otps
      BY <2>1, <2>3 DEF Otps
    <2>5. "refused" \in Places
      BY DEF Places
    <2> QED BY <2>4, <2>5, <1>9, <1>10 DEF CodeWrong
  <1>11. CASE Consume(c)
    <2>1. call[c].row \in DOMAIN otps
      BY <1>11 DEF Consume, SaveOtp, SignInCallInv, CallOK
    <2>2. [otps[call[c].row] EXCEPT !.consumed = TRUE] \in Otps
      BY <2>1 DEF Otps
    <2>3. AfterCode(c) \in Places
      BY DEF AfterCode, Places
    <2> QED BY <2>2, <2>3, <1>9, <1>11 DEF Consume
  <1>12. CASE SavePin(c)
    <2>1. call[c].pin \in Pins
      BY <1>12 DEF SavePin, At, SignInCallInv, CallOK
    <2>2. [user EXCEPT !.pin = call[c].pin, !.failed = 0, !.lock = "no"] \in Users
      BY <2>1 DEF Users
    <2>3. "revoking" \in Places
      BY DEF Places
    <2> QED BY <1>12, <2>2, <2>3, <1>1, <1>2 DEF SavePin
  <1>13. CASE EnableMfa(c) \/ DisableMfa(c)
    <2>1. [user EXCEPT !.mfaEnabled = TRUE] \in Users /\ [user EXCEPT !.mfaEnabled = FALSE] \in Users
      BY DEF Users
    <2>2. "done" \in Places
      BY DEF Places
    <2> QED BY <1>13, <2>1, <2>2, <1>1, <1>2 DEF EnableMfa, DisableMfa
  <1>14. CASE IssueTokenPair(c) \/ CreateSuccessor(c)
    <2>1. [by |-> c, parent |-> 0, revoked |-> "no"] \in Tokens
      BY DEF Tokens
    <2>2. [by |-> c, parent |-> call[c].row, revoked |-> "no"] \in Tokens
      BY DEF Tokens, SignInRequests
    <2>3. tokens' \in Seq(Tokens)
      <3>1. CASE IssueTokenPair(c)
        BY <2>1, <3>1, AddRow DEF IssueTokenPair
      <3>2. CASE CreateSuccessor(c)
        BY <2>2, <3>2, AddRow DEF CreateSuccessor
      <3> QED BY <3>1, <3>2, <1>14
    <2>4. "done" \in Places
      BY DEF Places
    <2> QED BY <1>14, <2>3, <2>4, <1>1, <1>2 DEF IssueTokenPair, CreateSuccessor
  <1>15. CASE RevokeOld(c) \/ RevokeSession(c)
    <2>1. call[c].row \in DOMAIN tokens
      BY <1>15 DEF RevokeOld, RevokeSession, SignInCallInv, CallOK, At
    <2>2. /\ [tokens[call[c].row] EXCEPT !.revoked = "rotated"] \in Tokens
          /\ [tokens[call[c].row] EXCEPT !.revoked = "user_revoked_session"] \in Tokens
      BY <2>1 DEF Tokens, Reasons
    <2>3. /\ [tokens EXCEPT ![call[c].row].revoked = "rotated"] \in Seq(Tokens)
          /\ [tokens EXCEPT ![call[c].row].revoked = "user_revoked_session"] \in Seq(Tokens)
      BY <2>1, <2>2, SetRow
    <2>4. "done" \in Places /\ "succeeding" \in Places
      BY DEF Places
    <2> QED BY <1>15, <2>3, <2>4, <1>1, <1>2 DEF RevokeOld, GiveUpOld, RevokeSession
  <1>16. CASE RevokeAfterReset(c)
    <2>1. AllRevoked \in Seq(Tokens)
      BY DEF AllRevoked, Tokens, Reasons
    <2>2. "done" \in Places
      BY DEF Places
    <2> QED BY <1>16, <2>1, <2>2, <1>1, <1>2 DEF RevokeAfterReset
  <1> QED
    BY <1>3, <1>4, <1>5, <1>6, <1>7, <1>8, <1>10, <1>11, <1>12, <1>13, <1>14, <1>15, <1>16 DEF Proceed

LEMMA NextTypes ==
    ASSUME SignInTypeOK, SignInCallInv, [SignInNext]_signInVars
    PROVE  SignInTypeOK'
  <1>1. CASE UNCHANGED signInVars
    BY <1>1 DEF signInVars, SignInTypeOK
  <1>2. CASE LockLapses
    <2>1. [user EXCEPT !.lock = "past"] \in Users
      BY DEF SignInTypeOK, Users
    <2> QED BY <1>2, <2>1 DEF LockLapses, SignInTypeOK
  <1>3. ASSUME NEW row \in DOMAIN otps, otps' = [otps EXCEPT ![row].expired = TRUE],
               UNCHANGED <<user, tokens, call, guesses>>
        PROVE  SignInTypeOK'
    <2>1. [otps[row] EXCEPT !.expired = TRUE] \in Otps
      BY Typed DEF Otps
    <2>2. otps' \in Seq(Otps)
      BY <1>3, <2>1, SetRow DEF SignInTypeOK
    <2> QED BY <1>3, <2>2 DEF SignInTypeOK
  <1>4. ASSUME NEW c \in SignInCalls, Arrive(c) \/ Proceed(c) PROVE SignInTypeOK'
    BY <1>4, ArriveTypes, ProceedTypes
  <1> QED BY <1>1, <1>2, <1>3, <1>4 DEF SignInNext, OtpExpires

-----------------------------------------------------------------------------
(* What stays.                                                             *)

LEMMA NextKeeps ==
    ASSUME SignInTypeOK, SignInCallInv, [SignInNext]_signInVars
    PROVE  Kept
  <1> USE Typed
  <1>1. ASSUME UNCHANGED otps PROVE OtpsKept
    BY <1>1 DEF OtpsKept
  <1>2. ASSUME UNCHANGED tokens PROVE TokensKept
    BY <1>2 DEF TokensKept, Active
  <1>3. ASSUME UNCHANGED call PROVE CallsKept
    BY <1>3 DEF CallsKept
  <1>4. ASSUME NEW c \in SignInCalls, NEW given, NEW place, Receive(c, given, place) PROVE CallsKept
    BY <1>4 DEF Receive, CallsKept
  <1>5. ASSUME NEW c \in SignInCalls, NEW place, MoveTo(c, place) PROVE CallsKept
    BY <1>5 DEF MoveTo, CallsKept, SignInRequests
  <1>6. ASSUME tokens' = AllRevoked PROVE TokensKept
    BY <1>6 DEF AllRevoked, TokensKept, Active
  <1>7. ASSUME NEW t \in DOMAIN tokens, NEW why, why # "no", tokens' = [tokens EXCEPT ![t].revoked = why]
        PROVE  TokensKept
    <2>1. DOMAIN tokens' = DOMAIN tokens
      BY <1>7
    <2>2. ASSUME NEW u \in DOMAIN tokens
          PROVE  /\ tokens'[u].by = tokens[u].by /\ tokens'[u].parent = tokens[u].parent
                 /\ ~ Active(u) => ~ Active(u)'
      <3>1. CASE u = t
        BY <1>7, <3>1 DEF Active, Tokens
      <3>2. CASE u # t
        BY <1>7, <3>2 DEF Active
      <3> QED BY <3>1, <3>2
    <2> QED BY <2>1, <2>2 DEF TokensKept
  <1>8. ASSUME NEW x \in Tokens, tokens' = Append(tokens, x) PROVE TokensKept
    BY <1>8, AddRow DEF TokensKept, Active, SignInTypeOK
  <1>9. ASSUME NEW row \in DOMAIN otps, NEW x, otps' = [otps EXCEPT ![row] = x],
               x.purpose = otps[row].purpose, x.by = otps[row].by,
               otps[row].consumed => x.consumed
        PROVE  OtpsKept
    BY <1>9 DEF OtpsKept
  <1>10. ASSUME NEW c \in SignInCalls, Arrive(c) PROVE Kept
    <2>1. UNCHANGED otps
      BY <1>10 DEF Arrive, ReceivePin, ReceiveCodeRequest, ReceiveCode, ReceiveReset, ReceiveDisable,
                   ReceiveToken, Logout, RevokeAllSessions, OnlyCalls
    <2>2. CallsKept
      BY <1>10, <1>4 DEF Arrive, ReceivePin, ReceiveCodeRequest, ReceiveCode, ReceiveReset,
                         ReceiveDisable, ReceiveToken, Logout, RevokeAllSessions
    <2>3. CASE UNCHANGED tokens
      BY <2>1, <2>2, <2>3, <1>1, <1>2 DEF Kept
    <2>4. CASE RevokeAllSessions(c)
      BY <2>1, <2>2, <2>4, <1>1, <1>6 DEF Kept, RevokeAllSessions
    <2>5. ASSUME NEW t \in DOMAIN tokens, Logout(c, t) PROVE Kept
      BY <2>1, <2>2, <2>5, <1>1, <1>2, <1>7 DEF Kept, Logout
    <2>6. \/ UNCHANGED tokens \/ RevokeAllSessions(c)
          \/ \E t \in DOMAIN tokens : Logout(c, t)
      BY <1>10 DEF Arrive, ReceivePin, ReceiveCodeRequest, ReceiveCode, ReceiveReset, ReceiveDisable,
                   ReceiveToken, OnlyCalls
    <2> QED BY <2>3, <2>4, <2>5, <2>6
  <1>11. ASSUME NEW c \in SignInCalls, Proceed(c) PROVE Kept
    <2>1. CASE GenerateOtp(c)
      <3>1. CallsKept
        BY <2>1 DEF GenerateOtp, CallsKept, At, SignInRequests
      <3>2. OtpsKept
        <4> DEFINE x == [purpose |-> PurposeOf(call[c].kind), by |-> c, attempts |-> 0,
                         consumed |-> FALSE, expired |-> FALSE, deleted |-> FALSE]
        <4>1. otps' = Append(otps, x)
          BY <2>1 DEF GenerateOtp
        <4> HIDE DEF x
        <4> QED BY <4>1 DEF OtpsKept
      <3> QED BY <2>1, <3>1, <3>2, <1>2 DEF GenerateOtp, Kept
    <2>2. CASE DeleteUndelivered(c)
      <3>1. call[c].row \in DOMAIN otps
        BY <2>2 DEF DeleteUndelivered, SignInCallInv, CallOK
      <3>2. OtpsKept
        <4> DEFINE x == [otps[call[c].row] EXCEPT !.deleted = TRUE]
        <4>1. otps' = [otps EXCEPT ![call[c].row] = x]
          BY <2>2, <3>1 DEF DeleteUndelivered
        <4>2. x.purpose = otps[call[c].row].purpose /\ x.by = otps[call[c].row].by
              /\ x.consumed = otps[call[c].row].consumed
          BY <3>1 DEF Otps
        <4> HIDE DEF x
        <4> QED BY <4>1, <4>2, <3>1, <1>9
      <3> QED BY <2>2, <3>2, <1>2, <1>5 DEF DeleteUndelivered, Kept
    <2>3. CASE CodeWrong(c) \/ Consume(c)
      <3>1. call[c].row \in DOMAIN otps
        BY <2>3 DEF CodeWrong, Consume, SaveOtp, SignInCallInv, CallOK
      <3>2. CallsKept /\ TokensKept
        BY <2>3, <1>2, <1>5 DEF CodeWrong, Consume, SaveOtp
      <3>3. ASSUME NEW x, otps' = [otps EXCEPT ![call[c].row] = x],
                   \/ x = [otps[call[c].row] EXCEPT !.attempts = call[c].tries + 1]
                   \/ x = [otps[call[c].row] EXCEPT !.consumed = TRUE]
            PROVE  OtpsKept
        <4>1. x.purpose = otps[call[c].row].purpose /\ x.by = otps[call[c].row].by
              /\ (otps[call[c].row].consumed => x.consumed)
          BY <3>1, <3>3 DEF Otps
        <4> QED BY <4>1, <3>1, <3>3, <1>9
      <3>4. OtpsKept
        BY <2>3, <3>3, <1>1 DEF CodeWrong, Consume, SaveOtp
      <3> QED BY <3>2, <3>4 DEF Kept
    <2>4. CASE IssueTokenPair(c) \/ CreateSuccessor(c)
      <3>1. /\ [by |-> c, parent |-> 0, revoked |-> "no"] \in Tokens
            /\ [by |-> c, parent |-> call[c].row, revoked |-> "no"] \in Tokens
        BY DEF Tokens, SignInRequests
      <3> QED BY <2>4, <3>1, <1>1, <1>5, <1>8 DEF IssueTokenPair, CreateSuccessor, Kept
    <2>5. CASE RevokeOld(c) \/ RevokeSession(c)
      <3>1. call[c].row \in DOMAIN tokens
        BY <2>5 DEF RevokeOld, RevokeSession, SignInCallInv, CallOK, At
      <3> QED BY <2>5, <3>1, <1>1, <1>5, <1>7 DEF RevokeOld, GiveUpOld, RevokeSession, Kept
    <2>6. CASE RevokeAfterReset(c)
      BY <2>6, <1>1, <1>5, <1>6 DEF RevokeAfterReset, Kept
    <2>8. CASE PinMatches(c) \/ PinWrong(c) \/ Lock(c)
      BY <2>8, <1>1, <1>2, <1>5 DEF PinMatches, PinWrong, Lock, Kept
    <2>9. CASE Deliver(c) \/ SavePin(c) \/ EnableMfa(c) \/ DisableMfa(c)
      BY <2>9, <1>1, <1>2, <1>5 DEF Deliver, SavePin, EnableMfa, DisableMfa, OnlyCalls, Kept
    <2> QED BY <1>11, <2>1, <2>2, <2>3, <2>4, <2>5, <2>6, <2>8, <2>9 DEF Proceed
  <1>12. CASE UNCHANGED signInVars \/ LockLapses
    BY <1>12, <1>1, <1>2, <1>3 DEF signInVars, LockLapses, Kept
  <1>13. ASSUME NEW row \in DOMAIN otps, otps' = [otps EXCEPT ![row].expired = TRUE],
                UNCHANGED <<user, tokens, call, guesses>>
         PROVE  Kept
    <2> DEFINE x == [otps[row] EXCEPT !.expired = TRUE]
    <2>1. otps' = [otps EXCEPT ![row] = x]
      BY <1>13
    <2>2. x.purpose = otps[row].purpose /\ x.by = otps[row].by /\ x.consumed = otps[row].consumed
      BY DEF Otps
    <2> HIDE DEF x
    <2>3. OtpsKept
      BY <2>1, <2>2, <1>9
    <2> QED BY <2>3, <1>2, <1>3, <1>13 DEF Kept
  <1> QED BY <1>10, <1>11, <1>12, <1>13 DEF SignInNext, OtpExpires

-----------------------------------------------------------------------------
(* What a request relies on stays true.                                    *)

LEMMA Bystander ==
    ASSUME SignInTypeOK, Kept, NEW d \in SignInCalls, CallOK(d), call'[d] = call[d]
    PROVE  CallOK(d)'
  BY DEF CallOK, Kept, OtpsKept, TokensKept, KnewThePin, Matches

LEMMA ArriveOK ==
    ASSUME SignInTypeOK, NEW c \in SignInCalls, Arrive(c)
    PROVE  CallOK(c)'
  <1> USE Typed
  <1>1. ASSUME NEW kind, NEW pin \in Pins, ReceivePin(c, kind, pin) PROVE CallOK(c)'
    <2>1. call'[c] = [[Blank EXCEPT !.kind = kind, !.pin = pin, !.saw = user]
                        EXCEPT !.at = IF user.lock = "ahead" THEN "refused" ELSE "checking"]
      BY <1>1 DEF ReceivePin, Receive
    <2>2. /\ call'[c].kind = kind /\ kind \in {"login", "confirm"} /\ call'[c].saw = user
          /\ call'[c].at = IF user.lock = "ahead" THEN "refused" ELSE "checking"
      BY <2>1, <1>1 DEF Blank, ReceivePin
    <2> QED BY <2>2 DEF CallOK
  <1>2. ASSUME NEW kind, ReceiveCodeRequest(c, kind) PROVE CallOK(c)'
    <2>1. /\ call'[c].kind = kind /\ kind \in {"forgot", "enable"}
          /\ call'[c].at \in {"refused", "sending"}
      BY <1>2 DEF ReceiveCodeRequest, Receive, Blank
    <2> QED BY <2>1 DEF CallOK
  <1>3. ASSUME NEW kind, NEW row \in DOMAIN otps, NEW right, ReceiveCode(c, kind, row, right)
        PROVE  CallOK(c)'
    <2>1. /\ call'[c].kind = kind /\ kind \in {"mfaVerify", "enableVerify"}
          /\ call'[c].row = row /\ call'[c].tries = otps[row].attempts
          /\ call'[c].at \in {"refused", "verifying"}
          /\ call'[c].at = "verifying" => RightPurpose(otps[row], kind) /\ TriesLeft(otps[row])
      BY <1>3 DEF ReceiveCode, Receive, Blank
    <2>2. UNCHANGED otps
      BY <1>3 DEF ReceiveCode, OnlyCalls
    <2>3. otps[row].attempts \in 0 .. MAX_ATTEMPTS
      BY DEF Otps
    <2>4. call'[c].at = "verifying" => call'[c].tries < MAX_ATTEMPTS
      BY <2>1, <2>3 DEF TriesLeft
    <2>5. call'[c].at = "verifying" /\ kind = "mfaVerify" => otps'[row].purpose = "login"
      BY <2>1, <2>2 DEF RightPurpose, PurposeOf
    <2> QED BY <2>1, <2>2, <2>4, <2>5 DEF CallOK
  <1>4. ASSUME NEW pin \in Pins, NEW right, ReceiveReset(c, pin, right) PROVE CallOK(c)'
    <2>1. PICK row \in ForReset :
            Receive(c, [Blank EXCEPT !.kind = "reset", !.pin = pin, !.right = right, !.row = row,
                                     !.tries = otps[row].attempts],
                    IF TriesLeft(otps[row]) THEN "verifying" ELSE "refused")
      BY <1>4 DEF ReceiveReset
    <2>2. /\ call'[c].kind = "reset" /\ call'[c].pin = pin /\ call'[c].row = row
          /\ call'[c].tries = otps[row].attempts /\ call'[c].at \in {"verifying", "refused"}
          /\ call'[c].at = "verifying" => TriesLeft(otps[row])
      BY <2>1 DEF Receive, Blank
    <2>3. UNCHANGED otps /\ row \in DOMAIN otps
      BY <1>4 DEF ReceiveReset, OnlyCalls, ForReset
    <2>4. call'[c].at = "verifying" => call'[c].tries < MAX_ATTEMPTS
      BY <2>2 DEF TriesLeft
    <2> QED BY <2>2, <2>3, <2>4 DEF CallOK
  <1>5. ASSUME NEW pin, ReceiveDisable(c, pin) PROVE CallOK(c)'
    <2>1. call'[c].kind = "disable" /\ call'[c].at \in {"disabling", "refused"}
      BY <1>5 DEF ReceiveDisable, Receive, Blank
    <2> QED BY <2>1 DEF CallOK
  <1>6. ASSUME NEW t \in DOMAIN tokens, NEW kind, ReceiveToken(c, kind, t) PROVE CallOK(c)'
    <2>1. /\ call'[c].kind = kind /\ kind \in {"refresh", "revokeOne"} /\ call'[c].row = t
          /\ call'[c].at \in {"rotating", "refused"}
      BY <1>6 DEF ReceiveToken, Receive, Blank
    <2>2. UNCHANGED tokens
      BY <1>6 DEF ReceiveToken, OnlyCalls
    <2> QED BY <2>1, <2>2 DEF CallOK
  <1>7. ASSUME NEW t, Logout(c, t) PROVE CallOK(c)'
    <2>1. call'[c].kind = "logout" /\ call'[c].at = "done"
      BY <1>7 DEF Logout, Receive, Blank
    <2> QED BY <2>1 DEF CallOK
  <1>8. ASSUME RevokeAllSessions(c) PROVE CallOK(c)'
    <2>1. call'[c].kind = "revokeAll" /\ call'[c].at = "done"
      BY <1>8 DEF RevokeAllSessions, Receive, Blank
    <2> QED BY <2>1 DEF CallOK
  <1> QED BY <1>1, <1>2, <1>3, <1>4, <1>5, <1>6, <1>7, <1>8 DEF Arrive

LEMMA ProceedOK ==
    ASSUME SignInTypeOK, SignInCallInv, Kept, NEW c \in SignInCalls, Proceed(c)
    PROVE  CallOK(c)'
  <1> USE Typed
  <1> CallOK(c)
    BY DEF SignInCallInv
  <1>1. ASSUME NEW place, MoveTo(c, place)
        PROVE  /\ call'[c].at = place /\ call'[c].kind = call[c].kind /\ call'[c].pin = call[c].pin
               /\ call'[c].row = call[c].row /\ call'[c].saw = call[c].saw
               /\ call'[c].tries = call[c].tries
    BY <1>1 DEF MoveTo, SignInRequests
  <1>2. KnewThePin(c) /\ call'[c].kind = call[c].kind /\ call'[c].pin = call[c].pin
          /\ call'[c].saw = call[c].saw => KnewThePin(c)'
    BY DEF KnewThePin, Matches
  <1>3. CASE PinMatches(c)
    <2>1. call[c].kind = "login" => KnewThePin(c)
      BY <1>3 DEF PinMatches, At, KnewThePin, CallOK
    <2>2. /\ call[c].kind \in {"login", "confirm"} /\ MoveTo(c, AfterPin(c))
          /\ AfterPin(c) \in {"done", "sending", "opening"}
          /\ AfterPin(c) = "opening" => ~ call[c].saw.mfaEnabled
      BY <1>3 DEF PinMatches, At, AfterPin
    <2> QED BY <2>1, <2>2, <1>1, <1>2 DEF CallOK
  <1>4. CASE PinWrong(c) \/ Lock(c)
    <2>1. PICK place \in {"locking", "refused"} : MoveTo(c, place)
      BY <1>4 DEF PinWrong, Lock
    <2>2. call[c].kind \in {"login", "confirm"}
      BY <1>4 DEF PinWrong, Lock, At
    <2> QED BY <2>1, <2>2, <1>1 DEF CallOK
  <1>5. CASE GenerateOtp(c)
    <2>1. /\ call'[c].at = "delivering" /\ call'[c].kind = call[c].kind /\ call'[c].pin = call[c].pin
          /\ call'[c].row = Len(otps') /\ call'[c].saw = call[c].saw
          /\ call[c].kind \in {"login", "forgot", "enable"} /\ call[c].at = "sending"
      BY <1>5 DEF GenerateOtp, At, SignInRequests
    <2>2. call'[c].row \in DOMAIN otps'
      <3> DEFINE x == [purpose |-> PurposeOf(call[c].kind), by |-> c, attempts |-> 0,
                       consumed |-> FALSE, expired |-> FALSE, deleted |-> FALSE]
      <3>1. otps' = Append(otps, x)
        BY <1>5 DEF GenerateOtp
      <3> HIDE DEF x
      <3> QED BY <3>1, <2>1
    <2> QED BY <2>1, <2>2, <1>2 DEF CallOK
  <1>6. CASE Deliver(c)
    <2>1. call[c].at = "delivering" /\ \E place \in {"done", "undelivered"} : MoveTo(c, place)
      BY <1>6 DEF Deliver
    <2>2. call[c].row \in DOMAIN otps' /\ call[c].kind # "mfaVerify" /\ call[c].kind # "none"
      BY <2>1, <1>6 DEF CallOK, Deliver, OnlyCalls
    <2> QED BY <2>1, <2>2, <1>1, <1>2 DEF CallOK
  <1>7. CASE DeleteUndelivered(c) \/ CodeWrong(c)
    <2>1. MoveTo(c, "refused") /\ call[c].at # "idle"
      BY <1>7 DEF DeleteUndelivered, CodeWrong, SaveOtp
    <2> QED BY <2>1, <1>1 DEF CallOK
  <1>8. CASE Consume(c)
    <2>1. call[c].at = "verifying" /\ call[c].row \in DOMAIN otps /\ call[c].row \in DOMAIN otps'
      BY <1>8 DEF Consume, SaveOtp, CallOK, Kept, OtpsKept
    <2>2. CASE MoveTo(c, "refused")
      BY <2>1, <2>2, <1>1 DEF CallOK
    <2>3. CASE MoveTo(c, AfterCode(c)) /\ otps' = [otps EXCEPT ![call[c].row] =
                                                  [otps[call[c].row] EXCEPT !.consumed = TRUE]]
      <3>1. otps'[call[c].row].consumed
        BY <2>1, <2>3 DEF Otps
      <3>2. call[c].kind = "mfaVerify" =>
              otps'[call[c].row].purpose = "login" /\ AfterCode(c) = "opening"
        BY <2>1 DEF CallOK, Kept, OtpsKept, AfterCode
      <3>3. AfterCode(c) \in {"opening", "enabling", "saving"} /\ call[c].kind # "login"
            /\ call[c].kind # "none"
        BY <2>1 DEF AfterCode, CallOK
      <3> QED BY <3>1, <3>2, <3>3, <2>1, <2>3, <1>1 DEF CallOK
    <2> QED BY <2>2, <2>3, <1>8 DEF Consume, SaveOtp
  <1>9. CASE SavePin(c) \/ EnableMfa(c) \/ DisableMfa(c)
    <2>1. /\ call[c].kind \in {"reset", "enableVerify", "disable"}
          /\ MoveTo(c, "revoking") \/ MoveTo(c, "done")
      BY <1>9 DEF SavePin, EnableMfa, DisableMfa, At
    <2> QED BY <2>1, <1>1 DEF CallOK
  <1>10. CASE IssueTokenPair(c)
    <2>1. MoveTo(c, "done") /\ UNCHANGED otps /\ call[c].kind \in {"login", "mfaVerify"}
          /\ call[c].at = "opening"
      BY <1>10 DEF IssueTokenPair, At
    <2> QED BY <2>1, <1>1, <1>2 DEF CallOK
  <1>11. CASE RevokeOld(c)
    <2>1. MoveTo(c, "succeeding") /\ call[c].kind = "refresh" /\ call[c].at = "rotating"
          /\ call[c].row \in DOMAIN tokens
      BY <1>11 DEF RevokeOld, GiveUpOld, At, CallOK
    <2>2. tokens' = [tokens EXCEPT ![call[c].row] = [tokens[call[c].row] EXCEPT !.revoked = "rotated"]]
      BY <1>11, <2>1 DEF RevokeOld, GiveUpOld
    <2>3. call[c].row \in DOMAIN tokens' /\ tokens'[call[c].row].revoked = "rotated"
      BY <2>1, <2>2 DEF Tokens
    <2> QED BY <2>1, <2>3, <1>1 DEF CallOK, Active
  <1>12. CASE CreateSuccessor(c) \/ RevokeSession(c) \/ RevokeAfterReset(c)
    <2>1. MoveTo(c, "done") /\ call[c].kind \in {"refresh", "revokeOne", "reset"}
      BY <1>12 DEF CreateSuccessor, RevokeSession, RevokeAfterReset, At
    <2> QED BY <2>1, <1>1 DEF CallOK
  <1> QED
    BY <1>3, <1>4, <1>5, <1>6, <1>7, <1>8, <1>9, <1>10, <1>11, <1>12 DEF Proceed

LEMMA NextCalls ==
    ASSUME SignInTypeOK, SignInCallInv, Kept, [SignInNext]_signInVars
    PROVE  SignInCallInv'
  <1> USE Typed
  <1> SUFFICES ASSUME NEW d \in SignInCalls PROVE CallOK(d)'
    BY DEF SignInCallInv
  <1>1. CallOK(d)
    BY DEF SignInCallInv
  <1>2. CASE call'[d] = call[d]
    BY <1>1, <1>2, Bystander
  <1>3. ASSUME NEW c \in SignInCalls, Arrive(c) \/ Proceed(c) PROVE CallOK(d)'
    <2>1. CASE c = d
      BY <1>3, <2>1, ArriveOK, ProceedOK
    <2>2. CASE c # d
      <3>1. \E x : call' = [call EXCEPT ![c] = x]
        BY <1>3 DEF Arrive, Proceed, ReceivePin, ReceiveCodeRequest, ReceiveCode, ReceiveReset,
          ReceiveDisable, ReceiveToken, Logout, RevokeAllSessions, Receive, MoveTo, PinMatches, PinWrong,
          Lock, GenerateOtp, Deliver, DeleteUndelivered, CodeWrong, Consume, SaveOtp, SavePin, EnableMfa,
          DisableMfa, IssueTokenPair, RevokeOld, GiveUpOld, CreateSuccessor, RevokeSession,
          RevokeAfterReset
      <3> QED BY <3>1, <2>2, <1>2
    <2> QED BY <2>1, <2>2
  <1> QED BY <1>2, <1>3 DEF SignInNext, LockLapses, OtpExpires, signInVars

-----------------------------------------------------------------------------
(* Rows are added by somebody entitled to.                                 *)

Opens(c, parent) ==
    /\ tokens' = Append(tokens, [by |-> c, parent |-> parent, revoked |-> "no"])
    /\ MoveTo(c, "done")
    /\ UNCHANGED otps
    /\ \/ At(c, {"login", "mfaVerify"}, "opening") /\ parent = 0
       \/ At(c, {"refresh"}, "succeeding") /\ parent = call[c].row

LEMMA TokensGrow ==
    ASSUME SignInTypeOK, SignInCallInv, [SignInNext]_signInVars
    PROVE  DOMAIN tokens' = DOMAIN tokens \/ \E c \in SignInCalls, parent \in Nat : Opens(c, parent)
  <1> USE Typed
  <1>1. ASSUME NEW c \in SignInCalls, Arrive(c) PROVE DOMAIN tokens' = DOMAIN tokens
    BY <1>1 DEF Arrive, ReceivePin, ReceiveCodeRequest, ReceiveCode, ReceiveReset, ReceiveDisable,
                ReceiveToken, Logout, RevokeAllSessions, OnlyCalls, AllRevoked
  <1>2. ASSUME NEW c \in SignInCalls, Proceed(c)
        PROVE  DOMAIN tokens' = DOMAIN tokens \/ \E parent \in Nat : Opens(c, parent)
    <2>1. CASE IssueTokenPair(c)
      BY <2>1 DEF IssueTokenPair, Opens
    <2>2. CASE CreateSuccessor(c)
      <3>1. call[c].row \in Nat
        BY DEF SignInRequests
      <3> QED BY <2>2, <3>1 DEF CreateSuccessor, Opens
    <2>3. CASE RevokeOld(c) \/ RevokeSession(c) \/ RevokeAfterReset(c)
      BY <2>3 DEF RevokeOld, GiveUpOld, RevokeSession, RevokeAfterReset, AllRevoked
    <2> QED BY <1>2, <2>1, <2>2, <2>3 DEF Proceed, PinMatches, PinWrong, Lock, GenerateOtp, Deliver,
          DeleteUndelivered, CodeWrong, Consume, SaveOtp, SavePin, EnableMfa, DisableMfa, OnlyCalls
  <1> QED BY <1>1, <1>2 DEF SignInNext, LockLapses, OtpExpires, signInVars

LEMMA NextTokens ==
    ASSUME SignInTypeOK, SignInCallInv, Kept, ParentInv, OldTokenDies, [SignInNext]_signInVars
    PROVE  ParentInv' /\ OldTokenDies'
  <1> USE Typed
  <1>1. ASSUME NEW t \in DOMAIN tokens, tokens'[t].parent # 0
        PROVE  tokens'[t].parent \in DOMAIN tokens' /\ ~ Active(tokens[t].parent)'
    BY <1>1 DEF Kept, TokensKept, ParentInv, OldTokenDies
  <1>2. ASSUME NEW c \in SignInCalls, NEW parent \in Nat, Opens(c, parent), parent # 0
        PROVE  parent \in DOMAIN tokens' /\ ~ Active(parent)'
    <2>1. parent \in DOMAIN tokens /\ ~ Active(parent)
      BY <1>2 DEF Opens, At, SignInCallInv, CallOK
    <2> QED BY <2>1 DEF Kept, TokensKept
  <1>3. ASSUME NEW c \in SignInCalls, NEW parent \in Nat, Opens(c, parent)
        PROVE  /\ DOMAIN tokens' = DOMAIN tokens \cup {Len(tokens) + 1}
               /\ tokens'[Len(tokens) + 1].parent = parent
    <2> DEFINE x == [by |-> c, parent |-> parent, revoked |-> "no"]
    <2>1. tokens' = Append(tokens, x) /\ x.parent = parent /\ x \in Tokens
      BY <1>3 DEF Opens, Tokens
    <2> HIDE DEF x
    <2> QED BY <2>1, AddRow DEF SignInTypeOK
  <1>4. ASSUME NEW t \in DOMAIN tokens', tokens'[t].parent # 0
        PROVE  tokens'[t].parent \in DOMAIN tokens' /\ ~ Active(tokens[t].parent)'
    <2>1. CASE t \in DOMAIN tokens
      BY <1>4, <2>1, <1>1
    <2>2. CASE t \notin DOMAIN tokens
      BY <1>4, <2>2, <1>2, <1>3, TokensGrow
    <2> QED BY <2>1, <2>2
  <1> QED BY <1>4 DEF ParentInv, OldTokenDies

LEMMA EarnedStays ==
    ASSUME SignInTypeOK, SignInCallInv, Kept, NEW c \in SignInCalls \cup {Held}, NEW parent, Earned(c, parent)
    PROVE  Earned(c, parent)'
  <1>1. CASE c = Held
    BY <1>1 DEF Earned
  <1>2. CASE c # Held
    <2>1. c \in SignInCalls /\ call[c].kind \in {"login", "mfaVerify", "refresh"}
      BY <1>2 DEF Earned, KnewThePin
    <2>2. call[c].at # "idle"
      BY <2>1 DEF SignInCallInv, CallOK
    <2>3. /\ call'[c].kind = call[c].kind /\ call'[c].pin = call[c].pin /\ call'[c].saw = call[c].saw
          /\ call[c].kind \in {"mfaVerify", "refresh"} => call'[c].row = call[c].row
      BY <2>1, <2>2 DEF Kept, CallsKept
    <2>4. CASE KnewThePin(c) /\ ~ call[c].saw.mfaEnabled
      BY <2>3, <2>4 DEF Earned, KnewThePin, Matches
    <2>5. CASE /\ call[c].kind = "mfaVerify" /\ call[c].row \in DOMAIN otps
               /\ otps[call[c].row].consumed /\ otps[call[c].row].purpose = "login"
      BY <2>3, <2>5 DEF Earned, Kept, OtpsKept
    <2>6. CASE call[c].kind = "refresh" /\ parent = call[c].row
      BY <2>3, <2>6 DEF Earned
    <2> QED BY <1>2, <2>4, <2>5, <2>6 DEF Earned
  <1> QED BY <1>1, <1>2

LEMMA NextSessions ==
    ASSUME SignInTypeOK, SignInCallInv, Kept, SessionInv, [SignInNext]_signInVars
    PROVE  SessionInv'
  <1> USE Typed
  <1>1. ASSUME NEW t \in DOMAIN tokens PROVE Earned(tokens[t].by, tokens[t].parent)'
    <2>1. tokens[t].by \in SignInCalls \cup {Held}
      BY DEF Tokens
    <2>2. Earned(tokens[t].by, tokens[t].parent)
      BY DEF SessionInv
    <2>3. tokens'[t].by = tokens[t].by /\ tokens'[t].parent = tokens[t].parent
      BY DEF Kept, TokensKept
    <2>4. Earned(tokens[t].by, tokens[t].parent) => Earned(tokens[t].by, tokens[t].parent)'
      <3> SUFFICES ASSUME NEW b \in SignInCalls \cup {Held}, NEW p, b = tokens[t].by, p = tokens[t].parent,
                          Earned(b, p)
                   PROVE  Earned(tokens[t].by, tokens[t].parent)'
        BY <2>1
      <3>1. Earned(b, p)'
        BY EarnedStays
      <3> QED BY <3>1, <2>3 DEF Earned, KnewThePin, Matches
    <2> QED BY <2>2, <2>4
  <1>2. ASSUME NEW c \in SignInCalls, NEW parent \in Nat, Opens(c, parent) PROVE Earned(c, parent)
    <2>1. CASE At(c, {"login", "mfaVerify"}, "opening") /\ parent = 0
      BY <2>1 DEF At, SignInCallInv, CallOK, Earned
    <2>2. CASE At(c, {"refresh"}, "succeeding") /\ parent = call[c].row
      BY <2>2 DEF At, Earned
    <2> QED BY <1>2, <2>1, <2>2 DEF Opens
  <1>3. ASSUME NEW c \in SignInCalls, NEW parent \in Nat, Opens(c, parent)
        PROVE  /\ DOMAIN tokens' = DOMAIN tokens \cup {Len(tokens) + 1}
               /\ tokens'[Len(tokens) + 1].parent = parent
               /\ tokens'[Len(tokens) + 1].by = c
    <2> DEFINE x == [by |-> c, parent |-> parent, revoked |-> "no"]
    <2>1. tokens' = Append(tokens, x) /\ x.parent = parent /\ x.by = c /\ x \in Tokens
      BY <1>3 DEF Opens, Tokens
    <2> HIDE DEF x
    <2> QED BY <2>1, AddRow DEF SignInTypeOK
  <1>4. ASSUME NEW c \in SignInCalls, NEW parent \in Nat, Opens(c, parent) PROVE Earned(c, parent)'
    BY <1>4, <1>2, EarnedStays
  <1>5. ASSUME NEW t \in DOMAIN tokens' PROVE Earned(tokens[t].by, tokens[t].parent)'
    <2>1. CASE t \in DOMAIN tokens
      BY <2>1, <1>1
    <2>2. CASE t \notin DOMAIN tokens
      <3>1. PICK c \in SignInCalls, parent \in Nat : Opens(c, parent)
        BY <1>5, <2>2, TokensGrow
      <3>2. tokens'[t].by = c /\ tokens'[t].parent = parent
        BY <3>1, <2>2, <1>3, <1>5
      <3>3. Earned(c, parent)'
        BY <3>1, <1>4
      <3> QED BY <3>2, <3>3 DEF Earned, KnewThePin, Matches
    <2> QED BY <2>1, <2>2
  <1> QED BY <1>5 DEF SessionInv

LEMMA NextCodes ==
    ASSUME SignInTypeOK, SignInCallInv, Kept, CodeInv, [SignInNext]_signInVars
    PROVE  CodeInv'
  <1> USE Typed
  <1>1. ASSUME NEW c \in SignInCalls, KnewThePin(c) PROVE KnewThePin(c)'
    BY <1>1 DEF KnewThePin, Matches, Kept, CallsKept, SignInCallInv, CallOK
  <1>2. ASSUME NEW row \in DOMAIN otps, otps'[row].purpose = "login"
        PROVE  otps'[row].by = Held \/ KnewThePin(otps[row].by)'
    <2>1. otps'[row].by = otps[row].by /\ otps[row].purpose = "login"
      BY <1>2 DEF Kept, OtpsKept
    <2>2. otps[row].by = Held \/ (otps[row].by \in SignInCalls /\ KnewThePin(otps[row].by))
      BY <2>1 DEF CodeInv, Otps
    <2>3. ASSUME NEW c \in SignInCalls, c = otps[row].by, KnewThePin(c) PROVE KnewThePin(otps[row].by)'
      BY <2>1, <2>3, <1>1 DEF KnewThePin, Matches
    <2> QED BY <2>1, <2>2, <2>3
  <1>3. ASSUME NEW c \in SignInCalls, GenerateOtp(c)
        PROVE  /\ DOMAIN otps' = DOMAIN otps \cup {Len(otps) + 1}
               /\ otps'[Len(otps) + 1].by = c
               /\ otps'[Len(otps) + 1].purpose = "login" => KnewThePin(c)
    <2> DEFINE x == [purpose |-> PurposeOf(call[c].kind), by |-> c, attempts |-> 0,
                     consumed |-> FALSE, expired |-> FALSE, deleted |-> FALSE]
    <2>1. otps' = Append(otps, x) /\ x.by = c /\ x.purpose = PurposeOf(call[c].kind)
      BY <1>3 DEF GenerateOtp
    <2>2. PurposeOf(call[c].kind) = "login" => KnewThePin(c)
      BY <1>3 DEF GenerateOtp, At, PurposeOf, SignInCallInv, CallOK
    <2> HIDE DEF x
    <2>3. DOMAIN otps' = DOMAIN otps \cup {Len(otps) + 1} /\ otps'[Len(otps) + 1] = x
      BY <2>1
    <2> QED BY <2>1, <2>2, <2>3
  <1>4. DOMAIN otps' = DOMAIN otps \/ \E c \in SignInCalls : GenerateOtp(c)
    <2>1. ASSUME NEW c \in SignInCalls, Arrive(c) PROVE UNCHANGED otps
      BY <2>1 DEF Arrive, ReceivePin, ReceiveCodeRequest, ReceiveCode, ReceiveReset, ReceiveDisable,
                  ReceiveToken, Logout, RevokeAllSessions, OnlyCalls
    <2>2. ASSUME NEW c \in SignInCalls, Proceed(c), ~ GenerateOtp(c) PROVE DOMAIN otps' = DOMAIN otps
      BY <2>2 DEF Proceed, PinMatches, PinWrong, Lock, Deliver, DeleteUndelivered, CodeWrong, Consume,
           SaveOtp, SavePin, EnableMfa, DisableMfa, OnlyCalls, IssueTokenPair, RevokeOld, GiveUpOld,
           CreateSuccessor, RevokeSession, RevokeAfterReset
    <2> QED BY <2>1, <2>2 DEF SignInNext, LockLapses, OtpExpires, signInVars
  <1>5. ASSUME NEW row \in DOMAIN otps', otps'[row].purpose = "login"
        PROVE  otps'[row].by = Held \/ KnewThePin(otps[row].by)'
    <2>1. CASE row \in DOMAIN otps
      BY <2>1, <1>2, <1>5
    <2>2. CASE row \notin DOMAIN otps
      <3>1. PICK c \in SignInCalls : GenerateOtp(c)
        BY <1>4, <1>5, <2>2
      <3>2. otps'[row].by = c /\ KnewThePin(c)
        BY <3>1, <1>3, <1>5, <2>2
      <3> QED BY <3>2, <1>1 DEF KnewThePin, Matches
    <2> QED BY <2>1, <2>2
  <1> QED BY <1>5 DEF CodeInv

-----------------------------------------------------------------------------
(* The counter.                                                            *)

LEMMA NextAttempts ==
    ASSUME SignInTypeOK, AttemptsAreCounted, [SignInNext]_signInVars
    PROVE  AttemptsAreCounted'
  <1> USE Typed, LimitsArePositive
  <1> user \in Users /\ guesses \in Nat /\ user.failed \in Nat
    BY DEF SignInTypeOK, Users
  <1> DEFINE Locking(c) == call[c].at = "locking"
  <1>1. ASSUME UNCHANGED guesses, user'.failed = user.failed,
               \A c \in SignInCalls : Locking(c) => Locking(c)'
        PROVE  AttemptsAreCounted'
    BY <1>1 DEF AttemptsAreCounted
  <1>2. ASSUME user'.failed = 0, guesses' = 0 PROVE AttemptsAreCounted'
    BY <1>2 DEF AttemptsAreCounted
  <1>3. ASSUME NEW c \in SignInCalls, ~ Locking(c), \E x : call' = [call EXCEPT ![c] = x],
               UNCHANGED <<user, guesses>>
        PROVE  AttemptsAreCounted'
    BY <1>3, <1>1
  <1>4. ASSUME NEW c \in SignInCalls, Arrive(c) PROVE AttemptsAreCounted'
    <2>1. call[c].at = "idle" /\ UNCHANGED <<user, guesses>> /\ \E x : call' = [call EXCEPT ![c] = x]
      BY <1>4 DEF Arrive, ReceivePin, ReceiveCodeRequest, ReceiveCode, ReceiveReset, ReceiveDisable,
                  ReceiveToken, Logout, RevokeAllSessions, OnlyCalls, Receive
    <2> QED BY <2>1, <1>3
  <1>5. ASSUME NEW c \in SignInCalls, Proceed(c) PROVE AttemptsAreCounted'
    <2>1. CASE PinMatches(c)
      <3>1. CASE call[c].saw.failed # 0 \/ call[c].saw.lock # "no"
        <4>1. user' = [user EXCEPT !.failed = 0, !.lock = "no"] /\ guesses' = 0
          BY <2>1, <3>1 DEF PinMatches
        <4>2. user'.failed = 0
          BY <4>1 DEF Users
        <4> QED BY <4>1, <4>2, <1>2
      <3>2. CASE ~ (call[c].saw.failed # 0 \/ call[c].saw.lock # "no")
        BY <2>1, <3>2, <1>3 DEF PinMatches, At, MoveTo
      <3> QED BY <3>1, <3>2
    <2>2. CASE PinWrong(c)
      <3>1. user'.failed = user.failed + 1 /\ guesses' = guesses + 1
        BY <2>2 DEF PinWrong, Incremented, Users
      <3>2. user'.failed >= MAX_PIN_ATTEMPTS => call'[c].at = "locking"
        BY <2>2, <3>1 DEF PinWrong, Incremented, MoveTo, SignInRequests
      <3> QED BY <3>1, <3>2 DEF AttemptsAreCounted
    <2>3. CASE Lock(c) \/ SavePin(c)
      <3>1. user'.failed = 0 /\ guesses' = 0
        BY <2>3 DEF Lock, SavePin, Users
      <3> QED BY <3>1, <1>2
    <2>4. CASE EnableMfa(c) \/ DisableMfa(c)
      <3>1. user'.failed = user.failed /\ UNCHANGED guesses
        BY <2>4 DEF EnableMfa, DisableMfa, Users
      <3>2. ~ Locking(c) /\ MoveTo(c, "done")
        BY <2>4 DEF EnableMfa, DisableMfa, At
      <3>3. \A d \in SignInCalls : Locking(d) => Locking(d)'
        BY <3>2 DEF MoveTo, SignInRequests
      <3> QED BY <3>1, <3>3, <1>1
    <2>5. CASE \/ GenerateOtp(c) \/ Deliver(c) \/ DeleteUndelivered(c) \/ CodeWrong(c) \/ Consume(c)
               \/ IssueTokenPair(c) \/ RevokeOld(c) \/ CreateSuccessor(c) \/ RevokeSession(c)
               \/ RevokeAfterReset(c)
      <3>1. UNCHANGED <<user, guesses>> /\ ~ Locking(c) /\ \E x : call' = [call EXCEPT ![c] = x]
        BY <2>5 DEF GenerateOtp, Deliver, DeleteUndelivered, CodeWrong, Consume, SaveOtp, IssueTokenPair,
          RevokeOld, GiveUpOld, CreateSuccessor, RevokeSession, RevokeAfterReset, OnlyCalls, At, MoveTo
      <3> QED BY <3>1, <1>3
    <2> QED BY <1>5, <2>1, <2>2, <2>3, <2>4, <2>5 DEF Proceed
  <1>6. CASE LockLapses
    <2>1. user'.failed = user.failed /\ UNCHANGED <<guesses, call>>
      BY <1>6 DEF LockLapses, Users
    <2> QED BY <2>1, <1>1
  <1>7. CASE OtpExpires \/ UNCHANGED signInVars
    BY <1>7, <1>1 DEF OtpExpires, signInVars
  <1> QED BY <1>4, <1>5, <1>6, <1>7 DEF SignInNext

-----------------------------------------------------------------------------
(* Theorems.                                                               *)

(* The invariant holds in every state.                                     *)
THEOREM SignInAlways == SignInSpec => []SignInInv
  <1>1. SignInInit => SignInInv
    BY SignInInitOK
  <1>2. SignInInv /\ [SignInNext]_signInVars => SignInInv'
    <2> SUFFICES ASSUME SignInInv, [SignInNext]_signInVars PROVE SignInInv'
      OBVIOUS
    <2> SignInTypeOK /\ SignInCallInv /\ CodeInv /\ ParentInv /\ SessionInv /\ OldTokenDies /\ AttemptsAreCounted
      BY DEF SignInInv
    <2>1. Kept
      BY NextKeeps
    <2>2. SignInTypeOK' /\ SignInCallInv'
      BY <2>1, NextTypes, NextCalls
    <2>3. ParentInv' /\ OldTokenDies' /\ SessionInv' /\ CodeInv' /\ AttemptsAreCounted'
      BY <2>1, NextTokens, NextSessions, NextCodes, NextAttempts
    <2> QED BY <2>2, <2>3 DEF SignInInv
  <1> QED BY <1>1, <1>2, PTL DEF SignInSpec

(* Every wrong PIN is counted, however many are tried at once, and a full  *)
(* counter locks the account.                                              *)
THEOREM AttemptsCorrect == SignInSpec => []AttemptsAreCounted
  <1>1. SignInInv => AttemptsAreCounted
    BY DEF SignInInv
  <1> QED BY <1>1, SignInAlways, PTL

(* No refresh token is usable beside its successor.                        *)
THEOREM OldTokensDie == SignInSpec => []OldTokenDies
  <1>1. SignInInv => OldTokenDies
    BY DEF SignInInv
  <1> QED BY <1>1, SignInAlways, PTL

(* Every session goes back to the PIN, and to the code where the account   *)
(* asks for one.                                                           *)
THEOREM SessionsEarned == SignInSpec => []EverySessionWasEarned
  <1>1. SignInInv => EverySessionWasEarned
    <2> SUFFICES ASSUME SignInInv, NEW t \in DOMAIN tokens
                 PROVE  LET c == tokens[t].by IN
                          \/ c = Held
                          \/ KnewThePin(c) /\ ~ call[c].saw.mfaEnabled
                          \/ /\ call[c].kind = "mfaVerify"
                             /\ LET otp == otps[call[c].row] IN
                                  /\ otp.consumed /\ otp.purpose = "login"
                                  /\ otp.by = Held \/ KnewThePin(otp.by)
                          \/ call[c].kind = "refresh" /\ tokens[t].parent = call[c].row
      BY DEF EverySessionWasEarned
    <2>1. Earned(tokens[t].by, tokens[t].parent)
      BY DEF SignInInv, SessionInv
    <2>2. \A row \in DOMAIN otps : otps[row].purpose = "login" =>
            otps[row].by = Held \/ KnewThePin(otps[row].by)
      BY DEF SignInInv, CodeInv
    <2> QED BY <2>1, <2>2 DEF Earned
  <1> QED BY <1>1, SignInAlways, PTL

-----------------------------------------------------------------------------
(***************************************************************************)
(* Customers' files.                                                       *)
(***************************************************************************)

(* No two customers have a number in common.                               *)
NumbersAreTheirOwn ==
    \A u, v \in Customers : u # v =>
        /\ file[u].bvn # NoId => file[v].bvn # file[u].bvn
        /\ file[u].nin # NoId => file[v].nin # file[u].nin

(* What a decision that is under way will write: the account state only if *)
(* it is about that, a higher tier only for a customer who has since kept  *)
(* both numbers, the numbers themselves never.                             *)
DecisionOK(o) ==
    LET d == decision[o] IN
        d.at = "saving" =>
            /\ d.customer \in Customers
            /\ d.wanted.bvn = d.read.bvn /\ d.wanted.nin = d.read.nin
            /\ d.kind # "setState" => d.wanted.state = d.read.state
            /\ d.wanted.tier # d.read.tier /\ d.wanted.tier # "tier1" =>
                 file[d.customer].bvn # NoId /\ file[d.customer].nin # NoId

FileInv ==
    /\ KY!TypeOK
    /\ \A o \in Calls : DecisionOK(o)
    /\ NumbersAreTheirOwn
    /\ \A u \in Customers : file[u].tier # "tier1" => file[u].bvn # NoId /\ file[u].nin # NoId

LEMMA FileInit == ASSUME KY!Init PROVE FileInv
  BY DEF KY!Init, KY!TypeOK, KY!Idle, KY!NewFile, KY!Files, KY!Tiers, KY!States, FileInv, DecisionOK,
         NumbersAreTheirOwn

LEMMA SubmissionOK ==
    ASSUME FileInv, NEW u \in Customers, NEW bvn \in Bvns \cup {NoId}, NEW nin \in Nins \cup {NoId},
           KY!SubmitKyc(u, bvn, nin)
    PROVE  FileInv'
  <1> DEFINE new == KY!Submission(u, bvn, nin)
  <1>1. /\ new \in KY!Files /\ new.tier = file[u].tier
        /\ new.bvn = IF bvn # NoId THEN bvn ELSE file[u].bvn
        /\ new.nin = IF nin # NoId THEN nin ELSE file[u].nin
    <2> DEFINE a == KY!Given(bvn, file[u].bvn)
               b == KY!Given(nin, file[u].nin)
    <2>1. file[u] \in KY!Files
      BY DEF FileInv, KY!TypeOK
    <2>2. /\ a = (IF bvn # NoId THEN bvn ELSE file[u].bvn) /\ a \in Bvns \cup {NoId}
          /\ b = (IF nin # NoId THEN nin ELSE file[u].nin) /\ b \in Nins \cup {NoId}
      BY <2>1 DEF KY!Given, KY!Files
    <2>3. new = [file[u] EXCEPT !.status = "submitted", !.bvn = a, !.nin = b]
      BY DEF KY!Submission
    <2> HIDE DEF new, a, b
    <2>4. new \in KY!Files
      BY <2>1, <2>2, <2>3, Zenon DEF KY!Files
    <2>5. new.tier = file[u].tier /\ new.bvn = a /\ new.nin = b
      BY <2>1, <2>3 DEF KY!Files
    <2> QED BY <2>2, <2>4, <2>5
  <1>2. file' = [file EXCEPT ![u] = new] /\ UNCHANGED decision /\ KY!Unused(u, bvn, nin)
    BY DEF KY!SubmitKyc
  <1> HIDE DEF new
  <1>3. KY!TypeOK'
    BY <1>1, <1>2 DEF FileInv, KY!TypeOK
  <1>4. /\ file'[u] = new
        /\ \A v \in Customers : v # u => file'[v] = file[v]
    BY <1>2 DEF FileInv, KY!TypeOK
  <1>5. \A v \in Customers : /\ file'[v].tier = file[v].tier
                             /\ file[v].bvn # NoId => file'[v].bvn # NoId
                             /\ file[v].nin # NoId => file'[v].nin # NoId
    BY <1>1, <1>4
  <1>6. \A o \in Calls : DecisionOK(o)'
    BY <1>2, <1>5 DEF FileInv, DecisionOK
  <1>7. NumbersAreTheirOwn'
    <2> SUFFICES ASSUME NEW v \in Customers, NEW w \in Customers, v # w
                 PROVE  /\ file'[v].bvn # NoId => file'[w].bvn # file'[v].bvn
                        /\ file'[v].nin # NoId => file'[w].nin # file'[v].nin
      BY DEF NumbersAreTheirOwn
    <2>1. \A x \in Customers \ {u} : /\ bvn # NoId => file[x].bvn # bvn
                                     /\ nin # NoId => file[x].nin # nin
      BY <1>2 DEF KY!Unused
    <2>2. \A x, y \in Customers : x # y => /\ file[x].bvn # NoId => file[y].bvn # file[x].bvn
                                           /\ file[x].nin # NoId => file[y].nin # file[x].nin
      BY DEF FileInv, NumbersAreTheirOwn
    <2>3. CASE v = u
      BY <1>1, <1>4, <2>1, <2>2, <2>3
    <2>4. CASE w = u
      BY <1>1, <1>4, <2>1, <2>2, <2>4
    <2>5. CASE v # u /\ w # u
      BY <1>4, <2>2, <2>5
    <2> QED BY <2>3, <2>4, <2>5
  <1> QED BY <1>3, <1>5, <1>6, <1>7 DEF FileInv

(* A decision is taken: nothing is written yet.                            *)
LEMMA DecideOK ==
    ASSUME FileInv, NEW o \in Calls, NEW u \in Customers, NEW kind \in {"reject", "verify", "setState"},
           NEW wanted \in KY!Files, KY!Decide(o, kind, u, wanted),
           wanted.bvn = file[u].bvn, wanted.nin = file[u].nin,
           kind # "setState" => wanted.state = file[u].state,
           wanted.tier # file[u].tier /\ wanted.tier # "tier1" =>
             file[u].bvn # NoId /\ file[u].nin # NoId
    PROVE  FileInv'
  <1> DEFINE new == [at |-> "saving", kind |-> kind, customer |-> u, read |-> file[u],
                     wanted |-> wanted]
  <1>1. decision' = [decision EXCEPT ![o] = new] /\ UNCHANGED file
    BY DEF KY!Decide
  <1>2. KY!TypeOK'
    BY <1>1 DEF FileInv, KY!TypeOK
  <1>3. \A p \in Calls : decision'[p] = IF p = o THEN new ELSE decision[p]
    BY <1>1 DEF FileInv, KY!TypeOK
  <1>4. ASSUME NEW p \in Calls PROVE DecisionOK(p)'
    BY <1>1, <1>3 DEF FileInv, DecisionOK
  <1> HIDE DEF new
  <1> QED BY <1>1, <1>2, <1>4 DEF FileInv, NumbersAreTheirOwn

(* What the save of a decision makes of the file.                          *)
LEMMA SavedFile ==
    ASSUME FileInv, NEW o \in Calls, KY!Save(o)
    PROVE  /\ decision[o].at = "saving" /\ decision[o].customer \in Customers
           /\ file' = [file EXCEPT ![decision[o].customer] = KY!Saved(o)]
           /\ decision' = [decision EXCEPT ![o] = decision'[o]] /\ decision'[o].at = "done"
           /\ KY!TypeOK'
           /\ KY!Saved(o).bvn = file[decision[o].customer].bvn
           /\ KY!Saved(o).nin = file[decision[o].customer].nin
           /\ decision[o].kind # "setState" => KY!Saved(o).state = file[decision[o].customer].state
           /\ KY!Saved(o).tier # "tier1" =>
                KY!Saved(o).bvn # NoId /\ KY!Saved(o).nin # NoId
  <1> DEFINE d == decision[o]
             old == file[d.customer]
  <1>1. d.at = "saving" /\ d.customer \in Customers /\ d.read \in KY!Files /\ d.wanted \in KY!Files
    BY DEF FileInv, DecisionOK, KY!TypeOK, KY!Save
  <1>2. old \in KY!Files
    BY <1>1 DEF FileInv, KY!TypeOK
  <1>3. /\ d.wanted.bvn = d.read.bvn /\ d.wanted.nin = d.read.nin
        /\ d.kind # "setState" => d.wanted.state = d.read.state
        /\ d.wanted.tier # d.read.tier /\ d.wanted.tier # "tier1" => old.bvn # NoId /\ old.nin # NoId
        /\ old.tier # "tier1" => old.bvn # NoId /\ old.nin # NoId
    BY <1>1 DEF FileInv, DecisionOK
  <1>4. KY!Saved(o) = [status |-> IF d.wanted.status # d.read.status THEN d.wanted.status ELSE old.status,
                       tier |-> IF d.wanted.tier # d.read.tier THEN d.wanted.tier ELSE old.tier,
                       bvn |-> IF d.wanted.bvn # d.read.bvn THEN d.wanted.bvn ELSE old.bvn,
                       nin |-> IF d.wanted.nin # d.read.nin THEN d.wanted.nin ELSE old.nin,
                       state |-> IF d.wanted.state # d.read.state THEN d.wanted.state ELSE old.state]
    BY DEF KY!Saved, KY!Field
  <1>5. KY!Saved(o) \in KY!Files
    BY <1>1, <1>2, <1>4 DEF KY!Files
  <1>6. /\ file' = [file EXCEPT ![d.customer] = KY!Saved(o)]
        /\ decision' = [decision EXCEPT ![o] = [KY!Idle EXCEPT !.at = "done"]]
    BY DEF KY!Save
  <1>7. [KY!Idle EXCEPT !.at = "done"] \in
          [at: {"idle", "saving", "done"}, kind: {"none", "reject", "verify", "setState"},
           customer: Customers \cup {NoId}, read: KY!Files, wanted: KY!Files]
        /\ [KY!Idle EXCEPT !.at = "done"].at = "done"
    BY DEF KY!Idle, KY!NewFile, KY!Files, KY!Tiers, KY!States
  <1>8. KY!TypeOK'
    BY <1>1, <1>5, <1>6, <1>7 DEF FileInv, KY!TypeOK
  <1>9. decision' = [decision EXCEPT ![o] = decision'[o]] /\ decision'[o].at = "done"
    BY <1>6, <1>7 DEF FileInv, KY!TypeOK
  <1> QED BY <1>1, <1>3, <1>4, <1>6, <1>8, <1>9

LEMMA FileSaved == ASSUME FileInv, NEW o \in Calls, KY!Save(o) PROVE FileInv'
  <1> DEFINE u == decision[o].customer
  <1>1. \A v \in Customers : file'[v] = IF v = u THEN KY!Saved(o) ELSE file[v]
    BY SavedFile DEF FileInv, KY!TypeOK
  <1>2. \A v \in Customers : file'[v].bvn = file[v].bvn /\ file'[v].nin = file[v].nin
    BY <1>1, SavedFile
  <1>3. \A p \in Calls : decision'[p].at = "saving" => decision'[p] = decision[p]
    BY SavedFile DEF FileInv, KY!TypeOK
  <1>4. \A p \in Calls : DecisionOK(p)'
    BY <1>2, <1>3 DEF FileInv, DecisionOK
  <1>5. NumbersAreTheirOwn'
    BY <1>2 DEF FileInv, NumbersAreTheirOwn
  <1>6. \A v \in Customers : file'[v].tier # "tier1" => file'[v].bvn # NoId /\ file'[v].nin # NoId
    BY <1>1, <1>2, SavedFile DEF FileInv
  <1> QED BY <1>4, <1>5, <1>6, SavedFile DEF FileInv

LEMMA FileNext == ASSUME FileInv, [KY!Next]_(KY!vars) PROVE FileInv'
  <1>1. ASSUME NEW o \in Calls, NEW u \in Customers, KY!Reject(o, u) PROVE FileInv'
    <2>1. [file[u] EXCEPT !.status = "rejected"] \in KY!Files
      BY DEF FileInv, KY!TypeOK, KY!Files
    <2> QED BY <1>1, <2>1, DecideOK DEF KY!Reject, FileInv, KY!TypeOK, KY!Files
  <1>2. ASSUME NEW o \in Calls, NEW u \in Customers, NEW tier \in KY!Tiers, KY!Verify(o, u, tier)
        PROVE  FileInv'
    <2> DEFINE wanted == [file[u] EXCEPT !.status = "verified", !.tier = tier]
    <2>1. /\ wanted \in KY!Files /\ wanted.tier = tier /\ wanted.state = file[u].state
          /\ wanted.bvn = file[u].bvn /\ wanted.nin = file[u].nin
      <3>1. file[u] \in KY!Files
        BY DEF FileInv, KY!TypeOK
      <3>2. wanted \in KY!Files
        BY <3>1, Zenon DEF KY!Files
      <3>3. /\ wanted.tier = tier /\ wanted.state = file[u].state
            /\ wanted.bvn = file[u].bvn /\ wanted.nin = file[u].nin
        BY <3>1 DEF KY!Files
      <3> QED BY <3>2, <3>3
    <2>2. tier # "tier1" => file[u].bvn # NoId /\ file[u].nin # NoId
      BY <1>2 DEF KY!Verify, KY!Tiers
    <2>3. KY!Decide(o, "verify", u, wanted)
      BY <1>2 DEF KY!Verify
    <2> HIDE DEF wanted
    <2> QED BY <2>1, <2>2, <2>3, DecideOK
  <1>3. ASSUME NEW o \in Calls, NEW u \in Customers, NEW s \in KY!States, KY!SetAccountState(o, u, s)
        PROVE  FileInv'
    <2> DEFINE wanted == [file[u] EXCEPT !.state = s]
    <2>1. /\ wanted \in KY!Files /\ wanted.tier = file[u].tier
          /\ wanted.bvn = file[u].bvn /\ wanted.nin = file[u].nin
      BY DEF FileInv, KY!TypeOK, KY!Files
    <2>2. KY!Decide(o, "setState", u, wanted)
      BY <1>3 DEF KY!SetAccountState
    <2> HIDE DEF wanted
    <2> QED BY <2>1, <2>2, DecideOK
  <1>4. ASSUME UNCHANGED KY!vars PROVE FileInv'
    BY <1>4 DEF KY!vars, FileInv, KY!TypeOK, DecisionOK, NumbersAreTheirOwn
  <1> QED BY <1>1, <1>2, <1>3, <1>4, SubmissionOK, FileSaved DEF KY!Next

LEMMA FilesAlways == KY!Spec => []FileInv
  <1>1. KY!Init => FileInv
    BY FileInit
  <1>2. FileInv /\ [KY!Next]_(KY!vars) => FileInv'
    BY FileNext
  <1> QED BY <1>1, <1>2, PTL DEF KY!Spec

(* Whatever a customer submits while a tier is being granted, a higher     *)
(* tier has both numbers, and nobody else has either.                      *)
THEOREM TierCorrect == KY!Spec => []HigherTierHasBoth
  <1>1. FileInv => HigherTierHasBoth
    BY DEF FileInv, NumbersAreTheirOwn, HigherTierHasBoth, KY!HigherTierHasBoth, KY!Unused
  <1> QED BY <1>1, FilesAlways, PTL

(* An account state changes in the save of a ruling about it.              *)
LEMMA StateRulings ==
    ASSUME FileInv, [KY!Next]_(KY!vars), NEW u \in Customers, file'[u].state # file[u].state
    PROVE  \E o \in Calls : /\ decision[o].kind = "setState" /\ decision[o].customer = u
                            /\ decision[o].at = "saving" /\ decision'[o].at = "done"
  <1>1. file' # file
    OBVIOUS
  <1>2. ASSUME NEW v \in Customers, NEW bvn, NEW nin, KY!SubmitKyc(v, bvn, nin) PROVE FALSE
    BY <1>2 DEF KY!SubmitKyc, KY!Submission, FileInv, KY!TypeOK, KY!Files
  <1>3. PICK o \in Calls : KY!Save(o)
    BY <1>1, <1>2 DEF KY!Next, KY!vars, KY!Reject, KY!Verify, KY!SetAccountState, KY!Decide
  <1>4. \A v \in Customers : file'[v] = IF v = decision[o].customer THEN KY!Saved(o) ELSE file[v]
    BY <1>3, SavedFile DEF FileInv, KY!TypeOK
  <1> QED BY <1>3, <1>4, SavedFile

-----------------------------------------------------------------------------
(***************************************************************************)
(* Partners.                                                               *)
(***************************************************************************)

(* What a request about a partner will write: a rotation a new secret and  *)
(* the one it replaces, a ruling the status, each nothing else.            *)
WillSaveOK(q) ==
    /\ PA!Known(q.slug) /\ q.wanted.status # "none"
    /\ q.kind = "setStatus" =>
         q.wanted.secret = q.read.secret /\ q.wanted.previous = q.read.previous
    /\ q.kind = "rotate" =>
         /\ q.wanted.status = q.read.status
         /\ q.wanted.secret \in issued /\ q.wanted.secret # q.read.secret
         /\ q.wanted.previous = q.read.secret /\ q.read.previous # q.read.secret
         /\ q.wanted.grace

DeskOK(q) ==
    /\ q.at \in {"saving", "finding", "pooling", "numbering"} => q.slug \in Slugs
    /\ q.at = "saving" /\ q.kind \in {"setStatus", "rotate"} => WillSaveOK(q)
    /\ q.at = "numbering" => q.pool # 0

(* A partner's secret has been generated, and is not the previous one.     *)
SecretInv ==
    \A p \in Slugs : PA!Known(p) =>
        partner[p].secret \in issued /\ partner[p].secret # partner[p].previous

PartnerInv == PA!TypeOK /\ SecretInv /\ \A r \in Visits : DeskOK(request[r])

DeskRecords ==
    [at: {"idle", "saving", "finding", "pooling", "numbering", "done"},
     kind: {"none", "seed", "setStatus", "rotate", "account"},
     slug: Slugs \cup {NoSlug}, read: PA!Partner, wanted: PA!Partner, pool: Nat]

LEMMA AbsentTyped == PA!Absent \in PA!Partner /\ PA!Absent.status = "none"
  BY DEF PA!Absent, PA!Partner

LEMMA DeskIdle == PA!Idle \in DeskRecords /\ PA!Idle.at = "idle"
  BY AbsentTyped DEF PA!Idle, DeskRecords

LEMMA PartnerInit == ASSUME PA!Init PROVE PartnerInv
  <1>1. PA!TypeOK
    BY AbsentTyped, DeskIdle DEF PA!Init, PA!TypeOK, DeskRecords
  <1>2. SecretInv
    BY AbsentTyped DEF PA!Init, SecretInv, PA!Known
  <1>3. \A r \in Visits : DeskOK(request[r])
    BY DeskIdle DEF PA!Init, DeskOK
  <1> QED BY <1>1, <1>2, <1>3 DEF PartnerInv

(* A secret is new, or there is none left.                                 *)
LEMMA FreshSecret ==
    ASSUME PA!TypeOK, PA!Fresh # NoSecret
    PROVE  PA!Fresh \in Secrets \ issued
  BY DEF PA!TypeOK, PA!Fresh

(* What is true of a request stays true while partners stay known and      *)
(* secrets issued.                                                         *)
LEMMA DeskStays ==
    ASSUME PartnerInv, NEW r \in Visits, request'[r] = request[r], issued \subseteq issued',
           \A p \in Slugs : PA!Known(p) => PA!Known(p)'
    PROVE  DeskOK(request[r])'
  BY DEF PartnerInv, DeskOK, WillSaveOK, PA!Known

(* A request is let in and has loaded the partner.                         *)
LEMMA LoadedOK ==
    ASSUME PartnerInv, NEW r \in Visits, NEW p \in Slugs, NEW kind, NEW at, NEW wanted \in PA!Partner,
           <<kind, at>> \in {<<"seed", "saving">>, <<"setStatus", "saving">>, <<"rotate", "saving">>,
                             <<"account", "finding">>},
           PA!Load(r, kind, p, at, wanted), UNCHANGED <<partner, pools, accounts>>,
           issued \subseteq issued', issued' \subseteq Secrets,
           kind \in {"setStatus", "rotate"} => PA!Known(p) /\ wanted.status # "none",
           kind = "setStatus" =>
             wanted.secret = partner[p].secret /\ wanted.previous = partner[p].previous,
           kind = "rotate" => /\ wanted.status = partner[p].status
                              /\ wanted.secret \in issued' /\ wanted.secret # partner[p].secret
                              /\ wanted.previous = partner[p].secret /\ wanted.grace
    PROVE  PartnerInv'
  <1> DEFINE new == [PA!Idle EXCEPT !.at = at, !.kind = kind, !.slug = p, !.read = partner[p],
                                    !.wanted = wanted]
  <1>1. partner[p] \in PA!Partner
    BY DEF PartnerInv, PA!TypeOK
  <1>2. /\ kind \in {"none", "seed", "setStatus", "rotate", "account"}
        /\ at \in {"idle", "saving", "finding", "pooling", "numbering", "done"} /\ at # "numbering"
        /\ at = "saving" => kind # "account"
    OBVIOUS
  <1>3. new \in DeskRecords
    BY <1>1, <1>2, DeskIdle, Zenon DEF DeskRecords
  <1>4. /\ new.at = at /\ new.kind = kind /\ new.slug = p /\ new.read = partner[p]
        /\ new.wanted = wanted
    BY DeskIdle DEF DeskRecords
  <1>5. request' = [request EXCEPT ![r] = new]
    BY DEF PA!Load
  <1> HIDE DEF new
  <1>6. PA!TypeOK'
    BY <1>3, <1>5 DEF PartnerInv, PA!TypeOK, DeskRecords
  <1>7. SecretInv'
    BY DEF PartnerInv, SecretInv, PA!Known
  <1>8. request'[r] = new /\ \A q \in Visits : q # r => request'[q] = request[q]
    BY <1>5 DEF PartnerInv, PA!TypeOK
  <1>9. kind = "rotate" => partner[p].previous # partner[p].secret
    BY DEF PartnerInv, SecretInv
  <1>10. ASSUME NEW q \in Visits PROVE DeskOK(request[q])'
    <2>1. CASE q = r
      BY <1>2, <1>4, <1>8, <1>9, <2>1 DEF DeskOK, WillSaveOK, PA!Known
    <2>2. CASE q # r
      BY <1>8, <2>2, DeskStays DEF PA!Known
    <2> QED BY <2>1, <2>2
  <1> QED BY <1>6, <1>7, <1>10 DEF PartnerInv

(* A request moves on without writing the partner.                         *)
LEMMA DeskMoves ==
    ASSUME PartnerInv, NEW r \in Visits, NEW new \in DeskRecords,
           request' = [request EXCEPT ![r] = new],
           new.at \notin {"idle", "saving"}, new.at # "done" => new.slug \in Slugs,
           new.at = "numbering" => new.pool # 0,
           pools' \in [Slugs -> Nat], UNCHANGED <<partner, issued>>,
           accounts' \subseteq [number: Numbers, slug: Slugs, pool: Nat \ {0}]
    PROVE  PartnerInv'
  <1>1. PA!TypeOK'
    BY DEF PartnerInv, PA!TypeOK, DeskRecords
  <1>2. SecretInv'
    BY DEF PartnerInv, SecretInv, PA!Known
  <1>3. request'[r] = new /\ \A q \in Visits : q # r => request'[q] = request[q]
    BY DEF PartnerInv, PA!TypeOK
  <1>4. ASSUME NEW q \in Visits PROVE DeskOK(request[q])'
    <2>1. CASE q = r
      BY <1>3, <2>1 DEF DeskOK
    <2>2. CASE q # r
      BY <1>3, <2>2, DeskStays DEF PA!Known
    <2> QED BY <2>1, <2>2
  <1> QED BY <1>1, <1>2, <1>4 DEF PartnerInv

(* A partner is written, by a request that ends or by no request.          *)
LEMMA PartnerWritten ==
    ASSUME PartnerInv, NEW p \in Slugs, NEW new \in PA!Partner, partner' = [partner EXCEPT ![p] = new],
           \/ UNCHANGED request
           \/ \E r \in Visits : request' = [request EXCEPT ![r].at = "done"],
           UNCHANGED <<pools, accounts>>, issued \subseteq issued', issued' \subseteq Secrets,
           PA!Known(p) => new.status # "none",
           new.status # "none" => new.secret \in issued' /\ new.secret # new.previous
    PROVE  PartnerInv'
  <1>1. partner'[p] = new /\ \A q \in Slugs : q # p => partner'[q] = partner[q]
    BY DEF PartnerInv, PA!TypeOK
  <1>2. SecretInv'
    BY <1>1 DEF PartnerInv, SecretInv, PA!Known
  <1>3. \A q \in Slugs : PA!Known(q) => PA!Known(q)'
    BY <1>1 DEF PA!Known
  <1>4. partner' \in [Slugs -> PA!Partner]
    BY DEF PartnerInv, PA!TypeOK
  <1>5. CASE UNCHANGED request
    <2>1. PA!TypeOK'
      BY <1>4, <1>5 DEF PartnerInv, PA!TypeOK
    <2>2. \A r \in Visits : DeskOK(request[r])'
      BY <1>3, <1>5, DeskStays
    <2> QED BY <1>2, <2>1, <2>2 DEF PartnerInv
  <1>6. ASSUME NEW r \in Visits, request' = [request EXCEPT ![r].at = "done"] PROVE PartnerInv'
    <2> DEFINE over == [request[r] EXCEPT !.at = "done"]
    <2>1. request[r] \in DeskRecords
      BY DEF PartnerInv, PA!TypeOK, DeskRecords
    <2>2. over \in DeskRecords /\ over.at = "done"
      BY <2>1 DEF DeskRecords
    <2>3. request' = [request EXCEPT ![r] = over]
      BY <1>6
    <2> HIDE DEF over
    <2>4. PA!TypeOK'
      BY <1>4, <2>2, <2>3 DEF PartnerInv, PA!TypeOK, DeskRecords
    <2>5. ASSUME NEW q \in Visits PROVE DeskOK(request[q])'
      <3>1. CASE q = r
        <4>1. request'[q].at = "done"
          BY <2>2, <2>3, <3>1 DEF PartnerInv, PA!TypeOK
        <4> QED BY <4>1 DEF DeskOK
      <3>2. CASE q # r
        <4>1. request'[q] = request[q]
          BY <2>3, <3>2 DEF PartnerInv, PA!TypeOK
        <4> QED BY <1>3, <4>1, DeskStays
      <3> QED BY <3>1, <3>2
    <2> QED BY <1>2, <2>4, <2>5 DEF PartnerInv
  <1> QED BY <1>5, <1>6

(* What the save of a request makes of the partner.                        *)
LEMMA SavedPartner ==
    ASSUME PartnerInv, NEW r \in Visits, PA!Save(r)
    PROVE  LET q == request[r]
               old == partner[q.slug]
               new == PA!Saved(r)
           IN  /\ q.at = "saving" /\ q.kind \in {"setStatus", "rotate"} /\ q.slug \in Slugs
               /\ WillSaveOK(q) /\ new \in PA!Partner
               /\ new.status # "none"
               /\ q.kind = "setStatus" =>
                    new.secret = old.secret /\ new.previous = old.previous
               /\ q.kind = "rotate" =>
                    /\ new.status = old.status /\ new.secret = q.wanted.secret
                    /\ new.previous = q.read.secret /\ new.grace
  <1> DEFINE q == request[r]
             old == partner[q.slug]
             new == PA!Saved(r)
  <1>1. q.at = "saving" /\ q.kind \in {"setStatus", "rotate"}
    BY DEF PA!Save
  <1>2. q.slug \in Slugs /\ WillSaveOK(q)
    BY <1>1 DEF PartnerInv, DeskOK
  <1>3. q.read \in PA!Partner /\ q.wanted \in PA!Partner /\ old \in PA!Partner
    BY <1>2 DEF PartnerInv, PA!TypeOK
  <1>4. DOMAIN q.wanted = {"status", "secret", "previous", "grace"}
    BY <1>3 DEF PA!Partner
  <1>5. new = [f \in DOMAIN q.wanted |->
                 IF q.wanted[f] # q.read[f] \/ (f = "grace" /\ q.kind = "rotate")
                   THEN q.wanted[f] ELSE old[f]]
    BY DEF PA!Saved
  <1> HIDE DEF q, old, new
  <1>6. new = [status |-> IF q.wanted.status # q.read.status THEN q.wanted.status ELSE old.status,
               secret |-> IF q.wanted.secret # q.read.secret THEN q.wanted.secret ELSE old.secret,
               previous |-> IF q.wanted.previous # q.read.previous THEN q.wanted.previous
                            ELSE old.previous,
               grace |-> IF q.wanted.grace # q.read.grace \/ q.kind = "rotate" THEN q.wanted.grace
                         ELSE old.grace]
    BY <1>4, <1>5
  <1>7. new \in PA!Partner
    BY <1>3, <1>6 DEF PA!Partner
  <1>8. old.status # "none"
    BY <1>2 DEF WillSaveOK, PA!Known, old
  <1> QED BY <1>1, <1>2, <1>6, <1>7, <1>8 DEF WillSaveOK, q, old, new

LEMMA PartnerSaved == ASSUME PartnerInv, NEW r \in Visits, PA!Save(r) PROVE PartnerInv'
  <1> DEFINE q == request[r]
             old == partner[q.slug]
             new == PA!Saved(r)
  <1>1. /\ q.slug \in Slugs /\ WillSaveOK(q) /\ new \in PA!Partner /\ new.status # "none"
        /\ q.kind \in {"setStatus", "rotate"}
        /\ q.kind = "setStatus" => new.secret = old.secret /\ new.previous = old.previous
        /\ q.kind = "rotate" => new.secret = q.wanted.secret /\ new.previous = q.read.secret
    BY SavedPartner
  <1>2. PA!Known(q.slug) /\ old.secret \in issued /\ old.secret # old.previous
    BY <1>1 DEF WillSaveOK, PartnerInv, SecretInv
  <1>3. new.secret \in issued /\ new.secret # new.previous
    BY <1>1, <1>2 DEF WillSaveOK
  <1>4. /\ partner' = [partner EXCEPT ![q.slug] = new]
        /\ request' = [request EXCEPT ![r].at = "done"]
        /\ UNCHANGED <<issued, pools, accounts>>
    BY DEF PA!Save
  <1>5. issued \subseteq Secrets
    BY DEF PartnerInv, PA!TypeOK
  <1> HIDE DEF q, old, new
  <1> QED BY <1>1, <1>3, <1>4, <1>5, PartnerWritten

LEMMA NewPartner ==
    ASSUME PartnerInv, NEW p \in Slugs, PA!Fresh # NoSecret
    PROVE  /\ PA!New(PA!Fresh) \in PA!Partner /\ PA!New(PA!Fresh).status # "none"
           /\ PA!New(PA!Fresh).secret = PA!Fresh /\ PA!New(PA!Fresh).previous = NoSecret
           /\ issued \cup {PA!Fresh} \subseteq Secrets
  <1>1. PA!Fresh \in Secrets
    BY FreshSecret DEF PartnerInv
  <1>2. PA!New(PA!Fresh) \in PA!Partner
    BY <1>1, AbsentTyped, Zenon DEF PA!New, PA!Partner
  <1>3. /\ PA!New(PA!Fresh).status = "active" /\ PA!New(PA!Fresh).secret = PA!Fresh
        /\ PA!New(PA!Fresh).previous = PA!Absent.previous
    BY AbsentTyped DEF PA!New, PA!Partner
  <1>4. PA!Absent.previous = NoSecret
    BY DEF PA!Absent
  <1>5. issued \subseteq Secrets
    BY DEF PartnerInv, PA!TypeOK
  <1> QED BY <1>1, <1>2, <1>3, <1>4, <1>5

LEMMA PartnerNext == ASSUME PartnerInv, [PA!Next]_(PA!vars) PROVE PartnerInv'
  <1> USE NothingIsNothing
  <1>1. ASSUME NEW p \in Slugs, PA!CreatePartner(p) PROVE PartnerInv'
    <2> DEFINE new == PA!New(PA!Fresh)
    <2>1. /\ PA!Fresh # NoSecret /\ partner' = [partner EXCEPT ![p] = new]
          /\ issued' = issued \cup {PA!Fresh} /\ UNCHANGED <<request, pools, accounts>>
      BY <1>1 DEF PA!CreatePartner
    <2>2. /\ new \in PA!Partner /\ new.status # "none" /\ issued' \subseteq Secrets
          /\ new.secret \in issued' /\ new.secret # new.previous
      BY <2>1, NewPartner
    <2> HIDE DEF new
    <2> QED BY <2>1, <2>2, PartnerWritten
  <1>2. ASSUME NEW p \in Slugs, PA!GraceEnds(p) PROVE PartnerInv'
    <2> DEFINE new == [partner[p] EXCEPT !.grace = FALSE]
    <2>1. partner[p] \in PA!Partner
      BY DEF PartnerInv, PA!TypeOK
    <2>2. /\ new \in PA!Partner /\ new.status = partner[p].status
          /\ new.secret = partner[p].secret /\ new.previous = partner[p].previous
      BY <2>1 DEF PA!Partner
    <2>3. partner' = [partner EXCEPT ![p] = new] /\ UNCHANGED <<request, issued, pools, accounts>>
      BY <1>2 DEF PA!GraceEnds
    <2>4. new.status # "none" => new.secret \in issued /\ new.secret # new.previous
      BY <2>2 DEF PartnerInv, SecretInv, PA!Known
    <2>5. issued \subseteq Secrets
      BY DEF PartnerInv, PA!TypeOK
    <2> HIDE DEF new
    <2> QED BY <2>2, <2>3, <2>4, <2>5, PartnerWritten DEF PA!Known
  <1>3. ASSUME NEW r \in Visits, NEW p \in Slugs, PA!LookForPartner(r, p) \/ PA!CreatePoolWallet(r, p)
        PROVE  PartnerInv'
    <2>1. issued \subseteq Secrets
      BY DEF PartnerInv, PA!TypeOK
    <2> QED BY <1>3, <2>1, AbsentTyped, LoadedOK DEF PA!LookForPartner, PA!CreatePoolWallet
  <1>4. ASSUME NEW r \in Visits, NEW p \in Slugs, NEW s \in {"active", "suspended"},
               PA!SetPartnerStatus(r, p, s)
        PROVE  PartnerInv'
    <2> DEFINE wanted == [partner[p] EXCEPT !.status = s]
    <2>1. partner[p] \in PA!Partner /\ issued \subseteq Secrets
      BY DEF PartnerInv, PA!TypeOK
    <2>2. /\ wanted \in PA!Partner /\ wanted.status = s
          /\ wanted.secret = partner[p].secret /\ wanted.previous = partner[p].previous
      BY <2>1 DEF PA!Partner
    <2>3. /\ PA!Known(p) /\ PA!Load(r, "setStatus", p, "saving", wanted)
          /\ UNCHANGED <<partner, issued, pools, accounts>>
      BY <1>4 DEF PA!SetPartnerStatus
    <2> HIDE DEF wanted
    <2> QED BY <2>1, <2>2, <2>3, LoadedOK
  <1>5. ASSUME NEW r \in Visits, NEW p \in Slugs, PA!RotateWebhookSecret(r, p) PROVE PartnerInv'
    <2> DEFINE wanted == PA!Rotated(p, PA!Fresh)
    <2>1. /\ PA!Known(p) /\ PA!Load(r, "rotate", p, "saving", wanted)
          /\ issued' = issued \cup {PA!Fresh} /\ UNCHANGED <<partner, pools, accounts>>
          /\ PA!Fresh # NoSecret
      BY <1>5 DEF PA!RotateWebhookSecret
    <2>2. PA!Fresh \in Secrets \ issued /\ issued \subseteq Secrets /\ partner[p] \in PA!Partner
      BY <2>1, FreshSecret DEF PartnerInv, PA!TypeOK
    <2>3. wanted = [partner[p] EXCEPT !.secret = PA!Fresh, !.previous = partner[p].secret, !.grace = TRUE]
      BY DEF PA!Rotated
    <2> HIDE DEF wanted
    <2>4. wanted \in PA!Partner
      <3>1. PA!Fresh \in Secrets \cup {NoSecret} /\ partner[p].secret \in Secrets \cup {NoSecret}
        BY <2>2 DEF PA!Partner
      <3> QED BY <2>2, <2>3, <3>1, Zenon DEF PA!Partner
    <2>5. /\ wanted.status = partner[p].status /\ wanted.secret = PA!Fresh
          /\ wanted.previous = partner[p].secret /\ wanted.grace
      BY <2>2, <2>3 DEF PA!Partner
    <2>6. wanted.status # "none" /\ PA!Fresh # partner[p].secret
      BY <2>1, <2>2, <2>5 DEF PA!Known, PartnerInv, SecretInv
    <2> QED BY <2>1, <2>2, <2>4, <2>5, <2>6, LoadedOK
  <1>6. ASSUME NEW r \in Visits, PA!Seed(r) PROVE PartnerInv'
    <2>1. request' = [request EXCEPT ![r].at = "done"] /\ UNCHANGED <<pools, accounts>>
      BY <1>6 DEF PA!Seed
    <2>2. request[r].slug \in Slugs
      BY <1>6 DEF PA!Seed, PartnerInv, DeskOK
    <2>3. CASE PA!Known(request[r].slug) \/ PA!Fresh = NoSecret
      <3> DEFINE over == [request[r] EXCEPT !.at = "done"]
      <3>1. request[r] \in DeskRecords /\ pools \in [Slugs -> Nat]
            /\ accounts \subseteq [number: Numbers, slug: Slugs, pool: Nat \ {0}]
        BY DEF PartnerInv, PA!TypeOK, DeskRecords
      <3>2. over \in DeskRecords /\ over.at = "done"
        BY <3>1 DEF DeskRecords
      <3>3. request' = [request EXCEPT ![r] = over] /\ UNCHANGED <<partner, issued>>
        BY <1>6, <2>1, <2>3 DEF PA!Seed
      <3> HIDE DEF over
      <3> QED BY <2>1, <3>1, <3>2, <3>3, DeskMoves
    <2>4. CASE ~ (PA!Known(request[r].slug) \/ PA!Fresh = NoSecret)
      <3> DEFINE new == PA!New(PA!Fresh)
      <3>1. /\ partner' = [partner EXCEPT ![request[r].slug] = new] /\ PA!Fresh # NoSecret
            /\ issued' = issued \cup {PA!Fresh}
        BY <1>6, <2>4 DEF PA!Seed
      <3>2. /\ new \in PA!Partner /\ new.status # "none" /\ issued' \subseteq Secrets
            /\ new.secret \in issued' /\ new.secret # new.previous
        BY <2>2, <3>1, NewPartner
      <3> HIDE DEF new
      <3> QED BY <2>1, <2>2, <3>1, <3>2, PartnerWritten
    <2> QED BY <2>3, <2>4
  <1>7. ASSUME NEW r \in Visits, PA!FindPool(r) \/ PA!CreatePool(r) \/ PA!CreateAccount(r)
        PROVE  PartnerInv'
    <2>1. request[r] \in DeskRecords /\ pools \in [Slugs -> Nat] /\ request[r].pool \in Nat
          /\ accounts \subseteq [number: Numbers, slug: Slugs, pool: Nat \ {0}]
      BY DEF PartnerInv, PA!TypeOK, DeskRecords
    <2>2. request[r].slug \in Slugs /\ (request[r].at = "numbering" => request[r].pool # 0)
      BY <1>7 DEF PA!FindPool, PA!CreatePool, PA!CreateAccount, PartnerInv, DeskOK
    <2>3. ASSUME NEW new \in DeskRecords, request' = [request EXCEPT ![r] = new],
                 new.at \in {"pooling", "numbering", "done"}, new.slug = request[r].slug,
                 new.at = "numbering" => new.pool # 0, pools' \in [Slugs -> Nat],
                 accounts' \subseteq [number: Numbers, slug: Slugs, pool: Nat \ {0}],
                 UNCHANGED <<partner, issued>>
          PROVE  PartnerInv'
      BY <2>2, <2>3, DeskMoves
    <2>4. ASSUME NEW at \in {"pooling", "done"}
          PROVE  LET new == [request[r] EXCEPT !.at = at]
                 IN  new \in DeskRecords /\ new.at = at /\ new.slug = request[r].slug
      BY <2>1 DEF DeskRecords
    <2>5. ASSUME NEW i \in Nat
          PROVE  LET new == [request[r] EXCEPT !.at = "numbering", !.pool = i]
                 IN  /\ new \in DeskRecords /\ new.at = "numbering" /\ new.slug = request[r].slug
                     /\ new.pool = i
      <3> DEFINE new == [request[r] EXCEPT !.at = "numbering", !.pool = i]
      <3>1. new \in DeskRecords
        BY <2>1, Zenon DEF DeskRecords
      <3>2. new.at = "numbering" /\ new.slug = request[r].slug /\ new.pool = i
        BY <2>1 DEF DeskRecords
      <3> QED BY <3>1, <3>2
    <2>6. CASE PA!FindPool(r)
      <3>1. UNCHANGED <<partner, issued, pools, accounts>>
        BY <2>6 DEF PA!FindPool
      <3>2. CASE request' = [request EXCEPT ![r].at = "pooling"]
        BY <2>1, <2>3, <2>4, <3>1, <3>2
      <3>3. ASSUME NEW i \in 1 .. pools[request[r].slug],
                   request' = [request EXCEPT ![r].at = "numbering", ![r].pool = i]
            PROVE  PartnerInv'
        <4> DEFINE new == [request[r] EXCEPT !.at = "numbering", !.pool = i]
        <4>1. i \in Nat /\ i # 0
          BY <2>1, <2>2
        <4>2. request' = [request EXCEPT ![r] = new]
          BY <3>3
        <4>3. new \in DeskRecords /\ new.at = "numbering" /\ new.slug = request[r].slug /\ new.pool = i
          BY <2>5, <4>1
        <4> HIDE DEF new
        <4> QED BY <2>1, <2>3, <3>1, <4>1, <4>2, <4>3
      <3> QED BY <2>6, <3>2, <3>3 DEF PA!FindPool
    <2>7. CASE PA!CreatePool(r)
      <3> DEFINE p == request[r].slug
                 new == [request[r] EXCEPT !.at = "numbering", !.pool = pools[p] + 1]
      <3>1. pools' = [pools EXCEPT ![p] = pools[p] + 1] /\ UNCHANGED <<partner, issued, accounts>>
        BY <2>7 DEF PA!CreatePool
      <3>2. pools'[p] = pools[p] + 1 /\ pools[p] \in Nat /\ pools' \in [Slugs -> Nat]
        BY <2>1, <2>2, <3>1
      <3>3. request' = [request EXCEPT ![r] = new]
        BY <2>7, <3>2 DEF PA!CreatePool
      <3>4. /\ new \in DeskRecords /\ new.at = "numbering" /\ new.slug = p
            /\ new.pool = pools[p] + 1
        <4>1. pools[p] + 1 \in Nat
          BY <3>2
        <4> QED BY <2>5, <4>1
      <3>5. new.pool # 0
        BY <3>2, <3>4
      <3> HIDE DEF new
      <3> QED BY <2>1, <2>3, <3>1, <3>2, <3>3, <3>4, <3>5
    <2>8. CASE PA!CreateAccount(r)
      <3>1. request' = [request EXCEPT ![r].at = "done"] /\ UNCHANGED <<partner, issued, pools>>
            /\ request[r].at = "numbering"
        BY <2>8 DEF PA!CreateAccount
      <3>2. PICK n \in Numbers : accounts' = accounts \cup
                {[number |-> n, slug |-> request[r].slug, pool |-> request[r].pool]}
        BY <2>8 DEF PA!CreateAccount
      <3>3. accounts' \subseteq [number: Numbers, slug: Slugs, pool: Nat \ {0}]
        BY <2>1, <2>2, <3>1, <3>2
      <3> QED BY <2>1, <2>3, <2>4, <3>1, <3>3
    <2> QED BY <1>7, <2>6, <2>7, <2>8
  <1>8. ASSUME UNCHANGED PA!vars PROVE PartnerInv'
    BY <1>8 DEF PA!vars, PartnerInv, PA!TypeOK, SecretInv, DeskOK, WillSaveOK, PA!Known
  <1> QED BY <1>1, <1>2, <1>3, <1>4, <1>5, <1>6, <1>7, <1>8, PartnerSaved DEF PA!Next

LEMMA PartnersAlways == PA!Spec => []PartnerInv
  <1>1. PA!Init => PartnerInv
    BY PartnerInit
  <1>2. PartnerInv /\ [PA!Next]_(PA!vars) => PartnerInv'
    BY PartnerNext
  <1> QED BY <1>1, <1>2, PTL DEF PA!Spec

(* A known partner's status changes in the save of a ruling.               *)
LEMMA PartnerRulings ==
    ASSUME PartnerInv, [PA!Next]_(PA!vars), NEW p \in Slugs, PA!Known(p),
           partner'[p].status # partner[p].status
    PROVE  \E r \in Visits : /\ request[r].kind = "setStatus" /\ request[r].slug = p
                             /\ request[r].at = "saving" /\ request'[r].at = "done"
  <1>1. partner \in [Slugs -> PA!Partner]
    BY DEF PartnerInv, PA!TypeOK
  <1>2. ~ UNCHANGED partner
    OBVIOUS
  <1>3. ASSUME NEW q \in Slugs, PA!CreatePartner(q) PROVE FALSE
    BY <1>1, <1>3 DEF PA!CreatePartner, PA!Known
  <1>4. ASSUME NEW q \in Slugs, PA!GraceEnds(q) PROVE FALSE
    BY <1>1, <1>4 DEF PA!GraceEnds, PA!Partner
  <1>5. ASSUME NEW r \in Visits, PA!Seed(r) PROVE FALSE
    BY <1>1, <1>2, <1>5 DEF PA!Seed, PA!Known
  <1>6. PICK r \in Visits : PA!Save(r)
    BY <1>2, <1>3, <1>4, <1>5 DEF PA!Next, PA!vars, PA!LookForPartner, PA!RotateWebhookSecret,
       PA!CreatePoolWallet, PA!SetPartnerStatus, PA!FindPool, PA!CreatePool, PA!CreateAccount
  <1>7. partner' = [partner EXCEPT ![request[r].slug] = PA!Saved(r)] /\ request'[r].at = "done"
    BY <1>6 DEF PA!Save, PartnerInv, PA!TypeOK
  <1>8. p = request[r].slug /\ partner'[p] = PA!Saved(r)
    BY <1>1, <1>7
  <1> QED BY <1>6, <1>7, <1>8, SavedPartner

(* A rotation that is saved keeps what it replaces.                        *)
LEMMA RotationSaved ==
    ASSUME PartnerInv, [PA!Next]_(PA!vars), NEW r \in Visits, request[r].kind = "rotate",
           request[r].at = "saving", request'[r].at = "done"
    PROVE  LET p == request[r].slug
           IN  partner[p].secret = request[r].read.secret /\ partner'[p].status = "active" =>
                   PA!Accepts(p, request[r].read.secret)'
  <1>1. request \in [Visits -> DeskRecords]
    BY DEF PartnerInv, PA!TypeOK, DeskRecords
  <1>2. ASSUME NEW q \in Visits, NEW x, request' = [request EXCEPT ![q] = x], q # r PROVE FALSE
    BY <1>1, <1>2
  <1>3. ASSUME NEW q \in Visits, NEW x, request' = [request EXCEPT ![q] = x],
               request[q].at # "saving" \/ request[q].kind = "seed"
        PROVE  FALSE
    BY <1>2, <1>3
  <1>4. ASSUME NEW q \in Visits, NEW kind, NEW p, NEW at, NEW wanted, PA!Load(q, kind, p, at, wanted)
        PROVE  FALSE
    BY <1>3, <1>4 DEF PA!Load
  <1>5. ASSUME NEW q \in Visits, PA!Seed(q) \/ PA!FindPool(q) \/ PA!CreatePool(q) \/ PA!CreateAccount(q)
        PROVE  FALSE
    <2>1. request[q].at # "saving" \/ request[q].kind = "seed"
      BY <1>5 DEF PA!Seed, PA!FindPool, PA!CreatePool, PA!CreateAccount
    <2>2. \E x : request' = [request EXCEPT ![q] = x]
      BY <1>5 DEF PA!Seed, PA!FindPool, PA!CreatePool, PA!CreateAccount
    <2> QED BY <1>3, <2>1, <2>2
  <1>6. ASSUME UNCHANGED request PROVE FALSE
    BY <1>6
  <1>7. PICK q \in Visits : PA!Save(q)
    BY <1>4, <1>5, <1>6 DEF PA!Next, PA!vars, PA!CreatePartner, PA!GraceEnds, PA!LookForPartner,
       PA!RotateWebhookSecret, PA!CreatePoolWallet, PA!SetPartnerStatus
  <1>8. q = r
    BY <1>2, <1>7 DEF PA!Save
  <1> DEFINE p == request[r].slug
             new == PA!Saved(r)
  <1>9. /\ p \in Slugs /\ new.previous = request[r].read.secret /\ new.grace
    BY <1>7, <1>8, SavedPartner
  <1>10. partner' = [partner EXCEPT ![p] = new] /\ partner \in [Slugs -> PA!Partner]
    BY <1>7, <1>8 DEF PA!Save, PartnerInv, PA!TypeOK
  <1>11. partner'[p] = new
    BY <1>9, <1>10
  <1>12. request'[r].slug = p /\ request'[r].read = request[r].read
    <2>1. request' = [request EXCEPT ![r].at = "done"] /\ request[r] \in DeskRecords
      BY <1>1, <1>7, <1>8 DEF PA!Save
    <2> QED BY <1>1, <2>1 DEF DeskRecords
  <1> QED BY <1>9, <1>11, <1>12 DEF PA!Accepts

(* A rotation leaves the partner time to switch over, whatever was saved   *)
(* about the partner since the rotation was asked for.                     *)
THEOREM RotationCorrect == PA!Spec => RotationKeepsOld
  <1>1. PartnerInv /\ [PA!Next]_(PA!vars) =>
          [\A r \in Visits :
             request[r].kind = "rotate" /\ request[r].at = "saving" /\ request'[r].at = "done" =>
                 LET p == request[r].slug
                 IN  partner[p].secret = request[r].read.secret /\ partner'[p].status = "active" =>
                         (PA!Accepts(p, request[r].read.secret))']_(PA!vars)
    BY RotationSaved
  <1> QED BY <1>1, PartnersAlways, PTL DEF PA!Spec, RotationKeepsOld, PA!RotationKeepsOld

-----------------------------------------------------------------------------
(***************************************************************************)
(* Operator accounts.                                                      *)
(***************************************************************************)

(* What a request will write: a new account with one of the roles, or of   *)
(* an account there is the status, if it is about that, and never the role.*)
VisitOK(v) ==
    LET q == visit[v] IN
        /\ q.at = "creating" => q.name \in Names /\ q.role \in AU!Roles
        /\ q.at = "saving" =>
             /\ q.name \in Names
             /\ q.wanted.role = q.read.role
             /\ q.kind # "setStatus" => q.wanted.status = q.read.status

VisitInv == AU!TypeOK /\ \A v \in Visits : VisitOK(v)

LEMMA VisitInit == ASSUME AU!Init PROVE VisitInv
  BY DEF AU!Init, AU!TypeOK, AU!Idle, AU!Nobody, AU!Accounts, AU!Roles, VisitInv, VisitOK

VisitRecords ==
    [at: {"idle", "creating", "saving", "done"},
     kind: {"none", "bootstrap", "create", "login", "setStatus"},
     name: Names \cup {NoName}, role: AU!Roles \cup {"none"},
     read: AU!Accounts, wanted: AU!Accounts]

(* A request is let in: nothing is written yet.                            *)
LEMMA EnterOK ==
    ASSUME VisitInv, NEW v \in Visits, NEW given \in VisitRecords, AU!Enter(v, given), AU!OnlyVisits,
           given.at = "creating" => given.name \in Names /\ given.role \in AU!Roles,
           given.at = "saving" => /\ given.name \in Names
                                  /\ given.wanted.role = given.read.role
                                  /\ given.kind # "setStatus" => given.wanted.status = given.read.status
    PROVE  VisitInv'
  <1>1. visit' = [visit EXCEPT ![v] = given] /\ UNCHANGED <<account, legacyKey>>
    BY DEF AU!Enter, AU!OnlyVisits
  <1>2. AU!TypeOK'
    BY <1>1 DEF VisitInv, AU!TypeOK, VisitRecords
  <1>3. ASSUME NEW w \in Visits PROVE VisitOK(w)'
    BY <1>1 DEF VisitInv, VisitOK, AU!TypeOK
  <1> QED BY <1>2, <1>3 DEF VisitInv

LEMMA IdleVisit == AU!Idle \in VisitRecords
  BY DEF AU!Idle, AU!Nobody, AU!Accounts, VisitRecords

LEMMA CreatingOK ==
    ASSUME VisitInv, NEW v \in Visits, NEW n \in Names, NEW kind \in {"bootstrap", "create"},
           NEW role \in AU!Roles, AU!Enter(v, AU!Creating(kind, n, role)), AU!OnlyVisits
    PROVE  VisitInv'
  <1> DEFINE given == AU!Creating(kind, n, role)
  <1>1. given \in VisitRecords
    BY IdleVisit, Zenon DEF AU!Creating, VisitRecords
  <1>2. given.at = "creating" /\ given.name = n /\ given.role = role
    BY IdleVisit DEF AU!Creating, VisitRecords
  <1>3. AU!Enter(v, given)
    OBVIOUS
  <1> HIDE DEF given
  <1> QED BY <1>1, <1>2, <1>3, EnterOK

LEMMA LoadingOK ==
    ASSUME VisitInv, NEW v \in Visits, NEW n \in Names, NEW kind \in {"login", "setStatus"},
           NEW wanted \in AU!Accounts, wanted.role = account[n].role,
           kind # "setStatus" => wanted.status = account[n].status,
           AU!Enter(v, AU!Loading(kind, n, wanted)), AU!OnlyVisits
    PROVE  VisitInv'
  <1> DEFINE given == AU!Loading(kind, n, wanted)
  <1>1. account[n] \in AU!Accounts
    BY DEF VisitInv, AU!TypeOK
  <1>2. given \in VisitRecords
    BY <1>1, IdleVisit, Zenon DEF AU!Loading, VisitRecords
  <1>3. /\ given.at = "saving" /\ given.name = n /\ given.kind = kind
        /\ given.read = account[n] /\ given.wanted = wanted
    BY IdleVisit DEF AU!Loading, VisitRecords
  <1>4. AU!Enter(v, given)
    OBVIOUS
  <1> HIDE DEF given
  <1> QED BY <1>2, <1>3, <1>4, EnterOK

(* What the save of a request makes of the account.                        *)
LEMMA SavedAccount ==
    ASSUME VisitInv, NEW v \in Visits, AU!Save(v)
    PROVE  /\ visit[v].at = "saving" /\ visit[v].name \in Names
           /\ account' = [account EXCEPT ![visit[v].name] = AU!Saved(v)]
           /\ AU!Saved(v) \in AU!Accounts
           /\ AU!Saved(v).role = account[visit[v].name].role
           /\ visit[v].kind # "setStatus" => AU!Saved(v).status = account[visit[v].name].status
  <1> DEFINE q == visit[v]
             old == account[q.name]
  <1>1. q.at = "saving" /\ q.name \in Names /\ q.read \in AU!Accounts /\ q.wanted \in AU!Accounts
        /\ old \in AU!Accounts
    BY DEF VisitInv, VisitOK, AU!TypeOK, AU!Save
  <1>2. q.wanted.role = q.read.role /\ (q.kind # "setStatus" => q.wanted.status = q.read.status)
    BY <1>1 DEF VisitInv, VisitOK
  <1>3. DOMAIN AU!Nobody = {"role", "status", "seen"}
    BY DEF AU!Nobody
  <1>4. AU!Saved(v) = [f \in {"role", "status", "seen"} |->
                         IF q.wanted[f] # q.read[f] THEN q.wanted[f] ELSE old[f]]
    BY <1>3 DEF AU!Saved
  <1>5. AU!Saved(v) = [role |-> IF q.wanted.role # q.read.role THEN q.wanted.role ELSE old.role,
                       status |-> IF q.wanted.status # q.read.status THEN q.wanted.status ELSE old.status,
                       seen |-> IF q.wanted.seen # q.read.seen THEN q.wanted.seen ELSE old.seen]
    BY <1>4
  <1>6. AU!Saved(v) \in AU!Accounts
    BY <1>1, <1>5 DEF AU!Accounts
  <1> QED BY <1>1, <1>2, <1>5, <1>6 DEF AU!Save

(* Every write of an account.                                              *)
LEMMA AccountWrites ==
    ASSUME VisitInv, [AU!Next]_(AU!vars)
    PROVE  \/ UNCHANGED account
           \/ \E v \in Visits : /\ AU!Create(v) /\ ~ AU!Exists(visit[v].name)
           \/ \E v \in Visits : AU!Save(v)
  BY DEF AU!Next, AU!vars, AU!Bootstrap, AU!Login, AU!CreateAdminUser, AU!SetStatus, AU!OnlyVisits,
         AU!Create

LEMMA VisitDone ==
    ASSUME VisitInv, NEW v \in Visits, visit' = [visit EXCEPT ![v].at = "done"], UNCHANGED legacyKey,
           account' \in [Names -> AU!Accounts]
    PROVE  VisitInv'
  <1>1. [visit[v] EXCEPT !.at = "done"] \in VisitRecords /\ [visit[v] EXCEPT !.at = "done"].at = "done"
    BY DEF VisitInv, AU!TypeOK, VisitRecords
  <1>2. AU!TypeOK'
    BY <1>1 DEF VisitInv, AU!TypeOK, VisitRecords
  <1>3. ASSUME NEW w \in Visits PROVE VisitOK(w)'
    BY <1>1 DEF VisitInv, VisitOK, AU!TypeOK
  <1> QED BY <1>2, <1>3 DEF VisitInv

LEMMA VisitNext == ASSUME VisitInv, [AU!Next]_(AU!vars) PROVE VisitInv'
  <1>1. ASSUME NEW v \in Visits, NEW n \in Names, AU!Bootstrap(v, n) PROVE VisitInv'
    BY <1>1, CreatingOK DEF AU!Bootstrap, AU!Roles
  <1>2. ASSUME NEW v \in Visits, NEW n \in Names, NEW role \in AU!Roles, AU!CreateAdminUser(v, n, role)
        PROVE  VisitInv'
    BY <1>2, CreatingOK DEF AU!CreateAdminUser
  <1>3. ASSUME NEW v \in Visits, NEW n \in Names, AU!Login(v, n) PROVE VisitInv'
    <2> DEFINE wanted == [account[n] EXCEPT !.seen = TRUE]
    <2>1. account[n] \in AU!Accounts
      BY DEF VisitInv, AU!TypeOK
    <2>2. wanted \in AU!Accounts
      BY <2>1, Zenon DEF AU!Accounts
    <2>3. wanted.role = account[n].role /\ wanted.status = account[n].status
      BY <2>1 DEF AU!Accounts
    <2>4. AU!Enter(v, AU!Loading("login", n, wanted)) /\ AU!OnlyVisits
      BY <1>3 DEF AU!Login
    <2> HIDE DEF wanted
    <2> QED BY <2>2, <2>3, <2>4, LoadingOK
  <1>4. ASSUME NEW v \in Visits, NEW n \in Names, NEW s \in {"active", "disabled"}, AU!SetStatus(v, n, s)
        PROVE  VisitInv'
    <2>1. /\ [account[n] EXCEPT !.status = s] \in AU!Accounts
          /\ [account[n] EXCEPT !.status = s].role = account[n].role
      BY DEF VisitInv, AU!TypeOK, AU!Accounts
    <2> QED BY <1>4, <2>1, LoadingOK DEF AU!SetStatus
  <1>5. ASSUME NEW v \in Visits, AU!Create(v) PROVE VisitInv'
    <2>1. visit[v].name \in Names /\ visit[v].role \in AU!Roles
      BY <1>5 DEF AU!Create, VisitInv, VisitOK
    <2>2. [AU!Nobody EXCEPT !.role = visit[v].role] \in AU!Accounts
      BY <2>1 DEF AU!Nobody, AU!Accounts
    <2>3. account' \in [Names -> AU!Accounts]
      BY <1>5, <2>1, <2>2 DEF AU!Create, VisitInv, AU!TypeOK
    <2> QED BY <1>5, <2>3, VisitDone DEF AU!Create
  <1>6. ASSUME NEW v \in Visits, AU!Save(v) PROVE VisitInv'
    <2>1. account' \in [Names -> AU!Accounts]
      BY <1>6, SavedAccount DEF VisitInv, AU!TypeOK
    <2> QED BY <1>6, <2>1, VisitDone DEF AU!Save
  <1>7. ASSUME UNCHANGED AU!vars PROVE VisitInv'
    BY <1>7 DEF AU!vars, VisitInv, VisitOK, AU!TypeOK
  <1> QED BY <1>1, <1>2, <1>3, <1>4, <1>5, <1>6, <1>7 DEF AU!Next

LEMMA VisitsAlways == AU!Spec => []VisitInv
  <1>1. AU!Init => VisitInv
    BY VisitInit
  <1>2. VisitInv /\ [AU!Next]_(AU!vars) => VisitInv'
    BY VisitNext
  <1> QED BY <1>1, <1>2, PTL DEF AU!Spec

(* An account there is keeps its role, and its status but for a ruling.    *)
LEMMA OperatorRulings ==
    ASSUME VisitInv, [AU!Next]_(AU!vars), NEW n \in Names, AU!Exists(n)
    PROVE  /\ account'[n].role = account[n].role
           /\ account'[n].status # account[n].status =>
                \E v \in Visits : /\ visit[v].kind = "setStatus" /\ visit[v].name = n
                                  /\ visit[v].at = "saving" /\ visit'[v].at = "done"
  <1>1. CASE UNCHANGED account
    BY <1>1
  <1>2. ASSUME NEW v \in Visits, AU!Create(v), ~ AU!Exists(visit[v].name)
        PROVE  account'[n] = account[n]
    BY <1>2 DEF AU!Create, VisitInv, AU!TypeOK
  <1>3. ASSUME NEW v \in Visits, AU!Save(v)
        PROVE  /\ account'[n].role = account[n].role
               /\ account'[n].status # account[n].status =>
                    /\ visit[v].kind = "setStatus" /\ visit[v].name = n
                    /\ visit[v].at = "saving" /\ visit'[v].at = "done"
    <2>1. account'[n] = IF n = visit[v].name THEN AU!Saved(v) ELSE account[n]
      BY <1>3, SavedAccount DEF VisitInv, AU!TypeOK
    <2>2. visit'[v].at = "done"
      BY <1>3 DEF AU!Save, VisitInv, AU!TypeOK
    <2> QED BY <1>3, <2>1, <2>2, SavedAccount
  <1> QED BY <1>1, <1>2, <1>3, AccountWrites

-----------------------------------------------------------------------------
(***************************************************************************)
(* Registration.                                                           *)
(***************************************************************************)

(* Where a sign-up stands says what it has left behind: a user from the    *)
(* moment it is created until it is taken away, a wallet once all is done. *)
SignUpInv ==
    /\ RG!TypeOK
    /\ \A c, d \in users : form[c].phone = form[d].phone => c = d
    /\ \A c \in Visits : c \in users <=> stage[c] \in {"created", "cleaning", "done"}
    /\ \A c \in Visits : stage[c] = "done" => \E w \in wallets : w.owner = c
    /\ \A w \in wallets : stage[w.owner] = "done" /\ w.number = form[w.owner].phone

LEMMA SignUpInit == ASSUME RG!Init PROVE SignUpInv
  BY DEF RG!Init, RG!TypeOK, SignUpInv

(* A sign-up that moves on and touches no rows.                            *)
LEMMA SignUpMoves ==
    ASSUME SignUpInv, NEW c \in Visits, NEW from, NEW to, RG!Goto(c, from, to),
           UNCHANGED <<users, wallets>>,
           \/ /\ from \in {"received", "phoneFree", "free"}
              /\ to \in {"refused", "phoneFree", "free"}
           \/ from = "created" /\ to = "cleaning"
    PROVE  SignUpInv'
  <1>1. stage[c] = from /\ UNCHANGED form /\ stage'[c] = to
        /\ \A d \in Visits : d # c => stage'[d] = stage[d]
    BY DEF SignUpInv, RG!TypeOK, RG!Goto
  <1>2. RG!TypeOK'
    BY DEF SignUpInv, RG!TypeOK, RG!Goto
  <1>3. \A w \in wallets : w.owner \in Visits
    BY DEF SignUpInv, RG!TypeOK
  <1> QED BY <1>1, <1>2, <1>3 DEF SignUpInv

LEMMA SignUpNext == ASSUME SignUpInv, [RG!Next]_(RG!vars) PROVE SignUpInv'
  <1> USE DEF RG!TypeOK
  <1>1. ASSUME NEW c \in Visits, RG!CheckPhone(c) \/ RG!CheckEmail(c) \/ RG!WalletFails(c)
        PROVE  SignUpInv'
    BY <1>1, SignUpMoves DEF RG!CheckPhone, RG!CheckEmail, RG!WalletFails, RG!AfterFailure
  <1>2. ASSUME NEW c \in Visits, RG!CreateUser(c) PROVE SignUpInv'
    <2>1. CASE ~ RG!IndexesAllow(c)
      BY <1>2, <2>1, SignUpMoves DEF RG!CreateUser
    <2>2. CASE RG!IndexesAllow(c)
      <3>1. /\ stage[c] = "free" /\ UNCHANGED <<form, wallets>> /\ users' = users \cup {c}
            /\ stage' = [stage EXCEPT ![c] = "created"]
        BY <1>2, <2>2 DEF RG!CreateUser, RG!Goto
      <3>2. \A d \in users : form[d].phone # form[c].phone
        BY <2>2 DEF RG!IndexesAllow, RG!PhoneTaken
      <3> QED BY <3>1, <3>2 DEF SignUpInv
    <2> QED BY <2>1, <2>2
  <1>3. ASSUME NEW c \in Visits, RG!CreateWallet(c) PROVE SignUpInv'
    <2> DEFINE new == [owner |-> c, number |-> form[c].phone]
    <2>1. /\ stage[c] = "created" /\ UNCHANGED <<form, users>> /\ wallets' = wallets \cup {new}
          /\ stage' = [stage EXCEPT ![c] = "done"]
      BY <1>3 DEF RG!CreateWallet, RG!Goto
    <2>2. new \in [owner: Visits, number: Phones] /\ new.owner = c /\ new.number = form[c].phone
      BY DEF SignUpInv
    <2> HIDE DEF new
    <2> QED BY <2>1, <2>2 DEF SignUpInv
  <1>4. ASSUME NEW c \in Visits, RG!DeleteUser(c) PROVE SignUpInv'
    <2>1. /\ stage[c] = "cleaning" /\ UNCHANGED <<form, wallets>> /\ users' = users \ {c}
          /\ stage' = [stage EXCEPT ![c] = "refused"]
      BY <1>4 DEF RG!DeleteUser, RG!Goto
    <2> QED BY <2>1 DEF SignUpInv
  <1>5. ASSUME UNCHANGED RG!vars PROVE SignUpInv'
    BY <1>5 DEF RG!vars, SignUpInv
  <1> QED BY <1>1, <1>2, <1>3, <1>4, <1>5 DEF RG!Next

LEMMA SignUpAlways == RG!Spec => []SignUpInv
  <1>1. RG!Init => SignUpInv
    BY SignUpInit
  <1>2. SignUpInv /\ [RG!Next]_(RG!vars) => SignUpInv'
    BY SignUpNext
  <1> QED BY <1>1, <1>2, PTL DEF RG!Spec

(* However many sign up at once, with the same number or another, and      *)
(* wherever a call dies, a customer and an account come together.          *)
THEOREM AccountsCorrect == RG!Spec => []OneAccountEach
  <1>1. SignUpInv => OneAccountEach
    BY DEF SignUpInv, RG!TypeOK, OneAccountEach, RG!OneAccountEach
  <1> QED BY <1>1, SignUpAlways, PTL

-----------------------------------------------------------------------------
(***************************************************************************)
(* All of them.                                                            *)
(***************************************************************************)

(* A freeze, a suspension and a ban are lifted by a ruling and by nothing  *)
(* else, whatever other saves of the same document were under way.         *)
THEOREM RulingsCorrect == KY!Spec /\ PA!Spec /\ AU!Spec => RulingsHold
  <1>1. FileInv /\ [KY!Next]_(KY!vars) =>
          [\A u \in Customers :
             file'[u].state # file[u].state =>
                 \E o \in Calls : /\ decision[o].kind = "setState" /\ decision[o].customer = u
                                  /\ decision[o].at = "saving" /\ decision'[o].at = "done"]_(KY!vars)
    BY StateRulings
  <1>2. PartnerInv /\ [PA!Next]_(PA!vars) =>
          [\A p \in Slugs :
             PA!Known(p) /\ partner'[p].status # partner[p].status =>
                 \E r \in Visits : /\ request[r].kind = "setStatus" /\ request[r].slug = p
                                   /\ request[r].at = "saving" /\ request'[r].at = "done"]_(PA!vars)
    BY PartnerRulings
  <1>3. VisitInv /\ [AU!Next]_(AU!vars) =>
          [\A n \in Names : AU!Exists(n) =>
             /\ account'[n].role = account[n].role
             /\ account'[n].status # account[n].status =>
                  \E v \in Visits : /\ visit[v].kind = "setStatus" /\ visit[v].name = n
                                    /\ visit[v].at = "saving" /\ visit'[v].at = "done"]_(AU!vars)
    BY OperatorRulings
  <1>4. KY!Spec => KY!OnlyRulings
    BY <1>1, FilesAlways, PTL DEF KY!Spec, KY!OnlyRulings
  <1>5. PA!Spec => PA!OnlyRulings
    BY <1>2, PartnersAlways, PTL DEF PA!Spec, PA!OnlyRulings
  <1>6. AU!Spec => AU!OnlyRulings
    BY <1>3, VisitsAlways, PTL DEF AU!Spec, AU!OnlyRulings
  <1> QED BY <1>4, <1>5, <1>6 DEF RulingsHold

(* No variable of any of the components leaves its type.                   *)
THEOREM TypesCorrect ==
    Spec /\ SignInSpec /\ KY!Spec /\ PA!Spec /\ AU!Spec /\ RG!Spec => []TypesOK
  <1>1. ApprovalInv /\ SignInInv /\ FileInv /\ PartnerInv /\ VisitInv /\ SignUpInv => TypesOK
    BY DEF TypesOK, ApprovalInv, SignInInv, FileInv, PartnerInv, VisitInv, SignUpInv
  <1> QED BY <1>1, ApprovalAlways, SignInAlways, FilesAlways, PartnersAlways, VisitsAlways, SignUpAlways,
             PTL
=============================================================================
