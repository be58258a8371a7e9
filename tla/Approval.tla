------------------------------ MODULE Approval ------------------------------
(***************************************************************************)
(* Manual corrections of a wallet (modules/adjustment) and the requests    *)
(* that ask for them (modules/approval): one admin requests a correction,  *)
(* a different one approves it, and approving applies it.                  *)
(*                                                                         *)
(* A call is one request to the approve, reject or adjustment route; calls *)
(* interleave at every await.  The transaction of applyAdjustment is a     *)
(* begin step that takes the snapshot and a commit step that fails when    *)
(* the wallet has been written in between.  A request is saved by its id   *)
(* alone, so the save of a call that loaded it earlier always succeeds.    *)
(* The roles are the routes' own: whoever may decide may also be a maker   *)
(* (a superadmin is both).                                                 *)
(***************************************************************************)
EXTENDS Integers, FiniteSets, Functions

CONSTANTS Calls,
          Requests,      \* ApprovalRequest rows there may be
          Makers,        \* admins the request and adjustment routes let in
          Checkers,      \* admins the approve and reject routes let in
          References,    \* references a correction may carry
          Wallets,
          Amounts,
          OPENING        \* every wallet's balance at the start

ASSUME CorrectionsArePositive == Amounts \subseteq Nat \ {0} /\ OPENING \in Nat

VARIABLES
    makerChecker, \* env.REQUIRE_MAKER_CHECKER, fixed when the server starts
    order,        \* what each call asks for
    pc,           \* where each call is
    view,         \* the balance its open transaction has read
    overtaken,    \* open transactions whose wallet has been written
    status,       \* ApprovalRequest.status; "none" before it is created
    maker,        \* ApprovalRequest.requestedBy
    payload,      \* ApprovalRequest.payload
    balance,      \* Wallet.balance
    adjustments   \* Adjustment rows, each with its ledger entry

asked == <<status, maker, payload>>
books == <<balance, adjustments>>
vars  == <<makerChecker, order, pc, view, overtaken, asked, books>>

Admins   == Makers \cup Checkers
Payloads == [reference: References, wallet: Wallets,
             direction: {"credit", "debit"}, amount: Amounts]
Orders   == [kind: {"approve", "reject"}, admin: Checkers, request: Requests]
              \cup [kind: {"adjust"}, admin: Makers, payload: Payloads]
NoPayload == [reference |-> "none"]
NoMaker   == "none"

Request(c) == order[c].request
Admin(c)   == order[c].admin

(* The correction a call applies: its own, or the one its request holds.   *)
Correction(c) == IF order[c].kind = "adjust" THEN order[c].payload ELSE payload[Request(c)]

Goto(c, from, to) ==
    /\ pc[c] = from
    /\ pc' = [pc EXCEPT ![c] = to]

OnlyMoves(c) == UNCHANGED <<makerChecker, order, view, overtaken, asked, books>>

-----------------------------------------------------------------------------
(* approval.service.js.                                                    *)

(* createRequest().                                                        *)
CreateRequest(r, a, p) ==
    /\ status[r] = "none"
    /\ status' = [status EXCEPT ![r] = "pending"]
    /\ maker' = [maker EXCEPT ![r] = a]
    /\ payload' = [payload EXCEPT ![r] = p]
    /\ UNCHANGED <<makerChecker, order, pc, view, overtaken, books>>

(* Mutant: a maker may decide their own request.                           *)
AnyoneDecides(c) == status[Request(c)] = "pending"

MayDecide(c) == status[Request(c)] = "pending" /\ maker[Request(c)] # Admin(c)

(* The load and the checks of approveRequest() and rejectRequest().        *)
Approve(c) ==
    /\ order[c].kind = "approve"
    /\ Goto(c, "received", IF MayDecide(c) THEN "applying" ELSE "refused")
    /\ OnlyMoves(c)

Reject(c) ==
    /\ order[c].kind = "reject"
    /\ Goto(c, "received", IF MayDecide(c) THEN "rejecting" ELSE "refused")
    /\ OnlyMoves(c)

(* request.save(): nothing compares the status with the one it loaded.     *)
SaveDecision(c, s) ==
    /\ status' = [status EXCEPT ![Request(c)] = s]
    /\ UNCHANGED <<makerChecker, order, view, overtaken, maker, payload, books>>

SaveRejected(c) == Goto(c, "rejecting", "done") /\ SaveDecision(c, "rejected")

(* The correction failed: the request is rejected with the reason.         *)
SaveFailed(c) ==
    /\ order[c].kind = "approve"
    /\ Goto(c, "failed", "refused")
    /\ SaveDecision(c, "rejected")

SaveApproved(c) ==
    /\ order[c].kind = "approve"
    /\ Goto(c, "applied", "done")
    /\ SaveDecision(c, "approved")

-----------------------------------------------------------------------------
(* adjustment.service.js and its route.                                    *)

(* createAdjustment(): closed when maker-checker is required.              *)
Adjust(c) ==
    /\ order[c].kind = "adjust"
    /\ Goto(c, "received", IF makerChecker THEN "refused" ELSE "applying")
    /\ OnlyMoves(c)

Taken(c) == \E a \in adjustments : a.reference = Correction(c).reference

LookUp(c) ==
    /\ Goto(c, "applying", IF Taken(c) THEN "applied" ELSE "opening")
    /\ OnlyMoves(c)

(* Mutant: a debit is not checked against the balance.                     *)
AlwaysCovered(c) == TRUE

Covered(c) == Correction(c).direction = "debit"
                => balance[Correction(c).wallet] >= Correction(c).amount

Begin(c) ==
    /\ Goto(c, "opening", "open")
    /\ Covered(c)
    /\ view' = [view EXCEPT ![c] = balance[Correction(c).wallet]]
    /\ UNCHANGED <<makerChecker, order, overtaken, asked, books>>

NotCovered(c) ==
    /\ Goto(c, "opening", "failed")
    /\ ~ Covered(c)
    /\ OnlyMoves(c)

Close(c) ==
    /\ view' = [view EXCEPT ![c] = 0]
    /\ UNCHANGED <<makerChecker, order, asked>>

Signed(p) == IF p.direction = "credit" THEN p.amount ELSE - p.amount

(* Mutant: the unique index on reference is missing.                       *)
NoUniqueIndex(c) == TRUE

ReferenceFree(c) == ~ Taken(c)

(* Mutant: no conflict on the wallet.                                      *)
NoWriteConflict(c) == TRUE

Serializable(c) == c \notin overtaken

Commit(c) ==
    /\ Goto(c, "open", "applied")
    /\ Serializable(c)
    /\ ReferenceFree(c)
    /\ balance' = [balance EXCEPT ![Correction(c).wallet] = view[c] + Signed(Correction(c))]
    /\ adjustments' = adjustments \cup
         {[by |-> c, reference |-> Correction(c).reference, wallet |-> Correction(c).wallet,
           direction |-> Correction(c).direction, amount |-> Correction(c).amount]}
    /\ overtaken' = (overtaken \cup {d \in Calls : /\ pc[d] = "open"
                                                   /\ Correction(d).wallet = Correction(c).wallet})
                      \ {c}
    /\ Close(c)

(* Mutant: a failed insert is taken for success.                           *)
ErrorSwallowed(c) == "applied"

AfterError(c) == "failed"

(* The insert finds the reference taken: the row it names is the answer.   *)
FindDuplicate(c) ==
    /\ Goto(c, "open", "applied")
    /\ Serializable(c)
    /\ ~ ReferenceFree(c)
    /\ overtaken' = overtaken \ {c}
    /\ Close(c)
    /\ UNCHANGED books

(* A write conflict, an unknown wallet or any other error rolls it back.   *)
Abort(c) ==
    /\ Goto(c, "open", AfterError(c))
    /\ overtaken' = overtaken \ {c}
    /\ Close(c)
    /\ UNCHANGED books

(* The process dies, or an error outside the transaction ends the call.    *)
Die(c) ==
    /\ \/ pc[c] \in {"received", "rejecting", "applying", "opening", "open"}
       \/ order[c].kind = "approve" /\ pc[c] \in {"applied", "failed"}
    /\ pc' = [pc EXCEPT ![c] = "died"]
    /\ overtaken' = overtaken \ {c}
    /\ Close(c)
    /\ UNCHANGED books

Decide(c) ==
    \/ Approve(c) \/ Reject(c) \/ SaveRejected(c) \/ SaveFailed(c) \/ SaveApproved(c)

Apply(c) ==
    \/ Adjust(c) \/ LookUp(c) \/ Begin(c) \/ NotCovered(c)
    \/ Commit(c) \/ FindDuplicate(c) \/ Abort(c)

-----------------------------------------------------------------------------
Init ==
    /\ makerChecker \in BOOLEAN
    /\ order \in [Calls -> Orders]
    /\ pc = [c \in Calls |-> "received"]
    /\ view = [c \in Calls |-> 0]
    /\ overtaken = {}
    /\ status = [r \in Requests |-> "none"]
    /\ maker = [r \in Requests |-> NoMaker]
    /\ payload = [r \in Requests |-> NoPayload]
    /\ balance = [w \in Wallets |-> OPENING]
    /\ adjustments = {}

Next ==
    \/ \E c \in Calls : Decide(c) \/ Apply(c) \/ Die(c)
    \/ \E r \in Requests, a \in Makers, p \in Payloads : CreateRequest(r, a, p)

Spec == Init /\ [][Next]_vars

-----------------------------------------------------------------------------
(* Properties.                                                             *)

(* Every variable holds a value of its kind; no correction overdraws a     *)
(* wallet, however corrections of it overlap.                              *)
TypeOK ==
    /\ makerChecker \in BOOLEAN
    /\ order \in [Calls -> Orders]
    /\ pc \in [Calls -> {"received", "rejecting", "applying", "opening", "open",
                         "applied", "failed", "done", "refused", "died"}]
    /\ view \in [Calls -> Nat]
    /\ overtaken \subseteq Calls
    /\ status \in [Requests -> {"none", "pending", "approved", "rejected"}]
    /\ maker \in [Requests -> Makers \cup {NoMaker}]
    /\ payload \in [Requests -> Payloads \cup {NoPayload}]
    /\ balance \in [Wallets -> Nat]
    /\ adjustments \subseteq [by: Calls, reference: References, wallet: Wallets,
                              direction: {"credit", "debit"}, amount: Amounts]

Corrections(w) == {a \in adjustments : a.wallet = w}

Net(A) == SumFunctionOnSet([a \in A |-> Signed(a)], A)

(* The balance of every wallet is what its corrections add up to: two that *)
(* overlap are both counted or one of them fails.                          *)
BalancesMatchLedger ==
    \A w \in Wallets :
        balance[w] = OPENING + Net(Corrections(w))

(* A correction double-clicked, requested twice, approved by two admins at *)
(* once or approved again after a crash moves money once.                  *)
OncePerReference == \A a, b \in adjustments : a.reference = b.reference => a = b

(* What is on file is what the request asked for, to the letter.           *)
AsRequested(a, r) ==
    payload[r] = [reference |-> a.reference, wallet |-> a.wallet,
                  direction |-> a.direction, amount |-> a.amount]

Approves(c, r) == order[c].kind = "approve" /\ Request(c) = r

(* Of a request that says "approved", whatever else was decided meanwhile, *)
(* the correction its reference names is on file.  It is the very one that *)
(* was asked for, unless another request or a direct adjustment had used   *)
(* the reference: then that one has moved money and this one has not.      *)
ApprovedIsApplied ==
    \A r \in Requests :
        status[r] = "approved" =>
            \E a \in adjustments :
                /\ a.reference = payload[r].reference
                /\ AsRequested(a, r) \/ ~ Approves(a.by, r)

(* With maker-checker required nobody moves money alone: every correction  *)
(* was asked for by one admin and approved by another, who saw the wallet, *)
(* direction and amount that were applied.                                 *)
TakesTwoAdmins ==
    makerChecker =>
        \A a \in adjustments : \E r \in Requests :
            /\ Approves(a.by, r) /\ AsRequested(a, r)
            /\ maker[r] \in Admins \ {Admin(a.by)}
=============================================================================
