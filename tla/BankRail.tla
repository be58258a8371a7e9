------------------------------ MODULE BankRail ------------------------------
(***************************************************************************)
(* The banking rail behind src/providers: the outside party that moves the *)
(* money of a bank transfer, a payout or a refund.  The repository holds   *)
(* the contract an adapter must honour (bankProvider.interface.js) and a   *)
(* mock; this module is that contract, as the services and the recovery    *)
(* job rely on it.  An instruction is named by the reference it is sent    *)
(* under, the _id of the row that asked for it.                            *)
(*                                                                         *)
(*   none      the rail was never told                                     *)
(*   sent      told, the message is under way                              *)
(*   queued    taken ("accepted" does not mean the money has landed)       *)
(*   paid      the money landed                                            *)
(*   bounced   taken, and later definitively failed                        *)
(*   refused   definitively refused, the money never left                  *)
(***************************************************************************)
CONSTANT Instructions   \* the references instructions can be sent under

VARIABLE rail           \* what has become of each instruction at the bank

RailStates == {"none", "sent", "queued", "paid", "bounced", "refused"}

Taken     == {"queued", "paid", "bounced"}
WillNotPay == {"bounced", "refused"}

RailInit == rail = [i \in Instructions |-> "none"]

MoveRail(i, from, to) ==
    /\ rail[i] = from
    /\ rail' = [rail EXCEPT ![i] = to]

(* initiateTransfer leaves the process: from here on the rail decides.     *)
Instruct(i) == MoveRail(i, "none", "sent")

(* What the rail does on its own, at its own pace, or never.               *)
RailTakes(i)   == MoveRail(i, "sent", "queued")
RailRefuses(i) == MoveRail(i, "sent", "refused")
RailPays(i)    == MoveRail(i, "queued", "paid")
RailBounces(i) == MoveRail(i, "queued", "bounced")

RailStep(i) == RailTakes(i) \/ RailRefuses(i) \/ RailPays(i) \/ RailBounces(i)

(***************************************************************************)
(* What initiateTransfer may answer: "accepted" only when the instruction  *)
(* was taken, "rejected" only when it was refused, "ambiguous" always (a   *)
(* timeout, a 5xx, and an adapter that throws, which the callers turn into *)
(* "ambiguous").                                                           *)
(***************************************************************************)
InitiateAnswers(i) ==
    {"ambiguous"} \cup (IF rail[i] \in Taken THEN {"accepted"} ELSE {})
                  \cup (IF rail[i] = "refused" THEN {"rejected"} ELSE {})

(***************************************************************************)
(* What checkTransferStatus may answer: "failed" is definitive and         *)
(* "unknown" always honest, so a reference the rail has not seen yet is    *)
(* "unknown".                                                              *)
(***************************************************************************)
(* Mutant: an adapter maps "no such transfer" to "failed".                 *)
StatusAnswersUnseenFailed(i) ==
    {"unknown"} \cup (IF rail[i] \in {"queued", "paid"} THEN {"success"} ELSE {"failed"})

StatusAnswers(i) ==
    {"unknown"} \cup (IF rail[i] \in {"queued", "paid"} THEN {"success"} ELSE {})
                \cup (IF rail[i] \in WillNotPay THEN {"failed"} ELSE {})
=============================================================================
