--------------------------------- MODULE Kyc ---------------------------------
(***************************************************************************)
(* The file kept on a customer: identity numbers and tier (kyc) and the    *)
(* account state (account), all fields of one User document.               *)
(*                                                                         *)
(* A submission is one update of the fields it carries.  An operator's     *)
(* decision loads the document, checks it and saves it later, with nothing *)
(* to notice what was written in between; mongoose writes the fields whose *)
(* value differs from the one loaded and no others.                        *)
(***************************************************************************)
EXTENDS Integers, FiniteSets

CONSTANTS Customers,
          Clerks,       \* decisions on a customer: one admin request each
          Bvns,
          Nins,
          NoId

VARIABLES
    file,       \* User: kycStatus, kycTier, bvnHash, ninHash, accountState
    decision    \* per clerk: what is being decided and what has been read

vars == <<file, decision>>

Tiers  == {"tier1", "tier2", "tier3"}
States == {"active", "frozen", "dormant", "closed"}
Files  == [status: {"unverified", "submitted", "verified", "rejected"}, tier: Tiers,
           bvn: Bvns \cup {NoId}, nin: Nins \cup {NoId}, state: States]
NewFile == [status |-> "unverified", tier |-> "tier1", bvn |-> NoId, nin |-> NoId,
            state |-> "active"]

Idle == [at |-> "idle", kind |-> "none", customer |-> NoId, read |-> NewFile, wanted |-> NewFile]

-----------------------------------------------------------------------------
(* submitKyc().  The unique sparse indexes refuse a number another holds.  *)

Unused(u, bvn, nin) ==
    \A v \in Customers \ {u} : (bvn # NoId => file[v].bvn # bvn) /\ (nin # NoId => file[v].nin # nin)

Given(new, old) == IF new # NoId THEN new ELSE old

(* Mutant: a submission clears the number it does not carry.               *)
WholeSubmission(u, bvn, nin) ==
    [file[u] EXCEPT !.status = "submitted", !.bvn = bvn, !.nin = nin]

Submission(u, bvn, nin) ==
    [file[u] EXCEPT !.status = "submitted", !.bvn = Given(bvn, @), !.nin = Given(nin, @)]

SubmitKyc(u, bvn, nin) ==
    /\ bvn # NoId \/ nin # NoId
    /\ Unused(u, bvn, nin)
    /\ file' = [file EXCEPT ![u] = Submission(u, bvn, nin)]
    /\ UNCHANGED decision

-----------------------------------------------------------------------------
(* verifyKyc() and setAccountState(): the load and the checks.             *)

Decide(o, kind, u, wanted) ==
    /\ decision[o].at = "idle"
    /\ decision' = [decision EXCEPT ![o] = [at |-> "saving", kind |-> kind, customer |-> u,
                                            read |-> file[u], wanted |-> wanted]]
    /\ UNCHANGED file

Reject(o, u) ==
    /\ file[u].status = "submitted"
    /\ Decide(o, "reject", u, [file[u] EXCEPT !.status = "rejected"])

Verify(o, u, tier) ==
    /\ file[u].status = "submitted"
    /\ tier \in {"tier2", "tier3"} => file[u].bvn # NoId /\ file[u].nin # NoId
    /\ Decide(o, "verify", u, [file[u] EXCEPT !.status = "verified", !.tier = tier])

SetAccountState(o, u, s) ==
    /\ file[u].state # s
    /\ Decide(o, "setState", u, [file[u] EXCEPT !.state = s])

(* user.save(): the fields that differ from what was loaded.               *)
Field(o, f) ==
    LET d == decision[o]
    IN  IF d.wanted[f] # d.read[f] THEN d.wanted[f] ELSE file[d.customer][f]

Saved(o) == [status |-> Field(o, "status"), tier |-> Field(o, "tier"), bvn |-> Field(o, "bvn"),
             nin |-> Field(o, "nin"), state |-> Field(o, "state")]

Save(o) ==
    /\ decision[o].at = "saving"
    /\ file' = [file EXCEPT ![decision[o].customer] = Saved(o)]
    /\ decision' = [decision EXCEPT ![o] = [Idle EXCEPT !.at = "done"]]

-----------------------------------------------------------------------------
Init ==
    /\ file = [u \in Customers |-> NewFile]
    /\ decision = [o \in Clerks |-> Idle]

Next ==
    \/ \E u \in Customers, bvn \in Bvns \cup {NoId}, nin \in Nins \cup {NoId} :
         SubmitKyc(u, bvn, nin)
    \/ \E o \in Clerks, u \in Customers :
         \/ Reject(o, u)
         \/ \E tier \in Tiers : Verify(o, u, tier)
         \/ \E s \in States : SetAccountState(o, u, s)
    \/ \E o \in Clerks : Save(o)

Spec == Init /\ [][Next]_vars

-----------------------------------------------------------------------------
(* Properties.                                                             *)

(* Every variable holds a value of its kind.                               *)
TypeOK ==
    /\ file \in [Customers -> Files]
    /\ decision \in [Clerks -> [at: {"idle", "saving", "done"},
                                kind: {"none", "reject", "verify", "setState"},
                                customer: Customers \cup {NoId}, read: Files, wanted: Files]]

(* A customer above the first tier has both numbers on file, also when the *)
(* tier was granted while another submission came in, and no two customers *)
(* share one (kyc.service.js:71-76, user.model.js:67-71).                  *)
HigherTierHasBoth ==
    \A u \in Customers :
        file[u].tier # "tier1" =>
            /\ file[u].bvn # NoId /\ file[u].nin # NoId
            /\ Unused(u, file[u].bvn, file[u].nin)

(* Only setAccountState changes an account state                           *)
(* (account/accountState.service.js:9-11): a decision on the customer's    *)
(* papers loaded before a freeze does not lift it.                         *)
OnlyRulings ==
    [][\A u \in Customers :
         file'[u].state # file[u].state =>
             \E o \in Clerks : /\ decision[o].kind = "setState" /\ decision[o].customer = u
                               /\ decision[o].at = "saving" /\ decision'[o].at = "done"]_vars
=============================================================================
