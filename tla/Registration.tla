---------------------------- MODULE Registration ----------------------------
(***************************************************************************)
(* A customer signs up (auth/auth.service.js, wallet/wallet.service.js):   *)
(* the phone number and the e-mail address are looked up, the user is      *)
(* created, then the wallet, whose account number is the phone number      *)
(* without its leading 0; a wallet that cannot be created takes the user   *)
(* away again.  Nothing of this is a transaction.  A process that dies is  *)
(* a call that takes no further step.                                      *)
(***************************************************************************)
EXTENDS FiniteSets

CONSTANTS SignUps, Phones, Emails

VARIABLES
    form,      \* per call: the phone number and e-mail address given
    stage,     \* where it is
    users,     \* User rows, named by the call that created them
    wallets    \* customers' Wallet rows: owner and number

vars == <<form, stage, users, wallets>>

Goto(c, from, to) ==
    /\ stage[c] = from
    /\ stage' = [stage EXCEPT ![c] = to]
    /\ UNCHANGED form

PhoneTaken(c) == \E d \in users : form[d].phone = form[c].phone
EmailTaken(c) == \E d \in users : form[d].email = form[c].email

CheckPhone(c) ==
    /\ Goto(c, "received", IF PhoneTaken(c) THEN "refused" ELSE "phoneFree")
    /\ UNCHANGED <<users, wallets>>

CheckEmail(c) ==
    /\ Goto(c, "phoneFree", IF EmailTaken(c) THEN "refused" ELSE "free")
    /\ UNCHANGED <<users, wallets>>

(* The unique indexes of user.model.js.                                    *)
IndexesAllow(c) == ~ PhoneTaken(c) /\ ~ EmailTaken(c)

CreateUser(c) ==
    /\ Goto(c, "free", IF IndexesAllow(c) THEN "created" ELSE "refused")
    /\ users' = IF IndexesAllow(c) THEN users \cup {c} ELSE users
    /\ UNCHANGED wallets

(* createWallet(); the account number is unique too.                       *)
CreateWallet(c) ==
    /\ Goto(c, "created", "done")
    /\ \A w \in wallets : w.number # form[c].phone
    /\ wallets' = wallets \cup {[owner |-> c, number |-> form[c].phone]}
    /\ UNCHANGED users

(* Mutant: the error is passed on and the user stays.                      *)
LeavesUser(c) == "refused"

AfterFailure(c) == "cleaning"

WalletFails(c) ==
    /\ Goto(c, "created", AfterFailure(c))
    /\ UNCHANGED <<users, wallets>>

DeleteUser(c) ==
    /\ Goto(c, "cleaning", "refused")
    /\ users' = users \ {c}
    /\ UNCHANGED wallets

-----------------------------------------------------------------------------
Init ==
    /\ form \in [SignUps -> [phone: Phones, email: Emails]]
    /\ stage = [c \in SignUps |-> "received"]
    /\ users = {}
    /\ wallets = {}

Next == \E c \in SignUps :
    \/ CheckPhone(c) \/ CheckEmail(c) \/ CreateUser(c)
    \/ CreateWallet(c) \/ WalletFails(c) \/ DeleteUser(c)

Spec == Init /\ [][Next]_vars

-----------------------------------------------------------------------------
(* Properties.                                                             *)

(* Every variable holds a value of its kind.                               *)
TypeOK ==
    /\ form \in [SignUps -> [phone: Phones, email: Emails]]
    /\ stage \in [SignUps -> {"received", "phoneFree", "free", "created", "cleaning",
                              "done", "refused"}]
    /\ users \subseteq SignUps
    /\ wallets \subseteq [owner: SignUps, number: Phones]

(* However sign-ups overlap and fail, a customer and an account come       *)
(* together: a phone number names one user, no user is left without a      *)
(* wallet by a call that has ended (auth.service.js:34-36), no wallet      *)
(* without its user, and an answer "Registered" is true.                   *)
OneAccountEach ==
    /\ \A c, d \in users : form[c].phone = form[d].phone => c = d
    /\ \A c \in users :
         (\E w \in wallets : w.owner = c) \/ stage[c] \in {"created", "cleaning"}
    /\ \A w \in wallets : w.owner \in users /\ w.number = form[w.owner].phone
    /\ \A c \in SignUps : stage[c] = "done" => c \in users
=============================================================================
