------------------------------- MODULE Access -------------------------------
(***************************************************************************)
(* The components that decide who may do what: approvals, signing in,      *)
(* customers' files, partners, operator accounts and registration.  They   *)
(* share no state in these models, so together they are the conjunction of *)
(* their specifications.                                                   *)
(***************************************************************************)
EXTENDS Approval, SignIn

CONSTANTS Customers, Bvns, Nins, NoId,
          Slugs, Secrets, NoSecret, NoSlug, Numbers,
          Visits, Names, NoName,
          Phones, Emails

(* What stands for a missing number or secret is none of them.             *)
ASSUME NothingIsNothing == NoId \notin Bvns \cup Nins /\ NoSecret \notin Secrets

VARIABLES file, decision,
          partner, request, issued, pools, accounts,
          account, visit, legacyKey,
          form, stage, users, wallets

KY == INSTANCE Kyc WITH Clerks <- Calls
PA == INSTANCE Partners WITH Desk <- Visits
AU == INSTANCE AdminUsers
RG == INSTANCE Registration WITH SignUps <- Visits

-----------------------------------------------------------------------------
(* Properties.                                                             *)

(* Every component's variables hold values of their kinds; no correction   *)
(* overdraws a wallet and no code counts more tries than it allows.        *)
TypesOK == TypeOK /\ SignInTypeOK /\ KY!TypeOK /\ PA!TypeOK /\ AU!TypeOK /\ RG!TypeOK

(* Kyc: no tier above the first without both numbers, and no number twice. *)
HigherTierHasBoth == KY!HigherTierHasBoth

(* An operator's ruling is undone by a ruling only: no other save of the   *)
(* same document lifts a freeze, a suspension or a ban.                    *)
RulingsHold == KY!OnlyRulings /\ PA!OnlyRulings /\ AU!OnlyRulings

(* Partners: a rotated secret is still accepted when the rotation is saved.*)
RotationKeepsOld == PA!RotationKeepsOld

(* Registration: user and wallet come together.                            *)
OneAccountEach == RG!OneAccountEach
=============================================================================
