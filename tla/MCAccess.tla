------------------------------ MODULE MCAccess ------------------------------
(* A small instance of Access for TLC.  A behaviour exercises one of the   *)
(* components, its `focus', and the others stay where they start: the      *)
(* states checked add up instead of multiplying, and nothing is lost,      *)
(* since no component can see another.                                     *)
EXTENDS Access, TLC

VARIABLE focus

Components == {"approval", "signIn", "kyc", "partners", "adminUsers", "registration"}

papers       == <<file, decision>>
partners     == <<partner, request, issued, pools, accounts>>
operators    == <<account, visit, legacyKey>>
registration == <<form, stage, users, wallets>>
state == <<vars, signInVars, papers, partners, operators, registration, focus>>

(* What a component out of focus starts with, where it has a choice.       *)
InitAll ==
    /\ focus \in Components
    /\ focus # "approval" =>
         /\ makerChecker = TRUE
         /\ order \in {[c \in Calls |-> [kind |-> "approve", admin |-> CHOOSE a \in Checkers : TRUE,
                                       request |-> r]] : r \in Requests}
    /\ focus # "signIn" =>
         /\ user \in {u \in StartUsers : u.failed = 0 /\ u.lock = "no" /\ ~ u.mfaEnabled}
         /\ otps = << >>
    /\ focus # "adminUsers" => legacyKey = TRUE
    /\ focus # "registration" =>
         form = [s \in Visits |-> [phone |-> CHOOSE f \in Phones : TRUE,
                                   email |-> CHOOSE e \in Emails : TRUE]]
    /\ Init /\ KY!Init /\ PA!Init /\ AU!Init /\ RG!Init /\ SignInInit

NextAll ==
    /\ UNCHANGED focus
    /\ \/ /\ focus = "approval" /\ Next
          /\ UNCHANGED <<signInVars, papers, partners, operators, registration>>
       \/ /\ focus = "signIn" /\ SignInNext
          /\ UNCHANGED <<vars, papers, partners, operators, registration>>
       \/ /\ focus = "kyc" /\ KY!Next
          /\ UNCHANGED <<vars, signInVars, partners, operators, registration>>
       \/ /\ focus = "partners" /\ PA!Next
          /\ UNCHANGED <<vars, signInVars, papers, operators, registration>>
       \/ /\ focus = "adminUsers" /\ AU!Next
          /\ UNCHANGED <<vars, signInVars, papers, partners, registration>>
       \/ /\ focus = "registration" /\ RG!Next
          /\ UNCHANGED <<vars, signInVars, papers, partners, operators>>

SpecAll == InitAll /\ [][NextAll]_state

(* Calls and requests are interchangeable, and so are the values in        *)
(* References (and in Pins, Customers and Names, which are the same ones). *)
Symmetry == Permutations(Calls) \cup Permutations(Requests) \cup Permutations(References)
=============================================================================
