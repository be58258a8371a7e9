----------------------------- MODULE AdminUsers -----------------------------
(***************************************************************************)
(* Operator accounts (adminUser) and the check every admin route makes     *)
(* first (middleware/requireAdminAuth): the token names the admin, whose   *)
(* status and role are read from the database on every request; the old    *)
(* shared key still stands for a superadmin until it is switched off.      *)
(*                                                                         *)
(* A visit is one request: it is let in, and acts afterwards on what it    *)
(* has read.  mongoose writes the fields that differ from what was loaded. *)
(***************************************************************************)
EXTENDS FiniteSets

CONSTANTS Names, Visits, NoName

VARIABLES
    account,     \* AdminUser: role, status, and whether lastLoginAt is set
    visit,       \* per request: what it is for and what it has read
    legacyKey    \* not DISABLE_LEGACY_ADMIN_KEY, fixed when the server starts

vars == <<account, visit, legacyKey>>

Roles    == {"superadmin", "ops", "compliance", "support"}
Accounts == [role: Roles \cup {"none"}, status: {"active", "disabled"}, seen: BOOLEAN]
Nobody   == [role |-> "none", status |-> "active", seen |-> FALSE]
Idle     == [at |-> "idle", kind |-> "none", name |-> NoName, role |-> "none",
             read |-> Nobody, wanted |-> Nobody]

Exists(n) == account[n].role # "none"

Enter(v, given) ==
    /\ visit[v].at = "idle"
    /\ visit' = [visit EXCEPT ![v] = given]

OnlyVisits == UNCHANGED <<account, legacyKey>>

-----------------------------------------------------------------------------
(* requireAdminAuth(["superadmin"]), for a token of one of the accounts or *)
(* for the shared key.                                                     *)

LetIn == legacyKey \/ \E n \in Names : account[n].role = "superadmin" /\ account[n].status = "active"

-----------------------------------------------------------------------------
(* adminUser.service.js.                                                   *)

Creating(kind, n, role) == [Idle EXCEPT !.at = "creating", !.kind = kind, !.name = n, !.role = role]

(* bootstrapFirstSuperadmin(): counts, then creates.                       *)
Bootstrap(v, n) ==
    /\ \A m \in Names : ~ Exists(m)
    /\ Enter(v, Creating("bootstrap", n, "superadmin"))
    /\ OnlyVisits

CreateAdminUser(v, n, role) ==
    /\ LetIn
    /\ Enter(v, Creating("create", n, role))
    /\ OnlyVisits

(* The unique index refuses a username there is.                           *)
Create(v) ==
    /\ visit[v].at = "creating"
    /\ IF Exists(visit[v].name)
         THEN UNCHANGED account
         ELSE account' = [account EXCEPT ![visit[v].name] = [Nobody EXCEPT !.role = visit[v].role]]
    /\ visit' = [visit EXCEPT ![v].at = "done"]
    /\ UNCHANGED legacyKey

Loading(kind, n, wanted) ==
    [Idle EXCEPT !.at = "saving", !.kind = kind, !.name = n, !.read = account[n], !.wanted = wanted]

(* login(): the password is right.                                         *)
Login(v, n) ==
    /\ Exists(n) /\ account[n].status = "active"
    /\ Enter(v, Loading("login", n, [account[n] EXCEPT !.seen = TRUE]))
    /\ OnlyVisits

SetStatus(v, n, s) ==
    /\ LetIn
    /\ Exists(n)
    /\ Enter(v, Loading("setStatus", n, [account[n] EXCEPT !.status = s]))
    /\ OnlyVisits

(* admin.save(): the fields that differ from what was loaded.              *)
Saved(v) ==
    [f \in DOMAIN Nobody |->
       IF visit[v].wanted[f] # visit[v].read[f] THEN visit[v].wanted[f]
       ELSE account[visit[v].name][f]]

Save(v) ==
    /\ visit[v].at = "saving"
    /\ account' = [account EXCEPT ![visit[v].name] = Saved(v)]
    /\ visit' = [visit EXCEPT ![v].at = "done"]
    /\ UNCHANGED legacyKey

-----------------------------------------------------------------------------
Init ==
    /\ account = [n \in Names |-> Nobody]
    /\ visit = [v \in Visits |-> Idle]
    /\ legacyKey \in BOOLEAN

Next ==
    \/ \E v \in Visits, n \in Names :
         \/ Bootstrap(v, n) \/ Login(v, n)
         \/ \E role \in Roles : CreateAdminUser(v, n, role)
         \/ \E s \in {"active", "disabled"} : SetStatus(v, n, s)
    \/ \E v \in Visits : Create(v) \/ Save(v)

Spec == Init /\ [][Next]_vars

-----------------------------------------------------------------------------
(* Properties.                                                             *)

(* Every variable holds a value of its kind.                               *)
TypeOK ==
    /\ account \in [Names -> Accounts]
    /\ visit \in [Visits -> [at: {"idle", "creating", "saving", "done"},
                             kind: {"none", "bootstrap", "create", "login", "setStatus"},
                             name: Names \cup {NoName}, role: Roles \cup {"none"},
                             read: Accounts, wanted: Accounts]]
    /\ legacyKey \in BOOLEAN

(* An admin who has been disabled stays disabled until setStatus says      *)
(* otherwise (requireAdminAuth.js:8-12), not by a login that was under way *)
(* nor by being created again, and keeps the role given at first.          *)
OnlyRulings ==
    [][\A n \in Names : Exists(n) =>
         /\ account'[n].role = account[n].role
         /\ account'[n].status # account[n].status =>
              \E v \in Visits : /\ visit[v].kind = "setStatus" /\ visit[v].name = n
                                /\ visit[v].at = "saving" /\ visit'[v].at = "done"]_vars
=============================================================================
