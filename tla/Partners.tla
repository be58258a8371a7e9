------------------------------ MODULE Partners ------------------------------
(***************************************************************************)
(* Partners and the secrets they sign with (partner), the check of their   *)
(* signature (middleware/verifyPartnerSignature), and the pool a partner   *)
(* gets with its first virtual account (admin's createPoolWallet).         *)
(*                                                                         *)
(* An operator's request loads the partner and saves it later; mongoose    *)
(* writes the fields that differ from what was loaded.  A server that      *)
(* starts seeds the first partner.  Secrets are opaque and never repeat.   *)
(***************************************************************************)
EXTENDS Integers

CONSTANTS Slugs,
          Secrets,
          NoSecret,
          Desk,          \* requests of operators
          NoSlug,
          Numbers        \* of virtual accounts

VARIABLES
    partner,     \* Partner: status, webhookSecret, previousWebhookSecret, grace
    request,     \* per request: what it is and what it has loaded
    issued,      \* history: secrets that have been generated
    pools,       \* SettlementPool rows per partner
    accounts     \* virtual accounts: number, partner and pool

vars == <<partner, request, issued, pools, accounts>>

Partner == [status: {"none", "active", "suspended"}, secret: Secrets \cup {NoSecret},
            previous: Secrets \cup {NoSecret}, grace: BOOLEAN]
Absent  == [status |-> "none", secret |-> NoSecret, previous |-> NoSecret, grace |-> FALSE]
Idle    == [at |-> "idle", kind |-> "none", slug |-> NoSlug, read |-> Absent, wanted |-> Absent,
            pool |-> 0]

Known(p) == partner[p].status # "none"

Fresh == IF issued = Secrets THEN NoSecret ELSE CHOOSE s \in Secrets \ issued : TRUE

Load(r, kind, p, at, wanted) ==
    /\ request[r].at = "idle"
    /\ request' = [request EXCEPT ![r] = [Idle EXCEPT !.at = at, !.kind = kind, !.slug = p,
                                                      !.read = partner[p], !.wanted = wanted]]

-----------------------------------------------------------------------------
(* partner.service.js.                                                     *)

New(s) == [Absent EXCEPT !.status = "active", !.secret = s]

(* createPartner(): refused by the unique index when the slug is taken.    *)
CreatePartner(p) ==
    /\ ~ Known(p)
    /\ Fresh # NoSecret
    /\ partner' = [partner EXCEPT ![p] = New(Fresh)]
    /\ issued' = issued \cup {Fresh}
    /\ UNCHANGED <<request, pools, accounts>>

(* ensurePartnerFromEnv(), when a server starts: looks, then creates.      *)
LookForPartner(r, p) ==
    /\ ~ Known(p)
    /\ Load(r, "seed", p, "saving", Absent)
    /\ UNCHANGED <<partner, issued, pools, accounts>>

Seed(r) ==
    /\ request[r].at = "saving" /\ request[r].kind = "seed"
    /\ request' = [request EXCEPT ![r].at = "done"]
    /\ IF Known(request[r].slug) \/ Fresh = NoSecret
         THEN UNCHANGED <<partner, issued>>
         ELSE /\ partner' = [partner EXCEPT ![request[r].slug] = New(Fresh)]
              /\ issued' = issued \cup {Fresh}
    /\ UNCHANGED <<pools, accounts>>

SetPartnerStatus(r, p, s) ==
    /\ Known(p)
    /\ Load(r, "setStatus", p, "saving", [partner[p] EXCEPT !.status = s])
    /\ UNCHANGED <<partner, issued, pools, accounts>>

(* Mutant: the secret is replaced before it is kept.                       *)
RotatedLate(p, s) == [partner[p] EXCEPT !.secret = s, !.previous = s, !.grace = TRUE]

Rotated(p, s) == [partner[p] EXCEPT !.secret = s, !.previous = partner[p].secret, !.grace = TRUE]

RotateWebhookSecret(r, p) ==
    /\ Known(p)
    /\ Fresh # NoSecret
    /\ Load(r, "rotate", p, "saving", Rotated(p, Fresh))
    /\ issued' = issued \cup {Fresh}
    /\ UNCHANGED <<partner, pools, accounts>>

(* Mutant: the whole document is written back.                             *)
Replaced(r) == request[r].wanted

Saved(r) ==
    LET q == request[r]
    IN  [f \in DOMAIN q.wanted |->
           IF q.wanted[f] # q.read[f] \/ (f = "grace" /\ q.kind = "rotate")
             THEN q.wanted[f] ELSE partner[q.slug][f]]

Save(r) ==
    /\ request[r].at = "saving" /\ request[r].kind \in {"setStatus", "rotate"}
    /\ partner' = [partner EXCEPT ![request[r].slug] = Saved(r)]
    /\ request' = [request EXCEPT ![r].at = "done"]
    /\ UNCHANGED <<issued, pools, accounts>>

(* previousSecretExpiresAt passes.                                         *)
GraceEnds(p) ==
    /\ partner[p].grace
    /\ partner' = [partner EXCEPT ![p].grace = FALSE]
    /\ UNCHANGED <<request, issued, pools, accounts>>

(* verifyPartnerSignature.                                                 *)
Accepts(p, s) ==
    /\ partner[p].status = "active"
    /\ s = partner[p].secret \/ (partner[p].grace /\ s = partner[p].previous)

-----------------------------------------------------------------------------
(* admin.service.js: createPoolWallet(), which checks the partner, looks   *)
(* for its pool, creates one, and then the account, in separate writes.    *)

CreatePoolWallet(r, p) ==
    /\ partner[p].status = "active"
    /\ Load(r, "account", p, "finding", Absent)
    /\ UNCHANGED <<partner, issued, pools, accounts>>

(* getPoolByService().                                                     *)
FindPool(r) ==
    /\ request[r].at = "finding"
    /\ LET p == request[r].slug
       IN  \/ /\ pools[p] = 0
              /\ request' = [request EXCEPT ![r].at = "pooling"]
           \/ \E i \in 1 .. pools[p] :
                request' = [request EXCEPT ![r].at = "numbering", ![r].pool = i]
    /\ UNCHANGED <<partner, issued, pools, accounts>>

CreatePool(r) ==
    /\ request[r].at = "pooling"
    /\ pools' = [pools EXCEPT ![request[r].slug] = @ + 1]
    /\ request' = [request EXCEPT ![r].at = "numbering", ![r].pool = pools'[request[r].slug]]
    /\ UNCHANGED <<partner, issued, accounts>>

(* generateAccountNumber() has found the number free; the unique index     *)
(* decides.                                                                *)
CreateAccount(r) ==
    /\ request[r].at = "numbering"
    /\ \E n \in Numbers :
         /\ \A a \in accounts : a.number # n
         /\ accounts' = accounts \cup {[number |-> n, slug |-> request[r].slug,
                                         pool |-> request[r].pool]}
    /\ request' = [request EXCEPT ![r].at = "done"]
    /\ UNCHANGED <<partner, issued, pools>>

-----------------------------------------------------------------------------
Init ==
    /\ partner = [p \in Slugs |-> Absent]
    /\ request = [r \in Desk |-> Idle]
    /\ issued = {}
    /\ pools = [p \in Slugs |-> 0]
    /\ accounts = {}

Next ==
    \/ \E p \in Slugs : CreatePartner(p) \/ GraceEnds(p)
    \/ \E r \in Desk, p \in Slugs :
         \/ LookForPartner(r, p) \/ RotateWebhookSecret(r, p) \/ CreatePoolWallet(r, p)
         \/ \E s \in {"active", "suspended"} : SetPartnerStatus(r, p, s)
    \/ \E r \in Desk : Seed(r) \/ Save(r) \/ FindPool(r) \/ CreatePool(r) \/ CreateAccount(r)

Spec == Init /\ [][Next]_vars

-----------------------------------------------------------------------------
(* Properties.                                                             *)

(* Every variable holds a value of its kind.                               *)
TypeOK ==
    /\ partner \in [Slugs -> Partner]
    /\ request \in [Desk -> [at: {"idle", "saving", "finding", "pooling", "numbering", "done"},
                             kind: {"none", "seed", "setStatus", "rotate", "account"},
                             slug: Slugs \cup {NoSlug}, read: Partner, wanted: Partner, pool: Nat]]
    /\ issued \subseteq Secrets
    /\ pools \in [Slugs -> Nat]
    /\ accounts \subseteq [number: Numbers, slug: Slugs, pool: Nat \ {0}]

(* A partner is suspended or reinstated by setPartnerStatus alone: a       *)
(* rotation loaded before a suspension does not lift it, nor a restarting  *)
(* server that seeds the partner.                                          *)
OnlyRulings ==
    [][\A p \in Slugs :
         Known(p) /\ partner'[p].status # partner[p].status =>
             \E r \in Desk : /\ request[r].kind = "setStatus" /\ request[r].slug = p
                             /\ request[r].at = "saving" /\ request'[r].at = "done"]_vars

(* A rotation leaves the partner time to switch over                       *)
(* (partner.service.js:92-95): what was signed with the secret in use when *)
(* it was asked for is still accepted once it is saved, unless another     *)
(* rotation was saved meanwhile.                                           *)
RotationKeepsOld ==
    [][\A r \in Desk :
         request[r].kind = "rotate" /\ request[r].at = "saving" /\ request'[r].at = "done" =>
             LET p == request[r].slug
             IN  partner[p].secret = request[r].read.secret /\ partner'[p].status = "active" =>
                     (Accepts(p, request[r].read.secret))']_vars
=============================================================================
