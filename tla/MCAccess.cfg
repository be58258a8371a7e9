\* Approvals: two calls by an ops admin or two who may decide, one of whom is
\* a superadmin and may also request; two requests, one reference or two.
\* Signing in: two requests beside a session and perhaps a code already there.
\* Files: two customers, two clerks.  Partners: one, three requests of operators.
\* Operator accounts: two names, three requests.  Sign-ups: three.
SPECIFICATION SpecAll
CONSTANTS
    Calls = {c1, c2}
    Requests = {r1, r2}
    Makers = {ops, super}
    Checkers = {super, compliance}
    References = {x, y}
    Wallets = {w}
    Amounts = {60}
    OPENING = 100
    SignInCalls = {c1, c2}
    Pins = {x, y}
    NoPin = NoPin
    Held = Held
    MAX_PIN_ATTEMPTS = 2
    MAX_ATTEMPTS = 2
    Customers = {x, y}
    Bvns = {b1}
    Nins = {i1, i2}
    NoId = NoId
    Slugs = {swiftpay}
    Secrets = {k1, k2, k3}
    NoSecret = NoSecret
    NoSlug = NoSlug
    Numbers = {n1, n2}
    Names = {x, y}
    Visits = {v1, v2, v3}
    NoName = NoName
    Phones = {f1, f2}
    Emails = {e1, e2}
SYMMETRY Symmetry
CHECK_DEADLOCK FALSE
INVARIANT TypesOK
INVARIANT BalancesMatchLedger
INVARIANT OncePerReference
INVARIANT ApprovedIsApplied
INVARIANT TakesTwoAdmins
INVARIANT AttemptsAreCounted
INVARIANT EverySessionWasEarned
INVARIANT OldTokenDies
INVARIANT HigherTierHasBoth
INVARIANT OneAccountEach
PROPERTY RulingsHold
PROPERTY RotationKeepsOld
