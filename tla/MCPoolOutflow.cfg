\* Two instructions on one pool that can pay for two small ones or one large
\* one, one run of each recovery loop.
SPECIFICATION Spec
CONSTANTS
    Instructions = {o1, o2}
    Pools = {swiftpay}
    Keys = {k1, k2}
    Amounts = {100, 150}
    PayoutLoops = {lp}
    RefundLoops = {lr}
    OPENING = 200
SYMMETRY Symmetry
INVARIANT TypeOK
INVARIANT OutcomeMatchesRail
INVARIANT BooksAgree
INVARIANT OneInstructionPerKey
PROPERTY OutcomeIsFinal
PROPERTY KeepsPromise
