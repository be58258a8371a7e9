\* Two calls of one customer, possibly with one key, one free transfer a day,
\* money for both unless the dearer one goes first and the other must pay.
SPECIFICATION Spec
CONSTANTS
    Instructions = {t1, t2}
    Users = {ada}
    Keys = {k1, k2}
    Amounts = {95, 100}
    Passes = {p1}
    FEE = 10
    FREE_PER_DAY = 1
    DAILY_LIMIT = 1000
    OPENING = 205
SYMMETRY Symmetry
INVARIANT TypeOK
INVARIANT OutcomeMatchesRail
INVARIANT BooksAgree
INVARIANT OneTransferPerKey
PROPERTY FeeReflectsAllowance
PROPERTY OutcomeIsFinal
PROPERTY KeepsPromise
